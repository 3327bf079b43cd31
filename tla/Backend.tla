-------------------------------- MODULE Backend --------------------------------
(***************************************************************************)
(* The service around the solver: the HTTP handlers of                     *)
(* golang/src/backend/main.go, the semaphore that lets as many of them     *)
(* into the library as there are CPUs, and the library's entry             *)
(* processRequest (src/wrapper/interface.cpp) with the stages of           *)
(* Solver::solve (src/lib/solve/solver.cpp) in which it can fail.  The     *)
(* search itself is a step here; ParallelSearch and Colony model it.       *)
(*                                                                         *)
(* External: gin starts a handler for each connection and recovers from a  *)
(* handler's panic; sends that block on a full channel are served in       *)
(* order.                                                                  *)
(***************************************************************************)
EXTENDS Naturals, Sequences, FiniteSets, SequencesExt

CONSTANTS
    Solves,         \* the requests to /solve_routes
    Pings,          \* the clients that ask for /ping, each again and again
    NumCPU,         \* runtime.NumCPU(), the capacity of sem
    Levels          \* the log levels a request may name and the library knows

ASSUME BackendAssumption ==
    /\ NumCPU \in Nat \ {0}
    /\ Solves \cap Pings = {}
    /\ IsFiniteSet(Solves) /\ IsFiniteSet(Pings)

Handlers == Solves \cup Pings

VARIABLES
    pc,         \* where each handler is
    sem,        \* the number of values in the channel
    queue,      \* the handlers that are blocked in "sem <- 1", in order
    rcode,      \* what processRequest returned to each handler
    response,   \* output_ctx.response
    failed,     \* output_ctx.err
    answer,     \* the status sent to each /solve_routes client, 0 for none
    gLogLevel   \* shared by all requests

output == <<rcode, response, failed>>
vars   == <<pc, sem, queue, rcode, response, failed, answer, gLogLevel>>

\* the places inside processRequest, and those where a slot is held
Library == {"parse", "table", "search", "result"}
Holding == Library \cup {"leave", "pong"}

Places == {"new", "bind", "queued", "respond", "answered", "gone"} \cup Holding

Init ==
    /\ pc = [h \in Handlers |-> "new"]
    /\ sem = 0
    /\ queue = <<>>
    /\ rcode = [h \in Handlers |-> 0]
    /\ response = [h \in Handlers |-> "empty"]     \* the empty string
    /\ failed = [h \in Handlers |-> FALSE]
    /\ answer = [h \in Solves |-> 0]
    /\ gLogLevel = "info"

Goto(h, p) == pc' = [pc EXCEPT ![h] = p]

-----------------------------------------------------------------------------
(* The handlers *)

Arrive(h) ==
    /\ pc[h] = "new"
    /\ IF h \in Pings THEN Goto(h, "queued") /\ queue' = Append(queue, h)
                      ELSE Goto(h, "bind") /\ UNCHANGED queue
    /\ UNCHANGED <<sem, output, answer, gLogLevel>>

\* a body that is no request is answered without a turn in the library
Bind(h) ==
    /\ pc[h] = "bind"
    /\ \/ /\ Goto(h, "answered")
          /\ answer' = [answer EXCEPT ![h] = 400]
          /\ UNCHANGED queue
       \/ /\ Goto(h, "queued")
          /\ queue' = Append(queue, h)
          /\ UNCHANGED answer
    /\ UNCHANGED <<sem, output, gLogLevel>>

\* mutant of Enter: whoever comes first when a slot is free, not who waited longest
Enter_AnyOrder ==
    \E i \in DOMAIN queue :
        /\ sem < NumCPU
        /\ sem' = sem + 1
        /\ queue' = RemoveAt(queue, i)
        /\ Goto(queue[i], IF queue[i] \in Pings THEN "pong" ELSE "parse")
        /\ UNCHANGED <<output, answer, gLogLevel>>

\* mutant of Enter: the send does not block
Enter_NoCapacity ==
    /\ queue # <<>>
    /\ sem' = sem + 1
    /\ queue' = Tail(queue)
    /\ Goto(Head(queue), IF Head(queue) \in Pings THEN "pong" ELSE "parse")
    /\ UNCHANGED <<output, answer, gLogLevel>>

\* sem <- 1
Enter ==
    /\ queue # <<>>
    /\ sem < NumCPU
    /\ sem' = sem + 1
    /\ queue' = Tail(queue)
    /\ Goto(Head(queue), IF Head(queue) \in Pings THEN "pong" ELSE "parse")
    /\ UNCHANGED <<output, answer, gLogLevel>>

\* mutant of Leave: a request that failed is answered before the slot is given back
Leave_OnSuccess(h) ==
    /\ pc[h] = "leave"
    /\ sem' = IF rcode[h] = 0 THEN sem - 1 ELSE sem
    /\ Goto(h, IF h \in Pings THEN "new" ELSE "respond")
    /\ UNCHANGED <<queue, output, answer, gLogLevel>>

\* <-sem
Leave(h) ==
    /\ pc[h] = "leave"
    /\ sem' = sem - 1
    /\ Goto(h, IF h \in Pings THEN "new" ELSE "respond")
    /\ UNCHANGED <<queue, output, answer, gLogLevel>>

Pong(h) ==
    /\ pc[h] = "pong"
    /\ Goto(h, "leave")
    /\ UNCHANGED <<sem, queue, output, answer, gLogLevel>>

\* external: gin's c.JSON panics when the answer cannot be written, as when
\* the client is gone; the handler is unwound and its slot is not given back
PongPanics(h) ==
    /\ pc[h] = "pong"
    /\ Goto(h, "gone")
    /\ UNCHANGED <<sem, queue, output, answer, gLogLevel>>

\* mutant of Respond: the return code is not looked at
Respond_Always200(h) ==
    /\ pc[h] = "respond"
    /\ answer' = [answer EXCEPT ![h] = 200]
    /\ Goto(h, "answered")
    /\ UNCHANGED <<sem, queue, output, gLogLevel>>

Respond(h) ==
    /\ pc[h] = "respond"
    /\ answer' = [answer EXCEPT ![h] = IF rcode[h] # 0 THEN 400 ELSE 200]
    /\ Goto(h, "answered")
    /\ UNCHANGED <<sem, queue, output, gLogLevel>>

-----------------------------------------------------------------------------
(* processRequest, with the handler's goroutine *)

\* an exception, whatever its stage: processRequestError and "return 1"
Throw(h) ==
    /\ response' = [response EXCEPT ![h] = "error"]
    /\ failed' = [failed EXCEPT ![h] = TRUE]
    /\ rcode' = [rcode EXCEPT ![h] = 1]
    /\ Goto(h, "leave")

\* the request may not parse or may name a level that does not exist; otherwise
\* its level becomes everyone's
Parse(h) ==
    /\ pc[h] = "parse"
    /\ \/ Throw(h) /\ UNCHANGED gLogLevel
       \/ /\ gLogLevel' \in Levels
          /\ Goto(h, "table")
          /\ UNCHANGED output
    /\ UNCHANGED <<sem, queue, answer>>

\* osrm's table, which may fail
Table(h) ==
    /\ pc[h] = "table"
    /\ \/ Throw(h)
       \/ Goto(h, "search") /\ UNCHANGED output
    /\ UNCHANGED <<sem, queue, answer, gLogLevel>>

\* the colony, after which "No solution found!" may be thrown
Search(h) ==
    /\ pc[h] = "search"
    /\ \/ Throw(h)
       \/ Goto(h, "result") /\ UNCHANGED output
    /\ UNCHANGED <<sem, queue, answer, gLogLevel>>

\* the statistics, osrm's polylines, which may fail, and processRequestDone
Result(h) ==
    /\ pc[h] = "result"
    /\ \/ Throw(h)
       \/ /\ response' = [response EXCEPT ![h] = "trips"]
          /\ rcode' = [rcode EXCEPT ![h] = 0]
          /\ Goto(h, "leave")
          /\ UNCHANGED failed
    /\ UNCHANGED <<sem, queue, answer, gLogLevel>>

-----------------------------------------------------------------------------

Ping(h)  == Pong(h) \/ PongPanics(h)
Solve(h) == Bind(h) \/ Parse(h) \/ Table(h) \/ Search(h) \/ Result(h) \/ Respond(h)
Handle(h) == Ping(h) \/ Solve(h) \/ Leave(h)

\* the pings that took their slot with them
Lost == {h \in Pings : pc[h] = "gone"}

\* every handler has returned, or those that have not wait for a slot and there
\* is none left to give back
Idle ==
    /\ \A h \in Handlers :
          \/ pc[h] \in {"answered", "gone"}
          \/ pc[h] = "queued" /\ Cardinality(Lost) = NumCPU
    /\ UNCHANGED vars

Next == Enter \/ (\E h \in Handlers : Arrive(h) \/ Handle(h)) \/ Idle

Spec == Init /\ [][Next]_vars

\* goroutines are scheduled, and the library returns: the search stops at its
\* limits (Termination in ParallelSearch).  Nobody has to send a request
FairSpec ==
    /\ Spec
    /\ WF_vars(Enter)
    /\ \A h \in Handlers : WF_vars(Handle(h))

-----------------------------------------------------------------------------

\* every variable has its type: sem never holds more than its capacity, so there
\* are never more requests in the library than CPUs (main.go:29, 73)
TypeOK ==
    /\ pc \in [Handlers -> Places]
    /\ sem \in 0 .. NumCPU
    /\ queue \in Seq(Handlers)
    /\ rcode \in [Handlers -> {0, 1}]
    /\ response \in [Handlers -> {"empty", "error", "trips"}]
    /\ failed \in [Handlers -> BOOLEAN]
    /\ answer \in [Solves -> {0, 200, 400}]
    /\ gLogLevel \in Levels \cup {"info"}

\* every value in the channel is a handler inside or a ping that panicked: no
\* failure of the library, at whatever stage, costs a slot
SlotsAccounted ==
    sem = Cardinality({h \in Handlers : pc[h] \in Holding}) + Cardinality(Lost)

\* the client is told 200 exactly with trips, 400 otherwise, and the error of
\* the library never comes with the empty text of a call that called nobody back
AnswerFits ==
    \A h \in Solves :
        /\ answer[h] = 200 => response[h] = "trips" /\ ~failed[h]
        /\ answer[h] = 400 => response[h] # "trips"
        /\ pc[h] = "respond" => response[h] # "empty"

\* a request is answered, whatever the others do, unless as many pings have
\* panicked as there are CPUs
EveryRequestAnswered ==
    [](Cardinality(Lost) < NumCPU) =>
        \A h \in Solves : pc[h] = "bind" ~> answer[h] # 0

\* those of a queue that are requests to /solve_routes, in the same order
SolvesOf(q) == FoldLeft(LAMBDA w, h : IF h \in Solves THEN Append(w, h) ELSE w, << >>, q)

\* the handlers, the semaphore and the library together keep what Service
\* promises: turns in the order of waiting (main.go 73), never more of them than
\* slots that pings left, and for each request one outcome and one answer (76-94)
Promise == INSTANCE Service WITH
    Requests <- Solves,
    Slots    <- NumCPU,
    waiting  <- SolvesOf(queue),
    inside   <- {h \in Solves : pc[h] \in Library},
    outcome  <- [h \in Solves |-> response[h]],
    slots    <- NumCPU - Cardinality(Lost)

KeepsPromise == Promise!Spec
=============================================================================
