---------------------------- MODULE ServiceProofs ----------------------------
(***************************************************************************)
(* Proofs about the service, for any number of clients and of CPUs: the    *)
(* slots of the semaphore are accounted for, answers fit what the library  *)
(* did, and the backend implements the abstract service; about what its    *)
(* requests share, the logger and the statistics of the fails; about the   *)
(* consoles and the loader of benchmark files; about the way of a request  *)
(* from its JSON text's values to the solver's objects; and the types of   *)
(* all their variables.                                                    *)
(***************************************************************************)
EXTENDS ServiceParts, FoldLemmas

-----------------------------------------------------------------------------
(* The inductive invariant.                                                 *)

\* whose slot it is
Inside == {h \in Handlers : pc[h] \in Holding}

\* Everyone in the queue waits, and waits once.
QueueInv ==
    /\ \A i \in 1 .. Len(queue) : pc[queue[i]] = "queued"
    /\ \A i, j \in 1 .. Len(queue) : queue[i] = queue[j] => i = j

\* The places of a ping, and those of a solve.
Roles ==
    /\ \A h \in Pings : pc[h] \in {"new", "queued", "pong", "leave", "gone"}
    /\ \A h \in Solves : pc[h] \notin {"pong", "gone"}

\* the places of a handler whose call has not returned
Unanswered == {"new", "bind", "queued"} \cup Library

\* What the library has left of a call, at each place of its handler.
Turn(h) ==
    /\ pc[h] \in Unanswered => response[h] = "empty" /\ ~failed[h] /\ answer[h] = 0
    /\ pc[h] \in {"leave", "respond"} =>
          /\ answer[h] = 0
          /\ rcode[h] = 0 => response[h] = "trips" /\ ~failed[h]
          /\ rcode[h] # 0 => response[h] = "error"
    /\ pc[h] = "answered" =>
          /\ answer[h] = 200 => response[h] = "trips" /\ ~failed[h]
          /\ answer[h] = 400 => response[h] # "trips"

Turns == \A h \in Solves : Turn(h)

IInv == TypeOK /\ QueueInv /\ Roles /\ SlotsAccounted /\ Turns

\* There are finitely many handlers, so those with a slot can be counted.
LEMMA Finite ==
  /\ IsFiniteSet(Handlers) /\ IsFiniteSet(Inside) /\ IsFiniteSet(Lost)
  /\ Cardinality(Inside) \in Nat /\ Cardinality(Lost) \in Nat
  <1>1. IsFiniteSet(Handlers)
    BY BackendAssumption, FS_Union DEF Handlers
  <1>2. Inside \in SUBSET Handlers /\ Lost \in SUBSET Handlers
    BY DEF Inside, Lost, Handlers
  <1>3. IsFiniteSet(Inside) /\ IsFiniteSet(Lost)
    BY <1>1, <1>2, FS_Subset
  <1>. QED
    BY <1>1, <1>3, FS_CardinalityType

\* The places of a handler, by name.
LEMMA Apart ==
  /\ Holding = {"parse", "table", "search", "result", "leave", "pong"}
  /\ Library = {"parse", "table", "search", "result"}
  /\ Unanswered = {"new", "bind", "queued", "parse", "table", "search", "result"}
  /\ Places = {"new", "bind", "queued", "respond", "answered", "gone", "parse", "table", "search",
               "result", "leave", "pong"}
  BY DEF Holding, Library, Places, Unanswered

-----------------------------------------------------------------------------
(* What a step of a handler does to the slots.                              *)

\* A step between two places that both hold a slot, or neither.
LEMMA NoSlot ==
  ASSUME IInv, NEW h \in Handlers, NEW p \in Places \ {"gone"}, Goto(h, p), sem' = sem,
         pc[h] \in Holding <=> p \in Holding, pc[h] # "gone"
  PROVE  SlotsAccounted'
  <1>1. pc \in [Handlers -> Places]
    BY DEF IInv, TypeOK
  <1>2. Inside' = Inside
    BY <1>1 DEF Inside, Goto
  <1>3. Lost' = Lost
    BY <1>1 DEF Lost, Goto, Handlers
  <1>. QED
    BY <1>2, <1>3 DEF IInv, SlotsAccounted, Inside

\* A handler gets a slot.
LEMMA SlotTaken ==
  ASSUME IInv, NEW h \in Handlers, NEW p \in Holding, Goto(h, p), sem' = sem + 1, pc[h] = "queued"
  PROVE  SlotsAccounted'
  <1>1. pc \in [Handlers -> Places] /\ sem \in Nat
    BY BackendAssumption DEF IInv, TypeOK
  <1>2. Inside' = Inside \cup {h} /\ h \notin Inside
    BY <1>1, Apart DEF Inside, Goto
  <1>3. Lost' = Lost
    BY <1>1, Apart DEF Lost, Goto, Handlers
  <1>4. Cardinality(Inside') = Cardinality(Inside) + 1
    BY <1>2, Finite, FS_AddElement
  <1>. QED
    BY <1>1, <1>3, <1>4, Finite DEF IInv, SlotsAccounted, Inside

\* A handler gives its slot back, which was in the channel.
LEMMA SlotReturned ==
  ASSUME IInv, NEW h \in Handlers, NEW p \in Places \ (Holding \cup {"gone"}), Goto(h, p), sem' = sem - 1,
         pc[h] = "leave"
  PROVE  SlotsAccounted' /\ sem > 0
  <1>1. pc \in [Handlers -> Places] /\ sem \in Nat
    BY BackendAssumption DEF IInv, TypeOK
  <1>2. Inside' = Inside \ {h} /\ h \in Inside
    BY <1>1, Apart DEF Inside, Goto
  <1>3. Lost' = Lost
    BY <1>1, Apart DEF Lost, Goto, Handlers
  <1>4. Cardinality(Inside') = Cardinality(Inside) - 1
    BY <1>2, Finite, FS_RemoveElement
  <1>5. Cardinality(Inside) # 0
    BY <1>2, Finite, FS_EmptySet
  <1>. QED
    BY <1>1, <1>3, <1>4, <1>5, Finite DEF IInv, SlotsAccounted, Inside

\* A ping is lost, and its slot with it.
LEMMA SlotLost ==
  ASSUME IInv, NEW h \in Handlers, Goto(h, "gone"), sem' = sem, pc[h] = "pong"
  PROVE  SlotsAccounted'
  <1>1. pc \in [Handlers -> Places] /\ sem \in Nat /\ h \in Pings
    BY BackendAssumption DEF IInv, TypeOK, Roles, Handlers
  <1>2. Inside' = Inside \ {h} /\ h \in Inside
    BY <1>1, Apart DEF Inside, Goto
  <1>3. Lost' = Lost \cup {h} /\ h \notin Lost
    BY <1>1, Apart DEF Lost, Goto
  <1>4. Cardinality(Inside') = Cardinality(Inside) - 1
    BY <1>2, Finite, FS_RemoveElement
  <1>5. Cardinality(Lost') = Cardinality(Lost) + 1
    BY <1>3, Finite, FS_AddElement
  <1>. QED
    BY <1>1, <1>4, <1>5, Finite DEF IInv, SlotsAccounted, Inside

-----------------------------------------------------------------------------
(* The queue.                                                               *)

LEMMA Appended ==
  ASSUME IInv, NEW h \in Handlers, pc[h] # "queued", Goto(h, "queued"), queue' = Append(queue, h)
  PROVE  QueueInv' /\ queue' \in Seq(Handlers)
  BY DEF IInv, TypeOK, QueueInv, Goto

LEMMA Waiting ==
  ASSUME IInv, NEW h \in Handlers, NEW p, pc[h] # "queued", Goto(h, p), UNCHANGED queue
  PROVE  QueueInv' /\ queue' \in Seq(Handlers)
  <1>1. \A i \in 1 .. Len(queue) : queue[i] # h /\ queue[i] \in Handlers
    BY DEF IInv, TypeOK, QueueInv
  <1>. QED
    BY <1>1 DEF IInv, TypeOK, QueueInv, Goto

LEMMA Dequeued ==
  ASSUME IInv, NEW p, queue # << >>, Goto(Head(queue), p), queue' = Tail(queue)
  PROVE  QueueInv' /\ queue' \in Seq(Handlers) /\ Head(queue) \in Handlers /\ pc[Head(queue)] = "queued"
  <1>1. /\ queue \in Seq(Handlers) /\ Len(queue) > 0 /\ Head(queue) = queue[1]
        /\ Tail(queue) \in Seq(Handlers) /\ Len(Tail(queue)) = Len(queue) - 1
        /\ \A i \in 1 .. Len(queue) - 1 : Tail(queue)[i] = queue[i + 1]
        /\ \A i \in 1 .. Len(queue) : queue[i] \in Handlers
    BY DEF IInv, TypeOK
  <1>2. \A i \in 1 .. Len(queue) - 1 : queue[i + 1] # Head(queue) /\ pc[queue[i + 1]] = "queued"
    BY <1>1 DEF IInv, QueueInv
  <1>3. \A i \in 1 .. Len(queue) - 1 : pc'[queue[i + 1]] = "queued"
    BY <1>1, <1>2 DEF IInv, TypeOK, Goto
  <1>4. \A i, j \in 1 .. Len(queue) - 1 : queue[i + 1] = queue[j + 1] => i = j
    BY <1>1 DEF IInv, QueueInv
  <1>5. pc[queue[1]] = "queued"
    BY <1>1 DEF IInv, QueueInv
  <1>6. Len(queue') = Len(queue) - 1 /\ \A i \in 1 .. Len(queue') : queue'[i] = queue[i + 1]
    BY <1>1
  <1>7. QueueInv'
    BY <1>3, <1>4, <1>6 DEF QueueInv
  <1>. QED
    BY <1>1, <1>5, <1>7

-----------------------------------------------------------------------------
\* The invariant holds at the start.
LEMMA InitInv == Init => IInv
  <1>. SUFFICES ASSUME Init PROVE IInv
    OBVIOUS
  <1>1. TypeOK /\ QueueInv /\ Roles /\ Turns
    BY BackendAssumption, Apart DEF Init, TypeOK, QueueInv, Roles, Turns, Turn, Handlers
  <1>2. Inside = {} /\ Lost = {}
    BY Apart DEF Init, Inside, Lost, Handlers
  <1>3. SlotsAccounted
    <2>1. Cardinality(Inside) = 0 /\ Cardinality(Lost) = 0 /\ sem = 0
      BY <1>2, FS_EmptySet DEF Init
    <2>. QED
      BY <2>1 DEF SlotsAccounted, Inside
  <1>. QED
    BY <1>1, <1>3 DEF IInv

\* The other handlers are where they were.
LEMMA Others ==
  ASSUME IInv, NEW h \in Handlers, NEW p \in Places, Goto(h, p)
  PROVE  /\ pc' \in [Handlers -> Places]
         /\ pc'[h] = p
         /\ \A g \in Handlers \ {h} : pc'[g] = pc[g]
  BY DEF IInv, TypeOK, Goto

\* A client that comes, comes to the queue or to the binding of its body.
LEMMA ArriveKeeps == ASSUME IInv, NEW h \in Handlers, Arrive(h) PROVE IInv'
  <1>1. CASE h \in Pings /\ Goto(h, "queued") /\ queue' = Append(queue, h)
    <2>1. h \notin Solves
      BY <1>1, BackendAssumption
    <2>2. SlotsAccounted'
      BY <1>1, Apart, NoSlot DEF Arrive
    <2>3. QueueInv' /\ queue' \in Seq(Handlers)
      BY <1>1, Appended DEF Arrive
    <2>4. pc' \in [Handlers -> Places] /\ pc'[h] = "queued" /\ \A g \in Handlers \ {h} : pc'[g] = pc[g]
      BY <1>1, Apart, Others
    <2>5. TypeOK' /\ Roles'
      BY <1>1, <2>1, <2>3, <2>4 DEF Arrive, output, IInv, TypeOK, Roles, Handlers
    <2>6. Turns'
      BY <1>1, <2>1, <2>4 DEF Arrive, output, IInv, TypeOK, Turns, Turn, Handlers
    <2>. QED
      BY <2>2, <2>3, <2>5, <2>6 DEF IInv
  <1>2. CASE h \notin Pings /\ Goto(h, "bind") /\ UNCHANGED queue
    <2>1. SlotsAccounted'
      BY <1>2, Apart, NoSlot DEF Arrive
    <2>2. QueueInv' /\ queue' \in Seq(Handlers)
      BY <1>2, Waiting DEF Arrive
    <2>3. pc' \in [Handlers -> Places] /\ pc'[h] = "bind" /\ \A g \in Handlers \ {h} : pc'[g] = pc[g]
      BY <1>2, Apart, Others
    <2>4. TypeOK' /\ Roles'
      BY <1>2, <2>2, <2>3 DEF Arrive, output, IInv, TypeOK, Roles, Handlers
    <2>5. Turn(h)'
      BY <1>2, <2>3, Apart DEF Arrive, output, IInv, TypeOK, Turns, Turn, Handlers
    <2>6. \A g \in Solves \ {h} : Turn(g)'
      BY <1>2, <2>3 DEF Arrive, output, IInv, TypeOK, Turns, Turn, Handlers
    <2>. QED
      BY <2>1, <2>2, <2>4, <2>5, <2>6 DEF IInv, Turns
  <1>. QED
    BY <1>1, <1>2 DEF Arrive

\* A body that is refused is answered at once; the others are queued.
LEMMA BindKeeps == ASSUME IInv, NEW h \in Handlers, Bind(h) PROVE IInv'
  <1>1. h \in Solves /\ response[h] = "empty"
    BY Apart DEF IInv, Roles, Handlers, Bind, Turns, Turn
  <1>2. CASE Goto(h, "answered") /\ answer' = [answer EXCEPT ![h] = 400] /\ UNCHANGED queue
    <2>1. SlotsAccounted'
      BY <1>2, Apart, NoSlot DEF Bind
    <2>2. QueueInv' /\ queue' \in Seq(Handlers)
      BY <1>2, Waiting DEF Bind
    <2>3. pc' \in [Handlers -> Places] /\ pc'[h] = "answered" /\ \A g \in Handlers \ {h} : pc'[g] = pc[g]
      BY <1>2, Apart, Others
    <2>4. TypeOK' /\ Roles'
      <3>1. answer' \in [Solves -> {0, 200, 400}]
        BY <1>1, <1>2 DEF IInv, TypeOK
      <3>2. TypeOK'
        BY <2>2, <2>3, <3>1 DEF Bind, output, IInv, TypeOK
      <3>3. \A g \in Pings : g \in Handlers \ {h}
        BY <1>1, BackendAssumption DEF Handlers
      <3>4. Roles
        BY DEF IInv
      <3>5. Roles'
        BY <2>3, <3>3, <3>4 DEF Roles, Handlers
      <3>. QED
        BY <3>2, <3>5
    <2>5. Turn(h)'
      BY <1>1, <1>2, <2>3, Apart DEF Bind, output, IInv, TypeOK, Turn
    <2>6. \A g \in Solves \ {h} : Turn(g)'
      BY <1>2, <2>3 DEF Bind, output, IInv, TypeOK, Turns, Turn, Handlers
    <2>. QED
      BY <2>1, <2>2, <2>4, <2>5, <2>6 DEF IInv, Turns
  <1>3. CASE Goto(h, "queued") /\ queue' = Append(queue, h) /\ UNCHANGED answer
    <2>1. SlotsAccounted'
      BY <1>3, Apart, NoSlot DEF Bind
    <2>2. QueueInv' /\ queue' \in Seq(Handlers)
      BY <1>3, Appended DEF Bind
    <2>3. pc' \in [Handlers -> Places] /\ pc'[h] = "queued" /\ \A g \in Handlers \ {h} : pc'[g] = pc[g]
      BY <1>3, Apart, Others
    <2>4. TypeOK' /\ Roles'
      BY <1>1, <1>3, <2>2, <2>3 DEF Bind, output, IInv, TypeOK, Roles, Handlers
    <2>5. Turn(h)'
      BY <1>1, <1>3, <2>3, Apart DEF Bind, output, IInv, TypeOK, Turns, Turn
    <2>6. \A g \in Solves \ {h} : Turn(g)'
      BY <1>3, <2>3 DEF Bind, output, IInv, TypeOK, Turns, Turn, Handlers
    <2>. QED
      BY <2>1, <2>2, <2>4, <2>5, <2>6 DEF IInv, Turns
  <1>. QED
    BY <1>2, <1>3 DEF Bind

\* The first of the queue gets a slot.
LEMMA EnterKeeps == ASSUME IInv, Enter PROVE IInv'
  <1>. DEFINE h == Head(queue)
              p == IF h \in Pings THEN "pong" ELSE "parse"
  <1>1. p \in Holding /\ p \in Places
    BY Apart
  <1>2. QueueInv' /\ queue' \in Seq(Handlers) /\ h \in Handlers /\ pc[h] = "queued"
    BY Dequeued DEF Enter
  <1>3. SlotsAccounted'
    BY <1>1, <1>2, SlotTaken DEF Enter
  <1>4. sem' \in 0 .. NumCPU
    BY BackendAssumption DEF Enter, IInv, TypeOK
  <1>5. Goto(h, p)
    BY DEF Enter
  <1>6. TypeOK' /\ Roles' /\ Turns'
    <2>. HIDE DEF h
    <2>1. pc' \in [Handlers -> Places] /\ pc'[h] = p /\ \A g \in Handlers \ {h} : pc'[g] = pc[g]
      BY <1>1, <1>2, <1>5, Others
    <2>2. TypeOK' /\ Roles'
      BY <1>2, <1>4, <2>1, Apart, BackendAssumption DEF Enter, output, IInv, TypeOK, Roles, Handlers
    <2>3. Turns'
      BY <1>2, <2>1, Apart, BackendAssumption DEF Enter, output, IInv, TypeOK, Turns, Turn, Handlers
    <2>. QED
      BY <2>2, <2>3
  <1>. QED
    BY <1>2, <1>3, <1>6 DEF IInv

\* A slot is given back.
LEMMA LeaveKeeps == ASSUME IInv, NEW h \in Handlers, Leave(h) PROVE IInv'
  <1>. DEFINE p == IF h \in Pings THEN "new" ELSE "respond"
  <1>1. p \in Places \ (Holding \cup {"gone"}) /\ Goto(h, p) /\ sem' = sem - 1 /\ pc[h] = "leave"
    BY Apart DEF Leave
  <1>2. SlotsAccounted' /\ sem > 0
    BY <1>1, SlotReturned
  <1>3. QueueInv' /\ queue' \in Seq(Handlers)
    BY <1>1, Waiting DEF Leave
  <1>4. sem' \in 0 .. NumCPU
    BY <1>1, <1>2, BackendAssumption DEF IInv, TypeOK
  <1>5. pc' \in [Handlers -> Places] /\ pc'[h] = p /\ \A g \in Handlers \ {h} : pc'[g] = pc[g]
    BY <1>1, Others
  <1>6. TypeOK' /\ Roles'
    BY <1>3, <1>4, <1>5, BackendAssumption DEF Leave, output, IInv, TypeOK, Roles, Handlers
  <1>7. Turns'
    BY <1>5, Apart, BackendAssumption DEF Leave, output, IInv, TypeOK, Turns, Turn, Handlers
  <1>. QED
    BY <1>2, <1>3, <1>6, <1>7 DEF IInv

\* A ping keeps its slot for the answer, and for ever if it panics.
LEMMA PingKeeps == ASSUME IInv, NEW h \in Handlers, Ping(h) PROVE IInv'
  <1>1. h \in Pings /\ h \notin Solves /\ pc[h] = "pong"
    BY BackendAssumption DEF IInv, Roles, Handlers, Ping, Pong, PongPanics
  <1>2. CASE Pong(h)
    <2>1. SlotsAccounted'
      BY <1>2, Apart, NoSlot DEF Pong
    <2>2. QueueInv' /\ queue' \in Seq(Handlers)
      BY <1>2, Waiting DEF Pong
    <2>3. pc' \in [Handlers -> Places] /\ pc'[h] = "leave" /\ \A g \in Handlers \ {h} : pc'[g] = pc[g]
      BY <1>2, Apart, Others DEF Pong
    <2>4. TypeOK' /\ Roles'
      BY <1>1, <1>2, <2>2, <2>3 DEF Pong, output, IInv, TypeOK, Roles, Handlers
    <2>5. Turns'
      BY <1>1, <1>2, <2>3 DEF Pong, output, IInv, TypeOK, Turns, Turn, Handlers
    <2>. QED
      BY <2>1, <2>2, <2>4, <2>5 DEF IInv
  <1>3. CASE PongPanics(h)
    <2>1. SlotsAccounted'
      BY <1>3, SlotLost DEF PongPanics
    <2>2. QueueInv' /\ queue' \in Seq(Handlers)
      BY <1>3, Waiting DEF PongPanics
    <2>3. pc' \in [Handlers -> Places] /\ pc'[h] = "gone" /\ \A g \in Handlers \ {h} : pc'[g] = pc[g]
      BY <1>3, Apart, Others DEF PongPanics
    <2>4. TypeOK' /\ Roles'
      BY <1>1, <1>3, <2>2, <2>3 DEF PongPanics, output, IInv, TypeOK, Roles, Handlers
    <2>5. Turns'
      BY <1>1, <1>3, <2>3 DEF PongPanics, output, IInv, TypeOK, Turns, Turn, Handlers
    <2>. QED
      BY <2>1, <2>2, <2>4, <2>5 DEF IInv
  <1>. QED
    BY <1>2, <1>3 DEF Ping

\* A stage of the library throws, and its handler goes on to give its slot back.
LEMMA ThrowKeeps ==
  ASSUME IInv, NEW h \in Handlers, pc[h] \in Library, Throw(h), UNCHANGED <<sem, queue, answer>>,
         gLogLevel' \in Levels \cup {"info"}
  PROVE  IInv'
  <1>1. h \in Solves /\ Goto(h, "leave")
    BY Apart DEF IInv, Roles, Handlers, Throw
  <1>2. SlotsAccounted'
    BY <1>1, Apart, NoSlot
  <1>3. QueueInv' /\ queue' \in Seq(Handlers)
    BY <1>1, Apart, Waiting
  <1>4. pc' \in [Handlers -> Places] /\ pc'[h] = "leave" /\ \A g \in Handlers \ {h} : pc'[g] = pc[g]
    BY <1>1, Apart, Others
  <1>5. TypeOK' /\ Roles'
    BY <1>1, <1>3, <1>4, Apart DEF Throw, IInv, TypeOK, Roles, Handlers
  <1>6. Turn(h)'
    BY <1>1, <1>4, Apart DEF Throw, IInv, TypeOK, Turns, Turn
  <1>7. \A g \in Solves \ {h} : Turn(g)'
    BY <1>4 DEF Throw, IInv, TypeOK, Turns, Turn, Handlers
  <1>. QED
    BY <1>2, <1>3, <1>5, <1>6, <1>7 DEF IInv, Turns

\* A stage of the library is left for the next.
LEMMA StageKeeps ==
  ASSUME IInv, NEW h \in Handlers, NEW p \in Library, pc[h] \in Library, Goto(h, p),
         UNCHANGED <<sem, queue, answer, output>>, gLogLevel' \in Levels \cup {"info"}
  PROVE  IInv'
  <1>1. h \in Solves
    BY Apart DEF IInv, Roles, Handlers
  <1>2. SlotsAccounted'
    BY Apart, NoSlot
  <1>3. QueueInv' /\ queue' \in Seq(Handlers)
    BY Apart, Waiting
  <1>4. pc' \in [Handlers -> Places] /\ pc'[h] = p /\ \A g \in Handlers \ {h} : pc'[g] = pc[g]
    BY <1>1, Apart, Others
  <1>5. TypeOK' /\ Roles'
    BY <1>1, <1>3, <1>4, Apart DEF output, IInv, TypeOK, Roles, Handlers
  <1>6. Turn(h)'
    BY <1>1, <1>4, Apart DEF output, IInv, TypeOK, Turns, Turn
  <1>7. \A g \in Solves \ {h} : Turn(g)'
    BY <1>4 DEF output, IInv, TypeOK, Turns, Turn, Handlers
  <1>. QED
    BY <1>2, <1>3, <1>5, <1>6, <1>7 DEF IInv, Turns

\* The last stage of the library throws or calls back with trips.
LEMMA ResultKeeps == ASSUME IInv, NEW h \in Handlers, Result(h) PROVE IInv'
  <1>1. CASE Throw(h)
    BY <1>1, Apart, ThrowKeeps DEF Result, IInv, TypeOK
  <1>2. CASE /\ response' = [response EXCEPT ![h] = "trips"] /\ rcode' = [rcode EXCEPT ![h] = 0]
             /\ Goto(h, "leave") /\ UNCHANGED failed
    <2>1. h \in Solves
      BY Apart DEF IInv, Roles, Handlers, Result
    <2>2. SlotsAccounted'
      BY <1>2, Apart, NoSlot DEF Result
    <2>3. QueueInv' /\ queue' \in Seq(Handlers)
      BY <1>2, Waiting DEF Result
    <2>4. pc' \in [Handlers -> Places] /\ pc'[h] = "leave" /\ \A g \in Handlers \ {h} : pc'[g] = pc[g]
      BY <1>2, Apart, Others
    <2>5. TypeOK' /\ Roles'
      BY <1>2, <2>1, <2>3, <2>4 DEF Result, IInv, TypeOK, Roles, Handlers
    <2>6. Turn(h)'
      BY <1>2, <2>1, <2>4, Apart DEF Result, IInv, TypeOK, Turns, Turn
    <2>7. \A g \in Solves \ {h} : Turn(g)'
      BY <1>2, <2>4 DEF Result, IInv, TypeOK, Turns, Turn, Handlers
    <2>. QED
      BY <2>2, <2>3, <2>5, <2>6, <2>7 DEF IInv, Turns
  <1>. QED
    BY <1>1, <1>2 DEF Result

\* A handler answers as the library has called back.
LEMMA RespondKeeps == ASSUME IInv, NEW h \in Handlers, Respond(h) PROVE IInv'
  <1>1. h \in Solves /\ Goto(h, "answered")
    BY DEF IInv, Roles, Handlers, Respond
  <1>2. SlotsAccounted'
    BY <1>1, Apart, NoSlot DEF Respond
  <1>3. QueueInv' /\ queue' \in Seq(Handlers)
    BY <1>1, Waiting DEF Respond
  <1>4. pc' \in [Handlers -> Places] /\ pc'[h] = "answered" /\ \A g \in Handlers \ {h} : pc'[g] = pc[g]
    BY <1>1, Apart, Others
  <1>5. TypeOK' /\ Roles'
    <2>1. answer' \in [Solves -> {0, 200, 400}]
      BY <1>1 DEF Respond, IInv, TypeOK
    <2>2. TypeOK'
      BY <1>3, <1>4, <2>1 DEF Respond, output, IInv, TypeOK
    <2>3. \A g \in Pings : g \in Handlers \ {h}
      BY <1>1, BackendAssumption DEF Handlers
    <2>4. Roles
      BY DEF IInv
    <2>5. Roles'
      BY <1>4, <2>3, <2>4 DEF Roles, Handlers
    <2>. QED
      BY <2>2, <2>5
  <1>6. Turn(h)'
    BY <1>1, <1>4, Apart DEF Respond, output, IInv, TypeOK, Turns, Turn
  <1>7. \A g \in Solves \ {h} : Turn(g)'
    BY <1>4 DEF Respond, output, IInv, TypeOK, Turns, Turn, Handlers
  <1>. QED
    BY <1>2, <1>3, <1>5, <1>6, <1>7 DEF IInv, Turns

\* Every step of a solving handler keeps the invariant.
LEMMA SolveKeeps == ASSUME IInv, NEW h \in Handlers, Solve(h) PROVE IInv'
  <1>1. CASE Parse(h)
    BY <1>1, Apart, ThrowKeeps, StageKeeps DEF Parse, IInv, TypeOK
  <1>2. CASE Table(h)
    BY <1>2, Apart, ThrowKeeps, StageKeeps DEF Table, IInv, TypeOK
  <1>3. CASE Search(h)
    BY <1>3, Apart, ThrowKeeps, StageKeeps DEF Search, IInv, TypeOK
  <1>. QED
    BY <1>1, <1>2, <1>3, BindKeeps, ResultKeeps, RespondKeeps DEF Solve

\* Every step keeps the invariant.
LEMMA NextKeeps == IInv /\ [Next]_vars => IInv'
  <1>. SUFFICES ASSUME IInv, [Next]_vars PROVE IInv'
    OBVIOUS
  <1>1. CASE UNCHANGED vars
    BY <1>1 DEF vars, output, IInv, TypeOK, QueueInv, Roles, SlotsAccounted, Lost, Turns, Turn
  <1>. QED
    BY <1>1, EnterKeeps, ArriveKeeps, PingKeeps, SolveKeeps, LeaveKeeps DEF Next, Handle, Idle

\* The invariant holds of every behaviour.
LEMMA Invariance == Spec => []IInv
  BY InitInv, NextKeeps, PTL DEF Spec

\* However many requests and pings there are and whatever fails, the semaphore
\* never holds more than its capacity nor less than nothing.
THEOREM BackendTypeCorrect == Spec => []TypeOK
  <1>1. IInv => TypeOK
    BY DEF IInv
  <1>. QED
    BY <1>1, Invariance, PTL

\* No failure of the library costs a slot: the values in the channel are the
\* handlers inside, and the pings that panicked.
THEOREM SlotsCorrect == Spec => []SlotsAccounted
  <1>1. IInv => SlotsAccounted
    BY DEF IInv
  <1>. QED
    BY <1>1, Invariance, PTL

\* A client is told 200 with trips only, and 400 never with trips, whatever the
\* other handlers do at the same time.
THEOREM AnswersCorrect == Spec => []AnswerFits
  <1>1. IInv => AnswerFits
    <2>. SUFFICES ASSUME IInv, NEW h \in Solves
                  PROVE  /\ answer[h] = 200 => response[h] = "trips" /\ ~failed[h]
                         /\ answer[h] = 400 => response[h] # "trips"
                         /\ pc[h] = "respond" => response[h] # "empty"
      BY DEF AnswerFits
    <2>1. Turn(h) /\ pc[h] \in Unanswered \cup {"leave", "respond", "answered"}
      BY Apart DEF IInv, Turns, TypeOK, Roles, Handlers
    <2>2. CASE pc[h] \in Unanswered
      BY <2>1, <2>2, Apart DEF Turn
    <2>3. CASE pc[h] \in {"leave", "respond"}
      BY <2>1, <2>3 DEF Turn, IInv, TypeOK, Handlers
    <2>4. CASE pc[h] = "answered"
      BY <2>1, <2>4 DEF Turn
    <2>. QED
      BY <2>1, <2>2, <2>3, <2>4
  <1>. QED
    BY <1>1, Invariance, PTL

-----------------------------------------------------------------------------
(* What the service promises: the queue of the semaphore, without the       *)
(* pings, is that of the requests that wait for their turn.                 *)

Sel(w, h) == IF h \in Solves THEN Append(w, h) ELSE w

\* the iteration that FoldLeft chooses, and the solves among the first k
IsSel(f, q) ==
    f = [T \in SUBSET DOMAIN q |-> IF T = {} THEN << >> ELSE Sel(f[T \ {Max(T)}], q[Max(T)])]
SelOf(q)    == CHOOSE f : IsSel(f, q)
First(q, k) == SelOf(q)[1 .. k]

LEMMA SolvesIsSel == ASSUME NEW q PROVE SolvesOf(q) = SelOf(q)[DOMAIN q]
  BY Zenon DEF SolvesOf, FoldLeft, MapThenFoldSet, SelOf, IsSel, Sel

LEMMA SelStep ==
  ASSUME NEW q \in Seq(Handlers)
  PROVE  /\ First(q, 0) = << >>
         /\ \A k \in 0 .. Len(q) : First(q, k) \in Seq(Solves)
         /\ \A k \in 0 .. Len(q) - 1 : First(q, k + 1) = Sel(First(q, k), q[k + 1])
         /\ SolvesOf(q) = First(q, Len(q))
  <1>. DEFINE step == [w \in Seq(Solves) |-> [h \in Handlers |-> Sel(w, h)]]
              f == SelOf(q)
  <1>0. DOMAIN q = 1 .. Len(q) /\ Len(q) \in Nat /\ \A i \in DOMAIN q : q[i] \in Handlers
    OBVIOUS
  <1>1. step \in [Seq(Solves) -> [Handlers -> Seq(Solves)]]
    BY DEF Sel
  <1>2. \A w \in Seq(Solves), h \in Handlers : step[w][h] = Sel(w, h)
    OBVIOUS
  <1>3. << >> \in Seq(Solves)
    OBVIOUS
  <1>4. \A T \in SUBSET DOMAIN q : T # {} => Max(T) \in DOMAIN q
    BY <1>0, MaxPicks
  <1>. HIDE DEF step
  <1>5. IsSel(f, q)
    <2>1. PICK g \in [SUBSET DOMAIN q -> Seq(Solves)] : IsLeftFold(g, << >>, step, q)
      BY <1>1, <1>3, LeftExists, Zenon
    <2>2. \A T \in SUBSET DOMAIN q : T # {} =>
             step[g[T \ {Max(T)}]][q[Max(T)]] = Sel(g[T \ {Max(T)}], q[Max(T)])
      BY <1>0, <1>2, <1>4
    <2>3. IsSel(g, q)
      BY <2>1, <2>2 DEF IsLeftFold, IsSel
    <2>. QED
      BY <2>3 DEF SelOf
  <1>. HIDE DEF f
  <1>6. StepsLeft(f, << >>, step, q, Seq(Solves))
    <2>1. \A T \in SUBSET DOMAIN q :
             f[T] = IF T = {} THEN << >> ELSE Sel(f[T \ {Max(T)}], q[Max(T)])
      BY <1>5 DEF IsSel
    <2>. QED
      BY <1>0, <1>2, <1>4, <2>1 DEF StepsLeft
  <1>7. FoldsLeft(f, << >>, step, q, Seq(Solves))
    BY <1>1, <1>3, <1>6, LeftStep, Zenon
  <1>8. ASSUME NEW k \in 0 .. Len(q) - 1
        PROVE  f[1 .. k + 1] = Sel(f[1 .. k], q[k + 1])
    <2>1. k \in 0 .. Len(q) /\ k + 1 \in DOMAIN q
      BY <1>0
    <2>. QED
      BY <1>0, <1>2, <1>7, <2>1 DEF FoldsLeft
  <1>. QED
    BY <1>0, <1>7, <1>8, SolvesIsSel DEF First, FoldsLeft, f

\* a request that comes to the end of the queue waits behind the others
LEMMA SolvesAppend ==
  ASSUME NEW q \in Seq(Handlers), NEW h \in Handlers
  PROVE  /\ SolvesOf(q) \in Seq(Solves)
         /\ SolvesOf(Append(q, h)) = IF h \in Solves THEN Append(SolvesOf(q), h) ELSE SolvesOf(q)
  <1>. DEFINE p == Append(q, h)
              N == {k \in Nat : k <= Len(q) => First(p, k) = First(q, k)}
  <1>1. /\ p \in Seq(Handlers) /\ Len(p) = Len(q) + 1 /\ p[Len(q) + 1] = h /\ Len(q) \in Nat
        /\ \A k \in 1 .. Len(q) : p[k] = q[k]
    OBVIOUS
  <1>2. First(p, 0) = First(q, 0)
    BY <1>1, SelStep
  <1>3. \A k \in 0 .. Len(q) - 1 : /\ First(p, k + 1) = Sel(First(p, k), p[k + 1])
                                   /\ First(q, k + 1) = Sel(First(q, k), q[k + 1])
    <2>1. \A k \in 0 .. Len(q) - 1 : k \in 0 .. Len(p) - 1
      BY <1>1
    <2>. QED
      BY <1>1, <2>1, SelStep
  <1>. HIDE DEF p
  <1>4. \A k \in Nat : k \in N => k + 1 \in N
    <2>. SUFFICES ASSUME NEW k \in Nat, k \in N, k + 1 <= Len(q)
                  PROVE  First(p, k + 1) = First(q, k + 1)
      OBVIOUS
    <2>1. k \in 0 .. Len(q) - 1 /\ First(p, k) = First(q, k) /\ p[k + 1] = q[k + 1]
      BY <1>1
    <2>. QED
      BY <1>3, <2>1
  <1>5. Nat \subseteq N
    BY <1>2, <1>4, Induction
  <1>6. First(p, Len(q)) = SolvesOf(q)
    BY <1>1, <1>5, SelStep
  <1>7. SolvesOf(p) = Sel(First(p, Len(q)), h)
    <2>1. Len(q) \in 0 .. Len(p) - 1
      BY <1>1
    <2>. QED
      BY <1>1, <2>1, SelStep
  <1>8. SolvesOf(q) \in Seq(Solves)
    BY <1>1, SelStep
  <1>. QED
    BY <1>6, <1>7, <1>8 DEF Sel, p

\* the one at its head is the first to get its turn
LEMMA SolvesTail ==
  ASSUME NEW q \in Seq(Handlers), q # << >>
  PROVE  /\ Head(q) \notin Solves => SolvesOf(Tail(q)) = SolvesOf(q)
         /\ Head(q) \in Solves => /\ SolvesOf(q) # << >>
                                  /\ Head(SolvesOf(q)) = Head(q)
                                  /\ Tail(SolvesOf(q)) = SolvesOf(Tail(q))
  <1>. DEFINE p == Tail(q)
              Follows(k) == IF Head(q) \in Solves
                            THEN /\ First(q, k + 1) \in Seq(Solves)
                                 /\ First(q, k + 1) # << >>
                                 /\ Head(First(q, k + 1)) = Head(q)
                                 /\ Tail(First(q, k + 1)) = First(p, k)
                            ELSE First(q, k + 1) = First(p, k)
              N == {k \in Nat : k <= Len(p) => Follows(k)}
  <1>1. /\ p \in Seq(Handlers) /\ Len(q) = Len(p) + 1 /\ Len(p) \in Nat /\ Head(q) = q[1]
        /\ \A k \in 1 .. Len(p) : p[k] = q[k + 1]
    OBVIOUS
  <1>. HIDE DEF p
  <1>2. /\ \A k \in 0 .. Len(p) : First(q, k + 1) = Sel(First(q, k), q[k + 1])
        /\ \A k \in 0 .. Len(p) - 1 : First(p, k + 1) = Sel(First(p, k), p[k + 1])
        /\ \A k \in 0 .. Len(p) : First(p, k) \in Seq(Solves)
        /\ First(p, 0) = << >> /\ First(q, 0) = << >>
    <2>1. \A k \in 0 .. Len(p) : k \in 0 .. Len(q) - 1
      BY <1>1
    <2>. QED
      BY <1>1, <2>1, SelStep
  <1>3. 0 \in N
    <2>1. First(q, 0 + 1) = Sel(<< >>, Head(q))
      BY <1>1, <1>2
    <2>2. CASE Head(q) \in Solves
      <3>1. First(q, 0 + 1) = <<Head(q)>>
        BY <2>1, <2>2 DEF Sel
      <3>2. /\ <<Head(q)>> \in Seq(Solves) /\ Head(<<Head(q)>>) = Head(q)
            /\ Tail(<<Head(q)>>) = << >> /\ <<Head(q)>> # << >>
        BY <2>2
      <3>. QED
        BY <1>2, <2>2, <3>1, <3>2
    <2>3. CASE Head(q) \notin Solves
      BY <1>2, <2>1, <2>3 DEF Sel
    <2>. QED
      BY <2>2, <2>3
  <1>4. \A k \in Nat : k \in N => k + 1 \in N
    <2>. HIDE DEF Follows
    <2>. SUFFICES ASSUME NEW k \in Nat, k \in N, k + 1 <= Len(p)
                  PROVE  Follows(k + 1)
      OBVIOUS
    <2>. DEFINE w == First(q, k + 1)
                x == q[(k + 1) + 1]
    <2>1. Follows(k) /\ k \in 0 .. Len(p) - 1 /\ k + 1 \in 0 .. Len(p) /\ k + 1 \in 1 .. Len(p)
      BY <1>1
    <2>. USE DEF Follows
    <2>2. First(q, (k + 1) + 1) = Sel(w, x) /\ First(p, k + 1) = Sel(First(p, k), x)
      <3>1. First(q, (k + 1) + 1) = Sel(w, x)
        BY <1>2, <2>1, Zenon
      <3>2. First(p, k + 1) = Sel(First(p, k), p[k + 1])
        BY <1>2, <2>1, Zenon
      <3>3. p[k + 1] = x
        BY <1>1, <2>1, Zenon
      <3>. QED
        BY <3>1, <3>2, <3>3, Zenon
    <2>3. CASE Head(q) \in Solves
      <3>1. /\ w \in Seq(Solves) /\ w # << >> /\ Head(w) = Head(q) /\ Tail(w) = First(p, k)
        BY <2>1, <2>3
      <3>. HIDE DEF w, x
      <3>2. x \in Solves => /\ Append(w, x) \in Seq(Solves) /\ Append(w, x) # << >>
                            /\ Head(Append(w, x)) = Head(w)
                            /\ Tail(Append(w, x)) = Append(Tail(w), x)
        BY <3>1
      <3>. QED
        BY <2>2, <2>3, <3>1, <3>2 DEF Sel
    <2>4. CASE Head(q) \notin Solves
      BY <2>1, <2>2, <2>4
    <2>. QED
      BY <2>3, <2>4
  <1>5. Nat \subseteq N
    <2>. HIDE DEF N
    <2>. QED
      BY <1>3, <1>4, Induction
  <1>6. Follows(Len(p))
    BY <1>1, <1>5
  <1>7. SolvesOf(q) = First(q, Len(p) + 1) /\ SolvesOf(p) = First(p, Len(p))
    BY <1>1, SelStep
  <1>. QED
    BY <1>6, <1>7 DEF p

\* nobody else is among them
LEMMA SolvesRange ==
  ASSUME NEW q \in Seq(Handlers), NEW i \in 1 .. Len(SolvesOf(q))
  PROVE  \E j \in 1 .. Len(q) : SolvesOf(q)[i] = q[j]
  <1>. DEFINE Among(w) == \A n \in 1 .. Len(w) : \E j \in 1 .. Len(q) : w[n] = q[j]
              N == {k \in Nat : k <= Len(q) => Among(First(q, k))}
  <1>0. Len(q) \in Nat
    OBVIOUS
  <1>1. 0 \in N
    BY SelStep
  <1>2. \A k \in Nat : k \in N => k + 1 \in N
    <2>. SUFFICES ASSUME NEW k \in Nat, k \in N, k + 1 <= Len(q)
                  PROVE  Among(First(q, k + 1))
      <3>. HIDE DEF Among
      <3>. QED
        OBVIOUS
    <2>. DEFINE w == First(q, k)
    <2>1. k \in 0 .. Len(q) - 1 /\ k \in 0 .. Len(q) /\ k + 1 \in 1 .. Len(q)
      BY <1>0
    <2>2. w \in Seq(Solves) /\ First(q, k + 1) = Sel(w, q[k + 1])
      BY <2>1, SelStep
    <2>3. Among(w)
      BY <1>0
    <2>. HIDE DEF w
    <2>4. Among(Append(w, q[k + 1]))
      <3>1. \A n \in 1 .. Len(Append(w, q[k + 1])) :
               \/ n \in 1 .. Len(w) /\ Append(w, q[k + 1])[n] = w[n]
               \/ Append(w, q[k + 1])[n] = q[k + 1]
        BY <2>2
      <3>. QED
        BY <2>1, <2>3, <3>1
    <2>. HIDE DEF Among
    <2>. QED
      BY <2>2, <2>3, <2>4 DEF Sel
  <1>3. Nat \subseteq N
    <2>. HIDE DEF N
    <2>. QED
      BY <1>1, <1>2, Induction
  <1>4. Among(First(q, Len(q)))
    BY <1>0, <1>3
  <1>. QED
    BY <1>4, SelStep

-----------------------------------------------------------------------------
(* Each step of a handler is a step of the promise, or none of the client's. *)

Admitted == {h \in Solves : pc[h] \in Library}
Answers  == [h \in Solves |-> response[h]]
Left     == NumCPU - Cardinality(Lost)

\* The promise, with its variables named.
LEMMA PromiseIs ==
  /\ Promise!vars = <<SolvesOf(queue), Admitted, Answers, answer, Left>>
  /\ \A r : Promise!Fresh(r) <=> /\ \A i \in DOMAIN SolvesOf(queue) : SolvesOf(queue)[i] # r
                                 /\ r \notin Admitted /\ Answers[r] = "empty" /\ answer[r] = 0
  BY DEF Promise!vars, Promise!Fresh, Promise!Waits, Admitted, Answers, Left

\* Service counts as this module does
LEMMA SameCount == ASSUME NEW S PROVE Promise!Cardinality(S) = Cardinality(S)
  BY Zenon DEF Cardinality, Promise!Cardinality

\* those of its steps that count, in these names
LEMMA AdmitIs ==
  Promise!Admit <=>
    /\ SolvesOf(queue) # << >> /\ Cardinality(Admitted) < Left
    /\ Admitted' = Admitted \cup {Head(SolvesOf(queue))}
    /\ SolvesOf(queue)' = Tail(SolvesOf(queue))
    /\ UNCHANGED <<Answers, answer, Left>>
  <1>1. Promise!Cardinality(Admitted) = Cardinality(Admitted)
    BY SameCount
  <1>. QED
    BY Zenon, <1>1 DEF Promise!Admit, Admitted, Answers, Left

LEMMA LoseSlotIs ==
  Promise!LoseSlot <=>
    /\ Cardinality(Admitted) < Left /\ Left' = Left - 1
    /\ UNCHANGED <<SolvesOf(queue), Admitted, Answers, answer>>
  <1>1. Promise!Cardinality(Admitted) = Cardinality(Admitted)
    BY SameCount
  <1>. QED
    BY Zenon, <1>1 DEF Promise!LoseSlot, Admitted, Answers, Left

\* those inside the library hold slots that no ping has lost
LEMMA AdmittedFit ==
  ASSUME IInv
  PROVE  /\ IsFiniteSet(Admitted) /\ Admitted \subseteq Inside
         /\ Cardinality(Admitted) \in Nat /\ Cardinality(Admitted) <= sem - Cardinality(Lost)
  <1>1. Admitted \subseteq Inside
    BY DEF Admitted, Inside, Holding, Handlers
  <1>2. IsFiniteSet(Admitted) /\ Cardinality(Admitted) \in Nat /\ Cardinality(Admitted) <= Cardinality(Inside)
    BY <1>1, Finite, FS_Subset, FS_CardinalityType
  <1>. QED
    BY <1>1, <1>2, Finite, BackendAssumption DEF IInv, TypeOK, SlotsAccounted, Inside

\* a ping that is about to be answered holds a slot that no request has
LEMMA PingBesides ==
  ASSUME IInv, NEW h \in Pings, pc[h] = "pong"
  PROVE  Cardinality(Admitted) < sem - Cardinality(Lost)
  <1>1. h \in Inside /\ h \notin Admitted
    BY BackendAssumption DEF Inside, Holding, Admitted, Handlers
  <1>2. IsFiniteSet(Admitted) /\ Cardinality(Admitted) \in Nat /\ Admitted \cup {h} \subseteq Inside
    BY <1>1, AdmittedFit
  <1>3. Cardinality(Admitted \cup {h}) = Cardinality(Admitted) + 1
    BY <1>1, <1>2, FS_AddElement
  <1>4. Cardinality(Admitted \cup {h}) <= Cardinality(Inside)
    BY <1>2, Finite, FS_Subset
  <1>. QED
    BY <1>2, <1>3, <1>4, Finite, BackendAssumption DEF IInv, TypeOK, SlotsAccounted, Inside

\* a request that is not yet queued has nothing behind it
LEMMA IsFresh ==
  ASSUME IInv, NEW h \in Solves, pc[h] \in {"new", "bind"}
  PROVE  Promise!Fresh(h)
  <1>1. \A i \in DOMAIN SolvesOf(queue) : SolvesOf(queue)[i] # h
    <2>1. SolvesOf(queue) \in Seq(Solves) /\ queue \in Seq(Handlers)
      BY SelStep DEF IInv, TypeOK
    <2>. SUFFICES ASSUME NEW i \in 1 .. Len(SolvesOf(queue)), SolvesOf(queue)[i] = h PROVE FALSE
      BY <2>1
    <2>2. PICK j \in 1 .. Len(queue) : SolvesOf(queue)[i] = queue[j]
      BY <2>1, SolvesRange
    <2>. QED
      BY <2>2 DEF IInv, QueueInv
  <1>2. h \notin Admitted /\ Answers[h] = "empty" /\ answer[h] = 0
    BY Apart DEF Admitted, Answers, IInv, Turns, Turn
  <1>. QED
    BY <1>1, <1>2, PromiseIs

\* What a step of one handler leaves of the places of the others.
LEMMA PlacesAfter ==
  ASSUME IInv, NEW h \in Handlers, NEW p \in Places, Goto(h, p)
  PROVE  /\ Lost' = IF h \in Pings /\ p = "gone" THEN Lost \cup {h} ELSE Lost \ {h}
         /\ Admitted' = IF h \in Solves /\ p \in Library THEN Admitted \cup {h} ELSE Admitted \ {h}
  <1>1. pc' \in [Handlers -> Places] /\ pc'[h] = p /\ \A g \in Handlers \ {h} : pc'[g] = pc[g]
    BY Others
  <1>2. \A g : g \in Lost' <=> g \in Pings /\ pc'[g] = "gone"
    BY DEF Lost
  <1>3. \A g : g \in Lost <=> g \in Pings /\ pc[g] = "gone"
    BY DEF Lost
  <1>4. \A g : g \in Admitted' <=> g \in Solves /\ pc'[g] \in Library
    BY DEF Admitted
  <1>5. \A g : g \in Admitted <=> g \in Solves /\ pc[g] \in Library
    BY DEF Admitted
  <1>6. Pings \subseteq Handlers /\ Solves \subseteq Handlers
    BY DEF Handlers
  <1>7. Lost' = IF h \in Pings /\ p = "gone" THEN Lost \cup {h} ELSE Lost \ {h}
    BY <1>1, <1>2, <1>3, <1>6
  <1>8. Admitted' = IF h \in Solves /\ p \in Library THEN Admitted \cup {h} ELSE Admitted \ {h}
    BY <1>1, <1>4, <1>5, <1>6
  <1>. QED
    BY <1>7, <1>8

\* a step that leaves the client's view alone
LEMMA Unseen ==
  ASSUME IInv, NEW h \in Handlers, NEW p \in Places \ {"gone"}, Goto(h, p), pc[h] # "gone",
         h \in Solves => (pc[h] \in Library <=> p \in Library),
         SolvesOf(queue)' = SolvesOf(queue), UNCHANGED <<response, answer>>
  PROVE  UNCHANGED Promise!vars
  <1>1. Lost' = Lost
    BY PlacesAfter DEF Lost
  <1>2. Admitted' = Admitted
    BY PlacesAfter DEF Admitted
  <1>3. Answers' = Answers
    BY DEF Answers
  <1>. QED
    BY <1>1, <1>2, <1>3 DEF Promise!vars, Admitted, Answers

\* A handler gets its turn: a ping unseen, a request as the first that waits.
LEMMA EnterImplements == ASSUME IInv, Enter PROVE [Promise!Next]_(Promise!vars)
  <1>. DEFINE h == Head(queue)
              p == IF h \in Pings THEN "pong" ELSE "parse"
  <1>1. /\ h \in Handlers /\ pc[h] = "queued" /\ Goto(h, p) /\ p \in Places \ {"gone"}
        /\ queue \in Seq(Handlers) /\ queue # << >> /\ queue' = Tail(queue)
        /\ UNCHANGED <<response, answer>> /\ sem < NumCPU
    BY Apart, Dequeued DEF Enter, output, IInv, TypeOK
  <1>2. /\ h \notin Solves => SolvesOf(queue)' = SolvesOf(queue)
        /\ h \in Solves => /\ SolvesOf(queue) # << >> /\ h = Head(SolvesOf(queue))
                           /\ SolvesOf(queue)' = Tail(SolvesOf(queue))
    BY <1>1, SolvesTail
  <1>3. CASE h \notin Solves
    BY <1>1, <1>2, <1>3, Unseen
  <1>4. CASE h \in Solves
    <2>1. p = "parse"
      BY <1>4, BackendAssumption
    <2>. HIDE DEF h, p
    <2>2. Lost' = Lost /\ Admitted' = Admitted \cup {h}
      BY <1>1, <1>4, <2>1, Apart, PlacesAfter DEF Lost
    <2>3. Cardinality(Admitted) < Left
      BY <1>1, AdmittedFit, Finite, BackendAssumption DEF Left, IInv, TypeOK
    <2>4. Left' = Left /\ Answers' = Answers
      BY <1>1, <2>2 DEF Left, Answers
    <2>5. Promise!Admit
      BY <1>1, <1>2, <1>4, <2>2, <2>3, <2>4, AdmitIs
    <2>. QED
      BY <2>5 DEF Promise!Next
  <1>. QED
    BY <1>3, <1>4

\* A client arrives: a ping waits unseen, a request has its body bound.
LEMMA ArriveImplements == ASSUME IInv, NEW h \in Handlers, Arrive(h) PROVE UNCHANGED Promise!vars
  <1>1. /\ pc[h] = "new" /\ UNCHANGED <<response, answer>> /\ queue \in Seq(Handlers)
        /\ {"queued", "bind"} \subseteq Places \ {"gone"}
    BY Apart DEF Arrive, output, IInv, TypeOK
  <1>2. CASE h \in Pings /\ Goto(h, "queued") /\ queue' = Append(queue, h)
    <2>1. SolvesOf(queue)' = SolvesOf(queue)
      BY <1>1, <1>2, SolvesAppend, BackendAssumption
    <2>. QED
      BY <1>1, <1>2, <2>1, Apart, Unseen
  <1>3. CASE Goto(h, "bind") /\ UNCHANGED queue
    BY <1>1, <1>3, Apart, Unseen
  <1>. QED
    BY <1>2, <1>3 DEF Arrive

\* A body is refused, or its request begins to wait behind the others.
LEMMA BindImplements == ASSUME IInv, NEW h \in Handlers, Bind(h) PROVE Promise!Next
  <1>1. /\ h \in Solves /\ pc[h] = "bind" /\ UNCHANGED response /\ queue \in Seq(Handlers)
    BY DEF IInv, TypeOK, Roles, Handlers, Bind, output
  <1>2. Promise!Fresh(h)
    BY <1>1, IsFresh
  <1>3. ASSUME NEW p \in Places \ (Library \cup {"gone"}), Goto(h, p)
        PROVE  Lost' = Lost /\ Admitted' = Admitted
    BY <1>1, <1>3, Apart, PlacesAfter DEF Lost, Admitted
  <1>4. CASE Goto(h, "answered") /\ answer' = [answer EXCEPT ![h] = 400] /\ UNCHANGED queue
    <2>1. Lost' = Lost /\ Admitted' = Admitted
      BY <1>3, <1>4, Apart
    <2>2. Promise!Refuse(h)
      BY <1>1, <1>2, <1>4, <2>1 DEF Promise!Refuse, Admitted
    <2>. QED
      BY <1>1, <2>2 DEF Promise!Next
  <1>5. CASE Goto(h, "queued") /\ queue' = Append(queue, h) /\ UNCHANGED answer
    <2>1. Lost' = Lost /\ Admitted' = Admitted
      BY <1>3, <1>5, Apart
    <2>2. SolvesOf(queue)' = Append(SolvesOf(queue), h)
      BY <1>1, <1>5, SolvesAppend
    <2>3. Promise!Wait(h)
      BY <1>1, <1>2, <1>5, <2>1, <2>2 DEF Promise!Wait, Admitted
    <2>. QED
      BY <1>1, <2>3 DEF Promise!Next
  <1>. QED
    BY <1>4, <1>5 DEF Bind

\* A ping is answered unseen; one that panics loses a slot.
LEMMA PingImplements == ASSUME IInv, NEW h \in Handlers, Ping(h) PROVE [Promise!Next]_(Promise!vars)
  <1>1. h \in Pings /\ h \notin Solves /\ pc[h] = "pong" /\ UNCHANGED <<queue, response, answer>>
    BY BackendAssumption DEF IInv, Roles, Handlers, Ping, Pong, PongPanics, output
  <1>2. CASE Pong(h)
    BY <1>1, <1>2, Apart, Unseen DEF Pong
  <1>3. CASE PongPanics(h)
    <2>1. Goto(h, "gone") /\ "gone" \in Places /\ h \notin Lost
      BY <1>1, <1>3, Apart DEF PongPanics, Lost
    <2>2. Lost' = Lost \cup {h} /\ Admitted' = Admitted
      BY <1>1, <2>1, PlacesAfter DEF Admitted
    <2>3. Cardinality(Lost') = Cardinality(Lost) + 1
      BY <2>1, <2>2, Finite, FS_AddElement
    <2>4. /\ Cardinality(Admitted) < sem - Cardinality(Lost)
          /\ Cardinality(Admitted) \in Nat /\ Cardinality(Lost) \in Nat
          /\ NumCPU \in Nat /\ sem \in 0 .. NumCPU
      BY <1>1, PingBesides, AdmittedFit, Finite, BackendAssumption DEF IInv, TypeOK
    <2>5. Cardinality(Admitted) < Left /\ Left' = Left - 1
      BY <2>3, <2>4 DEF Left
    <2>6. Answers' = Answers
      BY <1>1 DEF Answers
    <2>7. Promise!LoseSlot
      BY <1>1, <2>2, <2>5, <2>6, LoseSlotIs
    <2>. QED
      BY <2>7 DEF Promise!Next
  <1>. QED
    BY <1>2, <1>3 DEF Ping

\* The slot is given back after the turn has ended.
LEMMA LeaveImplements == ASSUME IInv, NEW h \in Handlers, Leave(h) PROVE UNCHANGED Promise!vars
  <1>1. /\ pc[h] = "leave" /\ UNCHANGED <<queue, response, answer>>
        /\ Goto(h, IF h \in Pings THEN "new" ELSE "respond")
        /\ {"new", "respond"} \subseteq Places \ {"gone"}
    BY Apart DEF Leave, output
  <1>. QED
    BY <1>1, Apart, Unseen

\* A turn ends with an outcome.
LEMMA TurnEnds ==
  ASSUME IInv, NEW h \in Handlers, pc[h] \in Library, Goto(h, "leave"), UNCHANGED <<queue, answer>>,
         NEW o \in {"trips", "error"}, response' = [response EXCEPT ![h] = o]
  PROVE  Promise!Next
  <1>1. h \in Solves /\ h \in Admitted /\ Handlers = Solves \cup Pings
    BY Apart DEF IInv, Roles, Handlers, Admitted
  <1>2. Lost' = Lost /\ Admitted' = Admitted \ {h}
    BY Apart, PlacesAfter DEF Lost
  <1>3. Answers' = [Answers EXCEPT ![h] = o]
    BY <1>1 DEF Answers, IInv, TypeOK
  <1>4. Promise!Finish(h)
    BY <1>1, <1>2, <1>3 DEF Promise!Finish, Admitted, Answers
  <1>. QED
    BY <1>1, <1>4 DEF Promise!Next

\* A stage of the library ends the turn or leads to the next.
LEMMA LibraryImplements ==
  ASSUME IInv, NEW h \in Handlers, Parse(h) \/ Table(h) \/ Search(h) \/ Result(h)
  PROVE  [Promise!Next]_(Promise!vars)
  <1>1. pc[h] \in Library /\ UNCHANGED <<queue, answer>>
    BY Apart DEF Parse, Table, Search, Result
  <1>2. CASE Throw(h)
    BY <1>1, <1>2, TurnEnds DEF Throw
  <1>3. CASE response' = [response EXCEPT ![h] = "trips"] /\ Goto(h, "leave")
    BY <1>1, <1>3, TurnEnds
  <1>4. CASE (Goto(h, "table") \/ Goto(h, "search") \/ Goto(h, "result")) /\ UNCHANGED output
    BY <1>1, <1>4, Apart, Unseen DEF output
  <1>. QED
    BY <1>2, <1>3, <1>4 DEF Parse, Table, Search, Result

\* The one answer tells the outcome.
LEMMA RespondImplements == ASSUME IInv, NEW h \in Handlers, Respond(h) PROVE Promise!Next
  <1>1. /\ h \in Solves /\ pc[h] = "respond" /\ Goto(h, "answered") /\ UNCHANGED <<queue, response>>
        /\ answer' = [answer EXCEPT ![h] = IF rcode[h] # 0 THEN 400 ELSE 200]
    BY DEF IInv, Roles, Handlers, Respond, output
  <1>2. Lost' = Lost /\ Admitted' = Admitted
    BY <1>1, Apart, PlacesAfter DEF Lost, Admitted
  <1>3. /\ answer[h] = 0 /\ Answers[h] = response[h]
        /\ rcode[h] = 0 => response[h] = "trips"
        /\ rcode[h] # 0 => response[h] = "error"
    BY <1>1 DEF IInv, Turns, Turn, Answers
  <1>4. Promise!Answer(h)
    BY <1>1, <1>2, <1>3 DEF Promise!Answer, Admitted, Answers
  <1>. QED
    BY <1>1, <1>4 DEF Promise!Next

\* The handlers, the semaphore and the library together keep what Service
\* promises, however many clients and CPUs there are: requests get their turns
\* in the order in which they began to wait, never more at a time than slots
\* are left, and each gets one outcome and the one answer that tells it.
THEOREM PromiseKept == Spec => KeepsPromise
  <1>1. Init => Promise!Init
    <2>. SUFFICES ASSUME Init PROVE Promise!Init
      OBVIOUS
    <2>1. queue = << >> /\ queue \in Seq(Handlers)
      BY DEF Init
    <2>2. SolvesOf(queue) = << >>
      BY <2>1, SelStep
    <2>3. Lost = {} /\ Admitted = {}
      BY Apart DEF Init, Lost, Admitted, Handlers
    <2>4. Left = NumCPU
      BY <2>3, FS_EmptySet, BackendAssumption DEF Left
    <2>5. Answers = [h \in Solves |-> "empty"] /\ answer = [h \in Solves |-> 0]
      BY DEF Init, Answers, Handlers
    <2>. QED
      BY <2>2, <2>3, <2>4, <2>5 DEF Promise!Init, Admitted, Answers, Left
  <1>2. IInv /\ [Next]_vars => [Promise!Next]_(Promise!vars)
    <2>. SUFFICES ASSUME IInv, [Next]_vars PROVE [Promise!Next]_(Promise!vars)
      OBVIOUS
    <2>1. CASE UNCHANGED vars
      BY <2>1 DEF vars, output, Promise!vars, Lost
    <2>. QED
      BY <2>1, EnterImplements, ArriveImplements, BindImplements, PingImplements, LeaveImplements,
         LibraryImplements, RespondImplements DEF Next, Handle, Solve, Idle
  <1>. QED
    BY <1>1, <1>2, Invariance, PTL DEF Spec, KeepsPromise, Promise!Spec

-----------------------------------------------------------------------------
(* The logger, for any requests and whatever levels they ask for.           *)

LevelInv ==
    /\ asked \in [Callers -> Asked \cup {""}]
    /\ logLevel \in DOMAIN LogLevels /\ LevelWasAsked

FolderInv ==
    /\ init = "" => core = {}
    /\ init = "folder" => core = FolderSinks
    /\ init \notin {"", "folder"} => core = {Sink("console", FALSE)}

LogInv == LevelInv /\ FolderInv

LEMMA LevelNames ==
  /\ DOMAIN LogLevels = 1 .. 6 /\ LevelOf("info") = 3
  /\ \A name : Known(name) => LevelOf(name) \in DOMAIN LogLevels /\ LogLevels[LevelOf(name)] = name
  /\ \A i \in DOMAIN LogLevels : LogLevels[i] # ""
  <1>1. /\ DOMAIN LogLevels = 1 .. 6
        /\ LogLevels[1] = "trace" /\ LogLevels[2] = "debug" /\ LogLevels[3] = "info"
        /\ LogLevels[4] = "warn" /\ LogLevels[5] = "error" /\ LogLevels[6] = "fatal"
    BY DEF LogLevels
  <1>2. \A i \in 1 .. 6 : i = 1 \/ i = 2 \/ i = 3 \/ i = 4 \/ i = 5 \/ i = 6
    OBVIOUS
  <1>3. LevelOf("info") = 3
    BY <1>1, <1>2 DEF LevelOf
  <1>4. \A name : Known(name) => LevelOf(name) \in DOMAIN LogLevels /\ LogLevels[LevelOf(name)] = name
    BY DEF Known, LevelOf
  <1>5. \A i \in DOMAIN LogLevels : LogLevels[i] # ""
    BY <1>1, <1>2
  <1>. QED
    BY <1>1, <1>3, <1>4, <1>5

\* a level that is set is the one that was asked for, and a name that is no
\* level leaves the one there was
LEMMA LevelKept == LogInv /\ [LogNext]_logVars => LevelInv'
  <1>. SUFFICES ASSUME LogInv, [LogNext]_logVars PROVE LevelInv'
    OBVIOUS
  <1>. USE DEF LogInv, LevelInv
  <1>1. CASE Initialize \/ (\E r \in Callers : Record(r)) \/ UNCHANGED logVars
    <2>1. logLevel' = logLevel /\ asked' = asked
      BY <1>1 DEF Initialize, Record, logVars
    <2>. QED
      BY <2>1 DEF LevelWasAsked
  <1>2. ASSUME NEW r \in Callers, SetLogLevel(r) PROVE LevelInv'
    <2>. r \in DOMAIN asked
      OBVIOUS
    <2>1. PICK name \in Asked :
             /\ asked' = [asked EXCEPT ![r] = name]
             /\ IF Known(name) THEN logLevel' = LevelOf(name) ELSE logLevel' = logLevel
      BY <1>2 DEF SetLogLevel
    <2>2. asked[r] = ""
      BY <1>2 DEF SetLogLevel
    <2>a. asked' \in [Callers -> Asked \cup {""}]
      BY <2>1
    <2>3. CASE Known(name)
      <3>1. logLevel' \in DOMAIN LogLevels /\ asked'[r] = LogLevels[logLevel']
        BY <2>1, <2>3, LevelNames
      <3>. QED
        BY <2>a, <3>1 DEF LevelWasAsked
    <2>4. CASE ~Known(name)
      <3>1. logLevel' = logLevel
        BY <2>1, <2>4
      <3>2. ASSUME NEW q \in Callers, asked[q] = LogLevels[logLevel]
            PROVE  asked'[q] = LogLevels[logLevel]
        <4>1. q # r
          BY <2>2, <3>2, LevelNames
        <4>. QED
          BY <2>1, <3>2, <4>1
      <3>. QED
        BY <2>a, <3>1, <3>2 DEF LevelWasAsked
    <2>. QED
      BY <2>3, <2>4
  <1>. QED
    BY <1>1, <1>2 DEF LogNext

LEMMA FolderKept == FolderInv /\ [LogNext]_logVars => FolderInv'
  BY DEF FolderInv, LogNext, logVars, Initialize, SetLogLevel, Record, ConsoleSinks, CallbackSinks

\* with both sinks behind the filter, a record goes to both or to none; with one
\* that has no filter, to that
LEMMA FolderStep ==
  ASSUME LogInv, [LogNext]_logVars, written' # written
  PROVE  written'.to = IF init # "folder" THEN {"console"}
                       ELSE IF written'.level >= logLevel THEN {"file", "console"} ELSE {}
  <1>1. PICK n \in DOMAIN LogLevels :
           written' = [level |-> n, to |-> {sink.to : sink \in {s \in core : Passes(s, n)}}]
    BY DEF LogNext, logVars, Initialize, SetLogLevel, Record
  <1>2. init # ""
    BY DEF LogNext, logVars, Initialize, SetLogLevel, Record
  <1>3. CASE init # "folder"
    <2>1. core = {[to |-> "console", filtered |-> FALSE]}
      BY <1>2, <1>3 DEF LogInv, FolderInv, Sink
    <2>2. {s \in core : Passes(s, n)} = core
      BY <2>1 DEF Passes
    <2>3. {sink.to : sink \in core} = {"console"}
      BY <2>1
    <2>. QED
      BY <1>1, <1>3, <2>2, <2>3
  <1>4. CASE init = "folder"
    <2>1. core = {[to |-> "file", filtered |-> TRUE], [to |-> "console", filtered |-> TRUE]}
      BY <1>4 DEF LogInv, FolderInv, FolderSinks, Sink
    <2>2. \A s \in core : Passes(s, n) <=> n >= logLevel
      BY <2>1 DEF Passes
    <2>3. CASE n >= logLevel
      <3>1. {s \in core : Passes(s, n)} = core
        BY <2>2, <2>3
      <3>2. {sink.to : sink \in core} = {"file", "console"}
        BY <2>1
      <3>. QED
        BY <1>1, <1>4, <2>3, <3>1, <3>2
    <2>4. CASE ~(n >= logLevel)
      <3>1. {s \in core : Passes(s, n)} = {}
        BY <2>2, <2>4
      <3>. QED
        BY <1>1, <1>4, <2>4, <3>1
    <2>. QED
      BY <2>3, <2>4
  <1>. QED
    BY <1>3, <1>4

LEMMA LogBegins == LogInit => LogInv
  <1>. SUFFICES ASSUME LogInit PROVE LogInv
    OBVIOUS
  <1>1. logLevel = LevelOf("info") /\ logLevel \in DOMAIN LogLevels
    <2>1. logLevel = LevelOf("info")
      BY DEF LogInit
    <2>2. LevelOf("info") = 3 /\ DOMAIN LogLevels = 1 .. 6
      BY LevelNames, Zenon
    <2>. QED
      BY <2>1, <2>2
  <1>2. asked \in [Callers -> Asked \cup {""}] /\ init = "" /\ core = {}
    BY DEF LogInit
  <1>. QED
    BY <1>1, <1>2 DEF LogInv, LevelInv, FolderInv, LevelWasAsked

-----------------------------------------------------------------------------
(* The statistics of the fails, for any requests, workers and counters.     *)

\* a worker of a parallel search merges only under the lock of its search
MergesLocked ==
    \A c \in Colonies : colonyPc[c] = "merge" /\ c[1] \in Parallel => lock[c[1]] = c

\* whoever waits has added nothing yet, whoever has merged has added everything
IterOf ==
    \A c \in Colonies :
        /\ colonyPc[c] = "search" => it[c] = 1
        /\ colonyPc[c] = "done" => it[c] = MaxElement + 1

\* who has begun to copy has joined every thread
JoinedFirst == \A r \in Requests : pcSolve[r] # "wait" => \A c \in Of(r) : colonyPc[c] = "done"
CopiedAll   == \A r \in Requests :
                  /\ pcSolve[r] = "wait" => copied[r] = 0
                  /\ pcSolve[r] = "printed" => copied[r] = MaxElement

Merging(r) == \E c \in Of(r) : colonyPc[c] = "merge"

\* As long as no other request merges: the counters that a worker of the search
\* has merged are what the merges so far make one after the other, and the others
\* will be; when nobody of the search is merging, all are, and what is copied is.
Alone(r) ==
    /\ \A c \in Of(r) : colonyPc[c] = "merge" => \A e \in Events :
          /\ e < it[c] => global[e] = serial[r][e]
          /\ e >= it[c] => Combined(global[e], fails[c][e]) = serial[r][e]
    /\ ~Merging(r) /\ (\E c \in Of(r) : colonyPc[c] = "done") =>
          /\ \A e \in Events : global[e] = serial[r][e]
          /\ \A e \in Events : e <= copied[r] => copy[r][e] = serial[r][e]

WholeInv ==
    \A r \in Requests : ~mixed[r] =>
        /\ pcSolve[r] # "printed" => Alone(r)
        /\ pcSolve[r] = "printed" => copy[r] = serial[r]

FailsInv ==
    /\ FailsTypeOK /\ lock \in [Parallel -> Colonies \cup {Nobody}]
    /\ MergesLocked /\ IterOf /\ JoinedFirst /\ CopiedAll /\ WholeInv

\* however counters are combined, what comes out is a counter
LEMMA CombinedType ==
  ASSUME NEW mine \in Nat, NEW theirs \in 0 .. MaxFails
  PROVE  Combined(mine, theirs) \in Nat
  BY FailsAssumption DEF Combined

\* the colonies of a request, and that nobody is one
LEMMA ColoniesOf ==
  /\ \A c \in Colonies : c[1] \in Requests /\ c \in Of(c[1])
  /\ \A r \in Requests : Of(r) # {} /\ Of(r) \subseteq Colonies /\ \A c \in Of(r) : c[1] = r
  /\ \A r \in Requests \ Parallel : \A c, d \in Of(r) : c = d
  /\ Nobody \notin Colonies
  <1>1. \A c \in Colonies : c[1] \in Requests
    BY DEF Colonies, Requests
  <1>2. \A r \in Requests : Of(r) # {}
    <2>. TAKE r \in Requests
    <2>1. CASE r \in Parallel
      <3>1. PICK w \in Workers : TRUE
        BY FailsAssumption
      <3>2. <<r, w>> \in Colonies /\ <<r, w>>[1] = r
        BY <2>1, <3>1 DEF Colonies
      <3>. QED
        BY <3>2 DEF Of
    <2>2. CASE r \in Sequential
      <3>1. <<r, "main">> \in Colonies /\ <<r, "main">>[1] = r
        BY <2>2 DEF Colonies
      <3>. QED
        BY <3>1 DEF Of
    <2>. QED
      BY <2>1, <2>2 DEF Requests
  <1>3. \A r \in Requests \ Parallel : \A c \in Of(r) : c = <<r, "main">>
    BY DEF Requests, Of, Colonies
  <1>4. Nobody \notin Colonies
    BY FailsAssumption DEF Nobody, Colonies
  <1>. QED
    BY <1>1, <1>2, <1>3, <1>4 DEF Of

LEMMA FailsBegin == FailsInit => FailsInv
  <1>. SUFFICES ASSUME FailsInit PROVE FailsInv
    OBVIOUS
  <1>1. \A c \in Colonies : colonyPc[c] = "search" /\ it[c] = 1
    BY DEF FailsInit
  <1>2. \A r \in Requests : pcSolve[r] = "wait" /\ copied[r] = 0
    BY DEF FailsInit
  <1>3. Zero \in [Events -> 0 .. MaxFails] /\ Zero \in [Events -> Nat]
    BY FailsAssumption DEF Zero
  <1>4. FailsTypeOK /\ lock \in [Parallel -> Colonies \cup {Nobody}]
    BY <1>3, FailsAssumption DEF FailsInit, FailsTypeOK
  <1>5. MergesLocked /\ IterOf /\ JoinedFirst /\ CopiedAll
    BY <1>1, <1>2 DEF MergesLocked, IterOf, JoinedFirst, CopiedAll
  <1>6. WholeInv
    BY <1>1, <1>2, ColoniesOf DEF WholeInv, Alone, Merging
  <1>. QED
    BY <1>4, <1>5, <1>6 DEF FailsInv

\* two colonies of one request never merge at a time
LEMMA OneMerges ==
  ASSUME FailsInv, NEW c \in Colonies, NEW d \in Colonies, c[1] = d[1],
         colonyPc[c] = "merge", colonyPc[d] = "merge"
  PROVE  c = d
  <1>1. CASE c[1] \in Parallel
    BY <1>1 DEF FailsInv, MergesLocked
  <1>2. CASE c[1] \notin Parallel
    BY <1>2, ColoniesOf
  <1>. QED
    BY <1>1, <1>2

\* an event that is counted before the merge is in nobody's statistics yet
LEMMA AddKeeps == ASSUME FailsInv, NEW c \in Colonies, AddEvent(c) PROVE FailsInv'
  <1>. USE DEF FailsInv
  <1>1. /\ colonyPc[c] = "search"
        /\ UNCHANGED <<lock, colonyPc, it, global, pcSolve, copied, copy, mixed, serial>>
    BY DEF AddEvent
  <1>2. PICK e \in Events : fails[c][e] < MaxFails /\ fails' = [fails EXCEPT ![c][e] = @ + 1]
    BY DEF AddEvent
  <1>3. fails \in [Colonies -> [Events -> 0 .. MaxFails]]
    BY DEF FailsTypeOK
  <1>4. fails[c][e] + 1 \in 0 .. MaxFails
    BY <1>2, <1>3, FailsAssumption
  <1>5. fails' \in [Colonies -> [Events -> 0 .. MaxFails]] /\ \A d \in Colonies : d # c => fails'[d] = fails[d]
    BY <1>2, <1>3, <1>4
  <1>6. \A d \in Colonies : colonyPc[d] # "search" => fails'[d] = fails[d]
    BY <1>1, <1>5
  <1>7. FailsTypeOK' /\ lock' \in [Parallel -> Colonies \cup {Nobody}]
    BY <1>1, <1>5 DEF FailsTypeOK
  <1>8. MergesLocked' /\ IterOf' /\ JoinedFirst' /\ CopiedAll'
    BY <1>1 DEF MergesLocked, IterOf, JoinedFirst, CopiedAll
  <1>9. WholeInv'
    <2>1. ASSUME NEW r \in Requests, Alone(r) PROVE Alone(r)'
      BY <1>1, <1>6, <2>1, ColoniesOf DEF Alone, Merging
    <2>. QED
      BY <1>1, <2>1 DEF WholeInv
  <1>. QED
    BY <1>7, <1>8, <1>9

\* a colony begins to merge: in a parallel search nobody else does
LEMMA EndKeeps == ASSUME FailsInv, NEW c \in Colonies, EndSearch(c) PROVE FailsInv'
  <1>. USE DEF FailsInv
  <1>1. /\ colonyPc[c] = "search" /\ colonyPc' = [colonyPc EXCEPT ![c] = "merge"]
        /\ UNCHANGED <<it, fails, global, pcSolve, copied, copy, mixed>>
    BY DEF EndSearch, GoOn
  <1>. DEFINE first == \A d \in Of(c[1]) : colonyPc[d] = "search"
              before == IF first THEN global ELSE serial[c[1]]
              merged == [e \in Events |-> Combined(before[e], fails[c][e])]
  <1>a. serial' = [serial EXCEPT ![c[1]] = merged]
    BY DEF EndSearch, Serially
  <1>b. c[1] \in Requests /\ before \in [Events -> Nat]
    BY ColoniesOf DEF FailsTypeOK
  <1>. HIDE DEF before
  <1>c. merged \in [Events -> Nat]
    <2>1. \A e \in Events : before[e] \in Nat /\ fails[c][e] \in 0 .. MaxFails
      BY <1>b DEF FailsTypeOK
    <2>2. \A e \in Events : Combined(before[e], fails[c][e]) \in Nat
      BY <2>1, CombinedType
    <2>. QED
      BY <2>2
  <1>d. /\ serial' \in [Requests -> [Events -> Nat]]
        /\ \A e \in Events : serial'[c[1]][e] = Combined(before[e], fails[c][e])
        /\ \A q \in Requests : q # c[1] => serial'[q] = serial[q]
    <2>. HIDE DEF merged
    <2>1. /\ serial' \in [Requests -> [Events -> Nat]] /\ serial'[c[1]] = merged
          /\ \A q \in Requests : q # c[1] => serial'[q] = serial[q]
      BY <1>a, <1>b, <1>c DEF FailsTypeOK
    <2>. QED
      BY <2>1 DEF merged
  <1>. HIDE DEF merged
  <1>2. /\ c[1] \in Parallel => lock[c[1]] = Nobody /\ lock' = [lock EXCEPT ![c[1]] = c]
        /\ c[1] \notin Parallel => lock' = lock
    BY DEF EndSearch
  <1>3. /\ colonyPc \in [Colonies -> {"search", "merge", "done"}] /\ colonyPc'[c] = "merge"
        /\ \A d \in Colonies : d # c => colonyPc'[d] = colonyPc[d]
        /\ colonyPc' \in [Colonies -> {"search", "merge", "done"}]
    BY <1>1 DEF FailsTypeOK
  <1>4. lock' \in [Parallel -> Colonies \cup {Nobody}]
    BY <1>2
  <1>5. \A d \in Colonies : d # c /\ d[1] = c[1] => colonyPc[d] # "merge"
    BY <1>1, <1>2, ColoniesOf DEF MergesLocked
  <1>6. \A r \in Parallel : lock'[r] = Nobody \/ (lock'[r] \in Of(r) /\ colonyPc'[lock'[r]] = "merge")
    <2>. TAKE r \in Parallel
    <2>1. CASE r = c[1]
      BY <1>2, <1>3, <2>1, ColoniesOf
    <2>2. CASE r # c[1]
      <3>1. lock'[r] = lock[r] /\ (lock[r] = Nobody \/ (lock[r] \in Of(r) /\ colonyPc[lock[r]] = "merge"))
        BY <1>2, <2>2 DEF FailsTypeOK
      <3>2. r \in Requests
        BY DEF Requests
      <3>. QED
        BY <1>1, <1>3, <3>1, <3>2, ColoniesOf
    <2>. QED
      BY <2>1, <2>2
  <1>7. FailsTypeOK'
    BY <1>1, <1>3, <1>6, <1>d DEF FailsTypeOK
  <1>8. MergesLocked'
    <2>. SUFFICES ASSUME NEW d \in Colonies, colonyPc'[d] = "merge", d[1] \in Parallel PROVE lock'[d[1]] = d
      BY DEF MergesLocked
    <2>1. CASE d = c
      BY <1>2, <2>1
    <2>2. CASE d # c
      BY <1>2, <1>3, <1>5, <2>2 DEF MergesLocked
    <2>. QED
      BY <2>1, <2>2
  <1>9. IterOf' /\ CopiedAll'
    BY <1>1, <1>3 DEF IterOf, CopiedAll
  <1>10. \A r \in Requests : pcSolve[r] # "wait" => c \notin Of(r)
    BY <1>1 DEF JoinedFirst
  <1>11. JoinedFirst'
    BY <1>1, <1>3, <1>10, ColoniesOf DEF JoinedFirst
  <1>12. ASSUME NEW r \in Requests, r # c[1], Alone(r) PROVE Alone(r)'
    <2>1. \A d \in Of(r) : colonyPc'[d] = colonyPc[d]
      BY <1>3, <1>12, ColoniesOf
    <2>. QED
      BY <1>1, <1>12, <1>d, <2>1 DEF Alone, Merging
  <1>13. ASSUME Alone(c[1]) PROVE Alone(c[1])'
    <2>1. c \in Of(c[1]) /\ Merging(c[1])' /\ it[c] = 1
      BY <1>1, <1>3, ColoniesOf DEF Merging, IterOf
    <2>2. ~Merging(c[1])
      BY <1>1, <1>5, ColoniesOf DEF Merging
    <2>3. \A e \in Events : before[e] = global[e]
      <3>1. CASE first
        BY <3>1 DEF before
      <3>2. CASE ~first
        <4>1. \E d \in Of(c[1]) : colonyPc[d] = "done"
          BY <2>2, <3>2, ColoniesOf DEF Merging, FailsTypeOK
        <4>. QED
          BY <1>13, <2>2, <3>2, <4>1 DEF Alone, before
      <3>. QED
        BY <3>1, <3>2
    <2>4. \A e \in Events : Combined(global[e], fails[c][e]) = serial'[c[1]][e] /\ ~(e < it[c])
      <3>1. \A e \in Events : ~(e < it[c])
        BY <2>1 DEF Events
      <3>. QED
        BY <1>d, <2>3, <3>1
    <2>5. \A d \in Of(c[1]) : colonyPc'[d] = "merge" => d = c
      BY <1>3, <1>5, ColoniesOf
    <2>. QED
      BY <1>1, <2>1, <2>4, <2>5 DEF Alone
  <1>14. WholeInv'
    <2>. SUFFICES ASSUME NEW r \in Requests, ~mixed[r]
                  PROVE  /\ pcSolve[r] # "printed" => Alone(r)'
                         /\ pcSolve[r] = "printed" => copy[r] = serial'[r]
      BY <1>1 DEF WholeInv
    <2>1. pcSolve[r] = "printed" => r # c[1]
      BY <1>10, ColoniesOf
    <2>. QED
      BY <1>12, <1>13, <1>d, <2>1 DEF WholeInv
  <1>. QED
    BY <1>4, <1>7, <1>8, <1>9, <1>11, <1>14

\* a counter is merged: it is the colony's own, and those of another request
\* that reports are mixed from now on
LEMMA MergeKeeps == ASSUME FailsInv, NEW c \in Colonies, MergeEvent(c) PROVE FailsInv'
  <1>. USE DEF FailsInv
  <1>. DEFINE k == it[c]
  <1>1. /\ colonyPc[c] = "merge" /\ k <= MaxElement
        /\ global' = [global EXCEPT ![k] = Combined(@, fails[c][k])] /\ it' = [it EXCEPT ![c] = k + 1]
        /\ mixed' = [r \in Requests |-> mixed[r] \/ (r # c[1] /\ Reporting(r))]
        /\ UNCHANGED <<lock, colonyPc, fails, pcSolve, copied, copy, serial>>
    BY DEF MergeEvent
  <1>2. /\ k \in Events /\ k \in Nat /\ k + 1 \in 1 .. MaxElement + 1
        /\ it'[c] = k + 1 /\ \A d \in Colonies : d # c => it'[d] = it[d]
        /\ it' \in [Colonies -> 1 .. MaxElement + 1]
    <2>. HIDE DEF k
    <2>1. k \in 1 .. MaxElement + 1
      BY DEF FailsTypeOK, k
    <2>2. k \in Events /\ k \in Nat /\ k + 1 \in 1 .. MaxElement + 1
      BY <1>1, <2>1, FailsAssumption DEF Events
    <2>. QED
      BY <1>1, <2>2 DEF FailsTypeOK
  <1>3. /\ global'[k] = Combined(global[k], fails[c][k]) /\ global' \in [Events -> Nat]
        /\ \A e \in Events : e # k => global'[e] = global[e]
    <2>1. global[k] \in Nat /\ fails[c][k] \in 0 .. MaxFails
      BY <1>2 DEF FailsTypeOK
    <2>2. Combined(global[k], fails[c][k]) \in Nat
      BY <2>1, CombinedType
    <2>. QED
      BY <1>1, <1>2, <2>2 DEF FailsTypeOK
  <1>. HIDE DEF k
  <1>4. mixed' \in [Requests -> BOOLEAN] /\ \A r \in Requests : ~mixed'[r] => ~mixed[r] /\ (r = c[1] \/ ~Reporting(r))
    BY <1>1 DEF FailsTypeOK
  <1>5. FailsTypeOK' /\ lock' \in [Parallel -> Colonies \cup {Nobody}]
    BY <1>1, <1>2, <1>3, <1>4 DEF FailsTypeOK
  <1>6. MergesLocked' /\ IterOf' /\ JoinedFirst' /\ CopiedAll'
    BY <1>1, <1>2 DEF MergesLocked, IterOf, JoinedFirst, CopiedAll
  <1>7. ASSUME Alone(c[1]) PROVE Alone(c[1])'
    <2>1. c \in Of(c[1]) /\ Merging(c[1])'
      BY <1>1, ColoniesOf DEF Merging
    <2>2. \A d \in Of(c[1]) : colonyPc[d] = "merge" => d = c
      BY <1>1, ColoniesOf, OneMerges
    <2>3. ASSUME NEW e \in Events
          PROVE  /\ e < it'[c] => global'[e] = serial[c[1]][e]
                 /\ e >= it'[c] => Combined(global'[e], fails[c][e]) = serial[c[1]][e]
      <3>1. /\ e < k => global[e] = serial[c[1]][e]
            /\ e >= k => Combined(global[e], fails[c][e]) = serial[c[1]][e]
        BY <1>1, <1>7, <2>1 DEF Alone, k
      <3>2. CASE e = k
        <4>1. e >= k /\ e < it'[c] /\ ~(e >= it'[c])
          BY <1>2, <3>2
        <4>. QED
          BY <1>3, <3>1, <3>2, <4>1
      <3>3. CASE e # k
        <4>1. (e < it'[c] => e < k) /\ (e >= it'[c] => e >= k)
          BY <1>2, <3>3 DEF Events
        <4>. QED
          BY <1>3, <3>1, <3>3, <4>1
      <3>. QED
        BY <3>2, <3>3
    <2>. QED
      BY <1>1, <2>1, <2>2, <2>3 DEF Alone
  <1>8. WholeInv'
    <2>. SUFFICES ASSUME NEW r \in Requests, ~mixed'[r]
                  PROVE  /\ pcSolve[r] # "printed" => Alone(r)'
                         /\ pcSolve[r] = "printed" => copy[r] = serial[r]
      BY <1>1 DEF WholeInv
    <2>1. pcSolve[r] = "printed" => copy[r] = serial[r]
      BY <1>4 DEF WholeInv
    <2>2. ASSUME pcSolve[r] # "printed", r # c[1] PROVE Alone(r)'
      <3>1. \A d \in Of(r) : colonyPc[d] = "search"
        BY <1>4, <2>2 DEF Reporting
      <3>. QED
        BY <1>1, <3>1 DEF Alone, Merging
    <2>. QED
      BY <1>4, <1>7, <2>1, <2>2 DEF WholeInv
  <1>. QED
    BY <1>5, <1>6, <1>8

\* a colony has merged and frees its lock: all of its statistics are there
LEMMA MergedKeeps == ASSUME FailsInv, NEW c \in Colonies, Merged(c) PROVE FailsInv'
  <1>. USE DEF FailsInv
  <1>1. /\ colonyPc[c] = "merge" /\ it[c] > MaxElement /\ colonyPc' = [colonyPc EXCEPT ![c] = "done"]
        /\ lock' = IF c[1] \in Parallel THEN [lock EXCEPT ![c[1]] = Nobody] ELSE lock
        /\ UNCHANGED <<it, fails, global, pcSolve, copied, copy, mixed, serial>>
    BY DEF Merged, GoOn
  <1>2. /\ colonyPc'[c] = "done" /\ \A d \in Colonies : d # c => colonyPc'[d] = colonyPc[d]
        /\ colonyPc' \in [Colonies -> {"search", "merge", "done"}]
    BY <1>1 DEF FailsTypeOK
  <1>3. /\ lock' \in [Parallel -> Colonies \cup {Nobody}]
        /\ \A r \in Parallel : r = c[1] => lock'[r] = Nobody
        /\ \A r \in Parallel : r # c[1] => lock'[r] = lock[r]
    BY <1>1
  <1>4. it[c] = MaxElement + 1
    <2>1. it[c] \in 1 .. MaxElement + 1
      BY DEF FailsTypeOK
    <2>. QED
      BY <1>1, <2>1, FailsAssumption
  <1>5. \A r \in Parallel : lock'[r] = Nobody \/ (lock'[r] \in Of(r) /\ colonyPc'[lock'[r]] = "merge")
    <2>. TAKE r \in Parallel
    <2>1. CASE r = c[1]
      BY <1>3, <2>1
    <2>2. CASE r # c[1]
      <3>1. lock'[r] = lock[r] /\ (lock[r] = Nobody \/ (lock[r] \in Of(r) /\ colonyPc[lock[r]] = "merge"))
        BY <1>3, <2>2 DEF FailsTypeOK
      <3>2. r \in Requests
        BY DEF Requests
      <3>3. CASE lock[r] # Nobody
        <4>1. lock[r] \in Colonies /\ lock[r] # c
          BY <2>2, <3>1, <3>2, <3>3, ColoniesOf
        <4>. QED
          BY <1>2, <3>1, <3>3, <4>1
      <3>. QED
        BY <3>1, <3>3
    <2>. QED
      BY <2>1, <2>2
  <1>6. FailsTypeOK'
    BY <1>1, <1>2, <1>5 DEF FailsTypeOK
  <1>7. MergesLocked'
    <2>. SUFFICES ASSUME NEW d \in Colonies, colonyPc'[d] = "merge", d[1] \in Parallel PROVE lock'[d[1]] = d
      BY DEF MergesLocked
    <2>1. d # c /\ colonyPc[d] = "merge"
      BY <1>2
    <2>2. d[1] # c[1]
      BY <1>1, <2>1, OneMerges
    <2>. QED
      BY <1>3, <2>1, <2>2 DEF MergesLocked
  <1>8. IterOf' /\ CopiedAll'
    BY <1>1, <1>2, <1>4 DEF IterOf, CopiedAll
  <1>9. pcSolve[c[1]] = "wait"
    BY <1>1, ColoniesOf DEF JoinedFirst
  <1>10. JoinedFirst'
    BY <1>1, <1>2, ColoniesOf DEF JoinedFirst
  <1>11. ASSUME Alone(c[1]) PROVE Alone(c[1])'
    <2>1. c \in Of(c[1]) /\ copied[c[1]] = 0
      BY <1>9, ColoniesOf DEF CopiedAll
    <2>2. \A e \in Events : e < it[c] /\ ~(e <= copied[c[1]])
      BY <1>4, <2>1, FailsAssumption DEF Events
    <2>3. \A e \in Events : global[e] = serial[c[1]][e]
      BY <1>1, <1>11, <2>1, <2>2 DEF Alone
    <2>4. \A d \in Of(c[1]) : colonyPc'[d] # "merge"
      BY <1>1, <1>2, ColoniesOf, OneMerges
    <2>. QED
      BY <1>1, <2>2, <2>3, <2>4 DEF Alone
  <1>12. ASSUME NEW r \in Requests, r # c[1], Alone(r) PROVE Alone(r)'
    <2>1. \A d \in Of(r) : colonyPc'[d] = colonyPc[d]
      BY <1>2, <1>12, ColoniesOf
    <2>. QED
      BY <1>1, <1>12, <2>1 DEF Alone, Merging
  <1>13. WholeInv'
    BY <1>1, <1>11, <1>12 DEF WholeInv
  <1>. QED
    BY <1>3, <1>6, <1>7, <1>8, <1>10, <1>13

\* the search returns when nobody of it merges, with somebody's statistics there
LEMMA JoinedKeeps == ASSUME FailsInv, NEW r \in Requests, Joined(r) PROVE FailsInv'
  <1>. USE DEF FailsInv
  <1>1. /\ pcSolve[r] = "wait" /\ (\A c \in Of(r) : colonyPc[c] = "done")
        /\ pcSolve' = [pcSolve EXCEPT ![r] = "copy"]
        /\ UNCHANGED <<lock, colonyPc, it, fails, global, copied, copy, mixed, serial>>
    BY DEF Joined
  <1>2. /\ pcSolve' \in [Requests -> {"wait", "copy", "printed"}] /\ pcSolve'[r] = "copy"
        /\ \A q \in Requests : q # r => pcSolve'[q] = pcSolve[q]
    BY <1>1 DEF FailsTypeOK
  <1>3. FailsTypeOK' /\ lock' \in [Parallel -> Colonies \cup {Nobody}]
    BY <1>1, <1>2 DEF FailsTypeOK
  <1>4. MergesLocked' /\ IterOf'
    BY <1>1 DEF MergesLocked, IterOf
  <1>5. JoinedFirst' /\ CopiedAll'
    BY <1>1, <1>2 DEF JoinedFirst, CopiedAll
  <1>6. \A q \in Requests : Alone(q)' <=> Alone(q)
    BY <1>1 DEF Alone, Merging
  <1>7. WholeInv'
    BY <1>1, <1>2, <1>6 DEF WholeInv
  <1>. QED
    BY <1>3, <1>4, <1>5, <1>7

\* a counter is copied: every worker of the search has merged
LEMMA CopyKeeps == ASSUME FailsInv, NEW r \in Requests, CopyEvent(r) PROVE FailsInv'
  <1>. USE DEF FailsInv
  <1>. DEFINE k == copied[r] + 1
  <1>1. /\ pcSolve[r] = "copy" /\ copied[r] < MaxElement
        /\ copied' = [copied EXCEPT ![r] = k] /\ copy' = [copy EXCEPT ![r][k] = global[k]]
        /\ UNCHANGED <<lock, colonyPc, it, fails, global, pcSolve, mixed, serial>>
    BY DEF CopyEvent
  <1>2. /\ copied[r] \in Nat /\ k \in Events /\ k \in 0 .. MaxElement
        /\ \A e \in Events : e <= k => e = k \/ e <= copied[r]
        /\ \A e \in Events : e <= copied[r] => e # k
    <2>1. copied[r] \in 0 .. MaxElement
      BY DEF FailsTypeOK
    <2>. QED
      BY <1>1, <2>1, FailsAssumption DEF Events
  <1>3. /\ copied' \in [Requests -> 0 .. MaxElement] /\ copied'[r] = k
        /\ \A q \in Requests : q # r => copied'[q] = copied[q]
    BY <1>1, <1>2 DEF FailsTypeOK
  <1>4. /\ copy' \in [Requests -> [Events -> Nat]] /\ copy'[r][k] = global[k]
        /\ \A e \in Events : e # k => copy'[r][e] = copy[r][e]
        /\ \A q \in Requests : q # r => copy'[q] = copy[q]
    BY <1>1, <1>2 DEF FailsTypeOK
  <1>. HIDE DEF k
  <1>5. FailsTypeOK' /\ lock' \in [Parallel -> Colonies \cup {Nobody}]
    BY <1>1, <1>3, <1>4 DEF FailsTypeOK
  <1>6. MergesLocked' /\ IterOf' /\ JoinedFirst'
    BY <1>1 DEF MergesLocked, IterOf, JoinedFirst
  <1>7. CopiedAll'
    BY <1>1, <1>3 DEF CopiedAll
  <1>8. Of(r) # {} /\ \A c \in Of(r) : c \in Colonies /\ colonyPc[c] = "done"
    BY <1>1, ColoniesOf DEF JoinedFirst
  <1>9. \A q \in Requests : q # r /\ Alone(q) => Alone(q)'
    BY <1>1, <1>3, <1>4 DEF Alone, Merging
  <1>10. Alone(r) => Alone(r)'
    <2>. SUFFICES ASSUME Alone(r) PROVE Alone(r)'
      OBVIOUS
    <2>1. /\ \A e \in Events : global[e] = serial[r][e]
          /\ \A e \in Events : e <= copied[r] => copy[r][e] = serial[r][e]
      BY <1>8 DEF Alone, Merging
    <2>2. \A e \in Events : e <= k => copy'[r][e] = serial[r][e]
      BY <1>2, <1>4, <2>1
    <2>3. \A d \in Of(r) : colonyPc'[d] # "merge"
      BY <1>1, <1>8
    <2>. QED
      BY <1>1, <1>3, <2>1, <2>2, <2>3 DEF Alone
  <1>11. WholeInv'
    <2>. SUFFICES ASSUME NEW q \in Requests, ~mixed[q]
                  PROVE  /\ pcSolve[q] # "printed" => Alone(q)'
                         /\ pcSolve[q] = "printed" => copy'[q] = serial[q]
      BY <1>1 DEF WholeInv
    <2>1. pcSolve[q] = "printed" => q # r
      BY <1>1
    <2>. QED
      BY <1>4, <1>9, <1>10, <2>1 DEF WholeInv
  <1>. QED
    BY <1>5, <1>6, <1>7, <1>11

\* what is printed is all of the copy
LEMMA PrintedKeeps == ASSUME FailsInv, NEW r \in Requests, Printed(r) PROVE FailsInv'
  <1>. USE DEF FailsInv
  <1>1. /\ pcSolve[r] = "copy" /\ copied[r] = MaxElement /\ pcSolve' = [pcSolve EXCEPT ![r] = "printed"]
        /\ UNCHANGED <<lock, colonyPc, it, fails, global, copied, copy, mixed, serial>>
    BY DEF Printed
  <1>2. /\ pcSolve' \in [Requests -> {"wait", "copy", "printed"}] /\ pcSolve'[r] = "printed"
        /\ \A q \in Requests : q # r => pcSolve'[q] = pcSolve[q]
    BY <1>1 DEF FailsTypeOK
  <1>3. FailsTypeOK' /\ lock' \in [Parallel -> Colonies \cup {Nobody}]
    BY <1>1, <1>2 DEF FailsTypeOK
  <1>4. MergesLocked' /\ IterOf'
    BY <1>1 DEF MergesLocked, IterOf
  <1>5. JoinedFirst' /\ CopiedAll'
    BY <1>1, <1>2 DEF JoinedFirst, CopiedAll
  <1>6. \A q \in Requests : Alone(q)' <=> Alone(q)
    BY <1>1 DEF Alone, Merging
  <1>7. ASSUME Alone(r) PROVE copy[r] = serial[r]
    <2>1. Of(r) # {} /\ \A c \in Of(r) : c \in Colonies /\ colonyPc[c] = "done"
      BY <1>1, ColoniesOf DEF JoinedFirst
    <2>2. \A e \in Events : e <= copied[r] => copy[r][e] = serial[r][e]
      BY <1>7, <2>1 DEF Alone, Merging
    <2>3. \A e \in Events : copy[r][e] = serial[r][e]
      BY <1>1, <2>2, FailsAssumption DEF Events
    <2>4. copy[r] \in [Events -> Nat] /\ serial[r] \in [Events -> Nat]
      BY DEF FailsTypeOK
    <2>. QED
      BY <2>3, <2>4
  <1>8. WholeInv'
    BY <1>1, <1>2, <1>6, <1>7 DEF WholeInv
  <1>. QED
    BY <1>3, <1>4, <1>5, <1>8

LEMMA FailsKeep == FailsInv /\ [FailsNext]_failVars => FailsInv'
  <1>. SUFFICES ASSUME FailsInv, [FailsNext]_failVars PROVE FailsInv'
    OBVIOUS
  <1>1. CASE UNCHANGED failVars
    BY <1>1 DEF failVars, FailsInv, FailsTypeOK, MergesLocked, IterOf, JoinedFirst, CopiedAll,
                WholeInv, Alone, Merging
  <1>. QED
    BY <1>1, AddKeeps, EndKeeps, MergeKeeps, MergedKeeps, JoinedKeeps, CopyKeeps, PrintedKeeps
       DEF FailsNext, Colony, EndSolve, Terminated

\* what the invariant says of a log that is written
LEMMA FailsTold == FailsInv => MergesWhole
  BY DEF FailsInv, WholeInv, MergesWhole

\* Whatever levels the requests ask for, and however many are searched by however
\* many threads: a level that does not exist changes nothing; with
\* initializeLogger the level filters the file and the console alike, with the
\* other functions nothing; and the fails of a search are merged as if each merge
\* were one step, unless another request merges in between.
THEOREM SharedCorrect == LogSpec /\ FailsSpec => RequestsApart
  <1>1. LogInv /\ [LogNext]_logVars => LogInv'
    BY LevelKept, FolderKept DEF LogInv
  <1>2. LogInv /\ [LogNext]_logVars =>
          [written' # written =>
             written'.to = IF init # "folder" THEN {"console"}
                           ELSE IF written'.level >= logLevel THEN {"file", "console"} ELSE {}]_logVars
    BY FolderStep
  <1>3. LogInv => LevelWasAsked
    BY Zenon DEF LogInv, LevelInv
  <1>. QED
    BY <1>1, <1>2, <1>3, LogBegins, FailsBegin, FailsKeep, FailsTold, PTL
       DEF LogSpec, FailsSpec, RequestsApart, SinksFiltered

-----------------------------------------------------------------------------
(* The consoles, for any numbers that may be given for an option.           *)

Wanted == "export_to_folder" \in DOMAIN argv

ConsoleInv ==
    /\ program \in {"service", "bench"} /\ code \in {-1, 0, 1}
    /\ stage # "ended" => code = -1 /\ ~printed
    /\ stage \notin {"store", "ended"} => DOMAIN argv \subseteq Console!Known[program]
    /\ stage \notin {"store", "notify", "ended"} => Console!Required[program] \subseteq DOMAIN argv
    /\ stage \in {"parse", "level", "request", "export", "solve"} => program = "service"
    /\ stage \in {"load", "bench"} => program = "bench"
    /\ stage \notin {"help", "undefined", "ended"} => found = "nothing"
    /\ stage = "solve" => (Wanted => exported)
    /\ stage = "bench" => benchPc = "done"
    /\ stage = "help" =>
          /\ program = "service" => found = "solved" /\ (Wanted => exported)
          /\ program = "bench" => /\ found # "nothing" /\ benchPc = "done"
                                  /\ venchiles # << >> /\ benchTasks # << >>
    /\ Console!CodeTells

LEMMA ConsoleBegins == Console!Init => ConsoleInv
  BY DEF Console!Init, ConsoleInv, Console!CodeTells

\* what no stage changes, and where stages lead that throw
LEMMA ConsoleKeeps == ConsoleInv /\ Console!Next /\ UNCHANGED benchVars => ConsoleInv'
  <1>. SUFFICES ASSUME ConsoleInv, Console!Next, UNCHANGED benchVars PROVE ConsoleInv'
    OBVIOUS
  <1>. USE DEF ConsoleInv, Wanted, Console!CodeTells
  <1>. USE DEF Console!Stage, Console!Ended, Console!Unless
  <1>a. benchPc' = benchPc /\ venchiles' = venchiles /\ benchTasks' = benchTasks
    BY DEF benchVars
  <1>1. CASE Console!Options
    BY <1>1, <1>a DEF Console!Options
  <1>2. CASE Console!Task
    BY <1>2, <1>a DEF Console!Task
  <1>3. CASE Console!Export
    <2>. DEFINE able == fault # "folder" /\ fault # "format"
    <2>1. /\ stage = "export" /\ exported' = (Wanted /\ able)
          /\ IF Wanted => able THEN stage' = "solve" /\ code' = code ELSE stage' = "ended" /\ code' = 1
          /\ UNCHANGED <<program, argv, found, printed>>
      BY <1>3 DEF Console!Export
    <2>2. CASE Wanted => able
      <3>1. Wanted => exported'
        BY <2>1, <2>2, Zenon
      <3>. HIDE DEF able
      <3>. QED
        BY <1>a, <2>1, <2>2, <3>1
    <2>3. CASE ~(Wanted => able)
      BY <1>a, <2>1, <2>3
    <2>. QED
      BY <2>2, <2>3
  <1>4. CASE Console!Solve
    <2>1. /\ stage = "solve" /\ UNCHANGED <<program, argv, exported, printed>>
          /\ \/ stage' = "ended" /\ code' = 1
             \/ stage' = "undefined" /\ code' = code
             \/ stage' = "help" /\ code' = code /\ found' = "solved"
      BY <1>4 DEF Console!Solve
    <2>. QED
      BY <1>a, <2>1
  <1>5. CASE Console!Load
    BY <1>5, <1>a DEF Console!Load
  <1>6. CASE Console!Bench
    <2>1. /\ stage = "bench" /\ UNCHANGED <<program, argv, exported, printed, code>>
          /\ \/ stage' = "undefined"
             \/ /\ stage' = "help" /\ found' # "nothing"
                /\ venchiles # << >> /\ benchTasks # << >>
      BY <1>6 DEF Console!Bench, Console!Outcomes
    <2>. QED
      BY <1>a, <2>1
  <1>7. CASE Console!Help
    <2>1. /\ stage = "help" /\ stage' = "ended" /\ code' = 0
          /\ UNCHANGED <<program, argv, exported, found>>
      BY <1>7 DEF Console!Help
    <2>2. found # "nothing"
      BY <2>1
    <2>. QED
      BY <1>a, <2>1, <2>2
  <1>. QED
    BY <1>1, <1>2, <1>3, <1>4, <1>5, <1>6, <1>7 DEF Console!Next

\* while the file is loaded, the console waits
LEMMA ConsoleWaits == ConsoleInv /\ Loading => ConsoleInv'
  BY DEF ConsoleInv, Console!CodeTells, Loading, consoleVars, Wanted

LEMMA ConsoleRests == ConsoleInv /\ UNCHANGED <<consoleVars, benchVars>> => ConsoleInv'
  BY DEF ConsoleInv, Console!CodeTells, consoleVars, benchVars, Wanted

-----------------------------------------------------------------------------
(* The loader of benchmarks, for any files: what the stream gives of a text *)
(* of tokens.                                                               *)

Streams == {s \in StreamType : s.pos <= Len(file.text)}

LEMMA TextType ==
  ASSUME file \in Files
  PROVE  /\ Len(file.text) \in Nat /\ DOMAIN file.text = 1 .. Len(file.text)
         /\ \A i \in DOMAIN file.text : file.text[i].value \in Nat
  <1>. DEFINE text == file.text
              Tokens == [kind : {"number", "word", "newline"}, value : Nat]
  <1>1. text \in Seq(Tokens)
    BY FilesAssumption
  <1>2. \A t \in Tokens : t.value \in Nat
    OBVIOUS
  <1>. HIDE DEF text, Tokens
  <1>3. Len(text) \in Nat /\ DOMAIN text = 1 .. Len(text) /\ \A i \in DOMAIN text : text[i] \in Tokens
    BY <1>1
  <1>4. \A i \in DOMAIN text : text[i].value \in Nat
    BY <1>2, <1>3
  <1>. QED
    BY <1>3, <1>4 DEF text

\* the least of a set of places
LEMMA MinIs ==
  ASSUME NEW S, S \subseteq Nat, NEW m \in S, \A k \in S : m <= k
  PROVE  Min(S) = m
  <1>1. Min(S) = CHOOSE x \in S : \A y \in S : x <= y
    BY DEF Min
  <1>. DEFINE x == CHOOSE x \in S : \A y \in S : x <= y
  <1>2. x \in S /\ \A y \in S : x <= y
    OBVIOUS
  <1>. HIDE DEF x
  <1>3. x = m
    BY <1>2
  <1>. QED
    BY <1>1, <1>3 DEF x

LEMMA MinPicks ==
  ASSUME NEW S, S \subseteq Nat, S # {}
  PROVE  Min(S) \in S
  <1>1. PICK m \in S : \A k \in S : m <= k
    BY Least
  <1>. QED
    BY <1>1, MinIs

\* a value that was read was read from a good stream
LEMMA ExtractType ==
  ASSUME file \in Files, NEW s \in Streams, NEW kind
  PROVE  /\ Extract(s, kind).stream \in Streams
         /\ Extract(s, kind).value \in Nat \cup {Garbage}
         /\ ~Extract(s, kind).stream.fail => Extract(s, kind).value \in Nat
         /\ s.fail \/ s.eof => Extract(s, kind).stream.fail /\ Extract(s, kind).value = Garbage
  <1>. DEFINE rest == {i \in DOMAIN file.text : i > s.pos /\ Kind(i) # "newline"}
              at == Min(rest)
  <1>0. /\ rest \subseteq Nat
        /\ \A i \in rest : i \in Nat /\ i <= Len(file.text) /\ i - 1 \in Nat /\ file.text[i].value \in Nat
    BY TextType
  <1>. HIDE DEF rest
  <1>1. rest # {} => at \in rest
    BY <1>0, MinPicks
  <1>2. rest # {} => /\ at \in Nat /\ at <= Len(file.text) /\ at - 1 \in Nat
                     /\ file.text[at].value \in Nat
    BY <1>0, <1>1
  <1>3. Extract(s, kind) =
          IF s.eof \/ s.fail THEN [stream |-> [s EXCEPT !.fail = TRUE], value |-> Garbage]
          ELSE IF rest = {} THEN [stream |-> [pos |-> Len(file.text), eof |-> TRUE, fail |-> TRUE], value |-> Garbage]
          ELSE IF kind = "number" /\ Kind(at) = "word"
          THEN [stream |-> [pos |-> at - 1, eof |-> FALSE, fail |-> TRUE], value |-> 0]
          ELSE [stream |-> [pos |-> at, eof |-> at = Len(file.text), fail |-> FALSE], value |-> file.text[at].value]
    BY DEF Extract, rest
  <1>. HIDE DEF at
  <1>4. CASE s.eof \/ s.fail
    <2>1. /\ Extract(s, kind).stream = [s EXCEPT !.fail = TRUE]
          /\ Extract(s, kind).value = Garbage
      BY <1>3, <1>4
    <2>2. /\ [s EXCEPT !.fail = TRUE] \in Streams
          /\ [s EXCEPT !.fail = TRUE].fail
      BY DEF Streams, StreamType
    <2>. QED
      BY <2>1, <2>2
  <1>5. CASE ~(s.eof \/ s.fail) /\ rest = {}
    BY <1>3, <1>5, TextType DEF Streams, StreamType
  <1>6. CASE ~(s.eof \/ s.fail) /\ rest # {} /\ kind = "number" /\ Kind(at) = "word"
    BY <1>2, <1>3, <1>6, TextType DEF Streams, StreamType
  <1>7. CASE ~(s.eof \/ s.fail) /\ rest # {} /\ ~(kind = "number" /\ Kind(at) = "word")
    BY <1>2, <1>3, <1>7, TextType DEF Streams, StreamType
  <1>. QED
    BY <1>4, <1>5, <1>6, <1>7

\* the next token that is no end of a line
LEMMA ExtractTakes ==
  ASSUME file \in Files, NEW s \in Streams, Good(s), NEW kind,
         NEW at \in DOMAIN file.text, at > s.pos, Kind(at) # "newline",
         kind = "number" => Kind(at) # "word",
         \A i \in s.pos + 1 .. at - 1 : Kind(i) = "newline"
  PROVE  /\ Extract(s, kind).value = file.text[at].value /\ Extract(s, kind).stream.pos = at
         /\ ~Extract(s, kind).stream.fail /\ (Extract(s, kind).stream.eof <=> at = Len(file.text))
  <1>. DEFINE rest == {i \in DOMAIN file.text : i > s.pos /\ Kind(i) # "newline"}
  <1>1. rest \subseteq Nat /\ at \in rest /\ s.pos \in Nat /\ \A i \in rest : at <= i
    BY TextType DEF Streams, StreamType
  <1>2. Min(rest) = at
    BY <1>1, MinIs
  <1>3. Extract(s, kind) = [stream |-> [pos |-> at, eof |-> at = Len(file.text), fail |-> FALSE],
                            value |-> file.text[at].value]
    BY <1>1, <1>2 DEF Extract, Good
  <1>4. CASE at = Len(file.text)
    <2>1. (at = Len(file.text)) = TRUE
      BY <1>4
    <2>2. Extract(s, kind) = [stream |-> [pos |-> at, eof |-> TRUE, fail |-> FALSE], value |-> file.text[at].value]
      BY <1>3, <2>1, Zenon
    <2>. QED
      BY <1>4, <2>2
  <1>5. CASE at # Len(file.text)
    <2>1. (at = Len(file.text)) = FALSE
      BY <1>5
    <2>2. Extract(s, kind) = [stream |-> [pos |-> at, eof |-> FALSE, fail |-> FALSE], value |-> file.text[at].value]
      BY <1>3, <2>1, Zenon
    <2>. QED
      BY <1>5, <2>2
  <1>. QED
    BY <1>4, <1>5

\* there is none
LEMMA ExtractNone ==
  ASSUME file \in Files, NEW s \in Streams, Good(s), NEW kind,
         \A i \in DOMAIN file.text : i > s.pos => Kind(i) = "newline"
  PROVE  Extract(s, kind).stream.fail /\ Extract(s, kind).value = Garbage
  BY DEF Extract, Good

LEMMA GetLineType ==
  ASSUME file \in Files, NEW s \in Streams
  PROVE  GetLine(s) \in Streams
  <1>. DEFINE ends == {i \in DOMAIN file.text : i > s.pos /\ Kind(i) = "newline"}
  <1>0. ends \subseteq Nat /\ \A i \in ends : i \in Nat /\ i <= Len(file.text)
    BY TextType
  <1>. HIDE DEF ends
  <1>1. ends # {} => Min(ends) \in ends
    BY <1>0, MinPicks
  <1>2. ends # {} => Min(ends) \in Nat /\ Min(ends) <= Len(file.text)
    BY <1>0, <1>1
  <1>3. GetLine(s) = IF s.eof \/ s.fail THEN [s EXCEPT !.fail = TRUE]
                     ELSE IF ends = {} THEN [pos |-> Len(file.text), eof |-> TRUE, fail |-> s.pos = Len(file.text)]
                     ELSE [s EXCEPT !.pos = Min(ends)]
    BY DEF GetLine, ends
  <1>4. CASE s.eof \/ s.fail
    BY <1>3, <1>4 DEF Streams, StreamType
  <1>5. CASE ~(s.eof \/ s.fail) /\ ends = {}
    BY <1>3, <1>5, TextType DEF Streams, StreamType
  <1>6. CASE ~(s.eof \/ s.fail) /\ ends # {}
    BY <1>2, <1>3, <1>6, TextType DEF Streams, StreamType
  <1>. QED
    BY <1>4, <1>5, <1>6

LEMMA FourLinesType ==
  ASSUME file \in Files, NEW s \in Streams
  PROVE  FourLines(s) \in Streams
  BY GetLineType DEF FourLines

\* the next end of a line
LEMMA GetLineTakes ==
  ASSUME file \in Files, NEW s \in Streams, Good(s),
         NEW to \in DOMAIN file.text, to > s.pos, Kind(to) = "newline",
         \A i \in s.pos + 1 .. to - 1 : Kind(i) # "newline"
  PROVE  /\ GetLine(s) = [s EXCEPT !.pos = to]
         /\ GetLine(s) \in Streams /\ GetLine(s).pos = to /\ Good(GetLine(s))
  <1>. DEFINE ends == {i \in DOMAIN file.text : i > s.pos /\ Kind(i) = "newline"}
  <1>1. ends \subseteq Nat /\ to \in ends /\ s.pos \in Nat /\ \A i \in ends : to <= i
    BY TextType DEF Streams, StreamType
  <1>2. Min(ends) = to
    BY <1>1, MinIs
  <1>3. GetLine(s) = [s EXCEPT !.pos = to]
    BY <1>1, <1>2 DEF GetLine, Good
  <1>. QED
    BY <1>3, TextType DEF Streams, StreamType, Good

\* four of them
LEMMA FourLinesTake ==
  ASSUME file \in Files, NEW s \in Streams, Good(s),
         NEW to \in DOMAIN file.text, FourthEnd(file.text, s.pos, to)
  PROVE  FourLines(s) \in Streams /\ FourLines(s).pos = to /\ Good(FourLines(s))
  <1>. DEFINE ends == {i \in s.pos + 1 .. to : Kind(i) = "newline"}
  <1>1. ends = {i \in s.pos + 1 .. to : file.text[i].kind = "newline"}
    BY DEF Kind
  <1>2. to \in ends /\ \E x, y, z \in ends \ {to} : x < y /\ y < z /\ ends = {x, y, z, to}
    BY <1>1 DEF FourthEnd
  <1>3. PICK a, b, c \in ends \ {to} : a < b /\ b < c /\ ends = {a, b, c, to}
    BY <1>2
  <1>4. s.pos \in Nat /\ DOMAIN file.text = 1 .. Len(file.text) /\ Len(file.text) \in Nat
    BY TextType DEF Streams, StreamType
  <1>5. /\ a \in DOMAIN file.text /\ b \in DOMAIN file.text /\ c \in DOMAIN file.text
        /\ s.pos < a /\ a < b /\ b < c /\ c < to
        /\ Kind(a) = "newline" /\ Kind(b) = "newline" /\ Kind(c) = "newline" /\ Kind(to) = "newline"
    <2>1. \A i \in ends : i \in DOMAIN file.text /\ s.pos < i /\ i <= to /\ Kind(i) = "newline"
      BY <1>4
    <2>2. a \in ends /\ b \in ends /\ c \in ends /\ to \in ends /\ c # to /\ a < b /\ b < c
      BY <1>2, <1>3
    <2>. HIDE DEF ends
    <2>3. c < to
      BY <1>4, <2>1, <2>2
    <2>. QED
      BY <2>1, <2>2, <2>3
  <1>6. /\ \A i \in s.pos + 1 .. a - 1 : Kind(i) # "newline"
        /\ \A i \in a + 1 .. b - 1 : Kind(i) # "newline"
        /\ \A i \in b + 1 .. c - 1 : Kind(i) # "newline"
        /\ \A i \in c + 1 .. to - 1 : Kind(i) # "newline"
    <2>1. \A i \in s.pos + 1 .. to : Kind(i) = "newline" => i = a \/ i = b \/ i = c \/ i = to
      BY <1>3
    <2>. HIDE DEF ends
    <2>2. \A i \in s.pos + 1 .. to : i # a /\ i # b /\ i # c /\ i # to => Kind(i) # "newline"
      BY <2>1
    <2>. s.pos \in Nat /\ a \in Nat /\ b \in Nat /\ c \in Nat /\ to \in Nat
      BY <1>4, <1>5
    <2>3. \A i \in s.pos + 1 .. a - 1 : i \in s.pos + 1 .. to /\ i # a /\ i # b /\ i # c /\ i # to
      BY <1>5
    <2>4. \A i \in a + 1 .. b - 1 : i \in s.pos + 1 .. to /\ i # a /\ i # b /\ i # c /\ i # to
      BY <1>5
    <2>5. \A i \in b + 1 .. c - 1 : i \in s.pos + 1 .. to /\ i # a /\ i # b /\ i # c /\ i # to
      BY <1>5
    <2>6. \A i \in c + 1 .. to - 1 : i \in s.pos + 1 .. to /\ i # a /\ i # b /\ i # c /\ i # to
      BY <1>5
    <2>. QED
      BY <2>2, <2>3, <2>4, <2>5, <2>6
  <1>. HIDE DEF ends
  <1>. DEFINE s1 == GetLine(s)
              s2 == GetLine(s1)
              s3 == GetLine(s2)
              s4 == GetLine(s3)
  <1>7. s1 \in Streams /\ s1.pos = a /\ Good(s1)
    BY <1>4, <1>5, <1>6, GetLineTakes
  <1>. HIDE DEF s1
  <1>8. s2 \in Streams /\ s2.pos = b /\ Good(s2)
    BY <1>4, <1>5, <1>6, <1>7, GetLineTakes
  <1>. HIDE DEF s2
  <1>9. s3 \in Streams /\ s3.pos = c /\ Good(s3)
    BY <1>4, <1>5, <1>6, <1>8, GetLineTakes
  <1>. HIDE DEF s3
  <1>10. s4 \in Streams /\ s4.pos = to /\ Good(s4)
    BY <1>4, <1>5, <1>6, <1>9, GetLineTakes
  <1>11. FourLines(s) = s4
    BY DEF FourLines, s1, s2, s3
  <1>. QED
    BY <1>10, <1>11

\* A customer: what the stream and the members are after each of its fields.
Sofars == [stream : Streams, values : Seq(Nat \cup {Garbage})]
Start == [stream |-> stream, values |-> << >>]
Read == FoldLeft(ReadField, Start, Fields)

IsRead(f, q) ==
    f = [T \in SUBSET DOMAIN q |-> IF T = {} THEN Start ELSE ReadField(f[T \ {Max(T)}], q[Max(T)])]
ReadOf(q) == CHOOSE f : IsRead(f, q)
After(k)  == ReadOf(Fields)[1 .. k]

LEMMA ReadIs == Read = ReadOf(Fields)[DOMAIN Fields]
  BY Zenon DEF Read, FoldLeft, MapThenFoldSet, ReadOf, IsRead

LEMMA ReadFieldType ==
  ASSUME file \in Files, NEW r \in Sofars, NEW field
  PROVE  /\ ReadField(r, field) \in Sofars
         /\ Len(ReadField(r, field).values) = Len(r.values) + 1
         /\ ReadField(r, field).values[Len(r.values) + 1] = Extract(r.stream, "number").value
         /\ \A i \in 1 .. Len(r.values) : ReadField(r, field).values[i] = r.values[i]
         /\ ReadField(r, field).stream = Extract(r.stream, "number").stream
  <1>. DEFINE next == Extract(r.stream, "number")
              values == r.values
  <1>1. r.stream \in Streams /\ values \in Seq(Nat \cup {Garbage})
    BY DEF Sofars
  <1>2. next.stream \in Streams /\ next.value \in Nat \cup {Garbage}
    BY <1>1, ExtractType
  <1>3. ReadField(r, field) = [stream |-> next.stream, values |-> Append(values, next.value)]
    BY DEF ReadField
  <1>. HIDE DEF next, values
  <1>4. /\ Append(values, next.value) \in Seq(Nat \cup {Garbage})
        /\ Len(Append(values, next.value)) = Len(values) + 1
        /\ Append(values, next.value)[Len(values) + 1] = next.value
        /\ \A i \in 1 .. Len(values) : Append(values, next.value)[i] = values[i]
    BY <1>1, <1>2
  <1>5. ReadField(r, field) \in Sofars
    BY <1>2, <1>3, <1>4 DEF Sofars
  <1>. QED
    BY <1>3, <1>4, <1>5 DEF values, next

LEMMA ReadSteps ==
  ASSUME file \in Files, stream \in Streams
  PROVE  /\ After(0) = Start /\ Read = After(7)
         /\ \A k \in 0 .. 7 : After(k) \in Sofars
         /\ \A k \in 0 .. 6 : After(k + 1) = ReadField(After(k), Fields[k + 1])
  <1>. DEFINE q == Fields
              Names == {"number", "x", "y", "demand", "readyTime", "dueDate", "serviceTime"}
              step == [r \in Sofars |-> [n \in Names |-> ReadField(r, n)]]
              f == ReadOf(q)
  <1>0. q \in Seq(Names) /\ DOMAIN q = 1 .. Len(q) /\ Len(q) = 7 /\ \A i \in DOMAIN q : q[i] \in Names
    BY DEF Fields
  <1>1. step \in [Sofars -> [Names -> Sofars]]
    BY ReadFieldType
  <1>2. \A r \in Sofars, n \in Names : step[r][n] = ReadField(r, n)
    OBVIOUS
  <1>3. Start \in Sofars
    BY DEF Start, Sofars
  <1>. HIDE DEF step, q, Names
  <1>4. \A T \in SUBSET DOMAIN q : T # {} => Max(T) \in DOMAIN q
    BY <1>0, MaxPicks
  <1>5. IsRead(f, q)
    <2>1. PICK g \in [SUBSET DOMAIN q -> Sofars] : IsLeftFold(g, Start, step, q)
      BY <1>0, <1>1, <1>3, LeftExists, Zenon
    <2>2. \A T \in SUBSET DOMAIN q : T # {} =>
             step[g[T \ {Max(T)}]][q[Max(T)]] = ReadField(g[T \ {Max(T)}], q[Max(T)])
      BY <1>0, <1>2, <1>4
    <2>3. IsRead(g, q)
      BY <2>1, <2>2 DEF IsLeftFold, IsRead
    <2>. QED
      BY <2>3 DEF ReadOf
  <1>. HIDE DEF f
  <1>6. StepsLeft(f, Start, step, q, Sofars)
    <2>1. \A T \in SUBSET DOMAIN q :
             f[T] = IF T = {} THEN Start ELSE ReadField(f[T \ {Max(T)}], q[Max(T)])
      BY <1>5 DEF IsRead
    <2>. QED
      BY <1>0, <1>2, <1>4, <2>1 DEF StepsLeft
  <1>7. FoldsLeft(f, Start, step, q, Sofars)
    BY <1>0, <1>1, <1>3, <1>6, LeftStep, Zenon
  <1>8. ASSUME NEW k \in 0 .. 6
        PROVE  f[1 .. k + 1] = ReadField(f[1 .. k], q[k + 1])
    <2>1. k \in 0 .. Len(q) /\ k + 1 \in DOMAIN q /\ k \in 0 .. Len(q) - 1
      BY <1>0
    <2>. QED
      BY <1>0, <1>2, <1>7, <2>1 DEF FoldsLeft
  <1>9. f[1 .. 0] = Start /\ \A k \in 0 .. 7 : f[1 .. k] \in Sofars
    BY <1>0, <1>7 DEF FoldsLeft
  <1>. QED
    BY <1>0, <1>8, <1>9, ReadIs DEF After, f, q

\* the next number is not there, and never written
NothingLeft == Extract(stream, "number").stream.fail /\ Extract(stream, "number").value = Garbage

\* Whatever there is to read, a customer that leaves the stream without a
\* failure is complete, and one that begins where nothing is left is garbage.
LEMMA CustomerRead ==
  ASSUME file \in Files, stream \in Streams
  PROVE  /\ Read.stream \in Streams
         /\ Read.values \in Seq(Nat \cup {Garbage}) /\ Len(Read.values) = 7
         /\ Good(Read.stream) => Complete(Read.values)
         /\ NothingLeft => Read.stream.fail /\ \A i \in 1 .. 7 : Read.values[i] = Garbage
  <1>. DEFINE P(k) == /\ Len(After(k).values) = k
                      /\ ~After(k).stream.fail => \A i \in 1 .. k : After(k).values[i] \in Nat
                      /\ NothingLeft /\ k > 0 => /\ After(k).stream.fail
                                                /\ \A i \in 1 .. k : After(k).values[i] = Garbage
  <1>1. P(0)
    BY ReadSteps DEF Start
  <1>2. ASSUME NEW k \in 0 .. 6, P(k) PROVE P(k + 1)
    <2>. DEFINE r == After(k)
                next == Extract(r.stream, "number")
                a == After(k + 1)
    <2>1. r \in Sofars /\ a = ReadField(r, Fields[k + 1])
      BY ReadSteps
    <2>2. r.stream \in Streams
      BY <2>1 DEF Sofars
    <2>3. /\ Len(a.values) = k + 1 /\ a.values[k + 1] = next.value /\ a.stream = next.stream
          /\ \A i \in 1 .. k : a.values[i] = r.values[i]
      BY <1>2, <2>1, ReadFieldType
    <2>4. /\ ~next.stream.fail => next.value \in Nat /\ ~r.stream.fail
          /\ r.stream.fail => next.stream.fail /\ next.value = Garbage
      BY <2>2, ExtractType
    <2>5. k = 0 => r.stream = stream
      BY ReadSteps DEF Start
    <2>6. ~a.stream.fail => \A i \in 1 .. k + 1 : a.values[i] \in Nat
      <3>. SUFFICES ASSUME ~a.stream.fail, NEW i \in 1 .. k + 1 PROVE a.values[i] \in Nat
        OBVIOUS
      <3>1. i = k + 1 \/ i \in 1 .. k
        OBVIOUS
      <3>. HIDE DEF a, r, next
      <3>. QED
        BY <1>2, <2>3, <2>4, <3>1 DEF r
    <2>7. NothingLeft => a.stream.fail /\ \A i \in 1 .. k + 1 : a.values[i] = Garbage
      <3>. SUFFICES ASSUME NothingLeft PROVE a.stream.fail /\ \A i \in 1 .. k + 1 : a.values[i] = Garbage
        OBVIOUS
      <3>1. CASE k = 0
        <4>1. next.stream.fail /\ next.value = Garbage
          BY <2>5, <3>1 DEF NothingLeft
        <4>2. \A i \in 1 .. k + 1 : i = k + 1
          BY <3>1
        <4>. QED
          BY <2>3, <4>1, <4>2
      <3>2. CASE k > 0
        <4>1. r.stream.fail /\ \A i \in 1 .. k : r.values[i] = Garbage
          BY <1>2, <3>2
        <4>2. next.stream.fail /\ next.value = Garbage
          BY <2>4, <4>1
        <4>3. \A i \in 1 .. k + 1 : i \in 1 .. k \/ i = k + 1
          OBVIOUS
        <4>. HIDE DEF a, r, next
        <4>. QED
          BY <2>3, <4>1, <4>2, <4>3
      <3>. QED
        BY <3>1, <3>2
    <2>. QED
      BY <2>3, <2>6, <2>7
  <1>. HIDE DEF P
  <1>3. P(7)
    <2>1. P(1)
      BY <1>1, <1>2
    <2>2. P(2)
      BY <1>2, <2>1
    <2>3. P(3)
      BY <1>2, <2>2
    <2>4. P(4)
      BY <1>2, <2>3
    <2>5. P(5)
      BY <1>2, <2>4
    <2>6. P(6)
      BY <1>2, <2>5
    <2>. QED
      BY <1>2, <2>6
  <1>4. Read = After(7) /\ After(7) \in Sofars
    BY ReadSteps
  <1>5. Good(Read.stream) => \A i \in 1 .. 7 : Read.values[i] # Garbage
    BY <1>3, <1>4 DEF P, Good, Garbage
  <1>6. DOMAIN Fields = 1 .. 7
    BY DEF Fields
  <1>7. Good(Read.stream) => Complete(Read.values)
    BY <1>5, <1>6 DEF Complete
  <1>. QED
    BY <1>3, <1>4, <1>7 DEF P, Sofars

\* seven numbers, behind ends of lines, are a customer
LEMMA CustomerTakes ==
  ASSUME file \in Files, stream \in Streams, Good(stream), NEW m \in Nat, stream.pos <= m,
         m + 7 \in DOMAIN file.text,
         \A i \in stream.pos + 1 .. m : Kind(i) = "newline",
         \A j \in 1 .. 7 : Kind(m + j) = "number"
  PROVE  /\ Read.stream.pos = m + 7 /\ ~Read.stream.fail /\ (Read.stream.eof <=> m + 7 = Len(file.text))
         /\ \A j \in 1 .. 7 : Read.values[j] = file.text[m + j].value
  <1>. DEFINE P(k) == /\ After(k).stream.pos = IF k = 0 THEN stream.pos ELSE m + k
                      /\ Good(After(k).stream) /\ Len(After(k).values) = k
                      /\ \A i \in 1 .. k : After(k).values[i] = file.text[m + i].value
  <1>1. P(0)
    <2>1. After(0).stream = stream /\ After(0).values = << >>
      BY ReadSteps DEF Start
    <2>. QED
      BY <2>1
  <1>0. Len(file.text) \in Nat /\ DOMAIN file.text = 1 .. Len(file.text) /\ stream.pos \in Nat
    BY TextType DEF Streams, StreamType
  <1>2. ASSUME NEW k \in 0 .. 6, P(k)
        PROVE  /\ After(k + 1).stream.pos = m + k + 1 /\ ~After(k + 1).stream.fail
               /\ After(k + 1).stream.eof <=> m + k + 1 = Len(file.text)
               /\ Len(After(k + 1).values) = k + 1
               /\ \A i \in 1 .. k + 1 : After(k + 1).values[i] = file.text[m + i].value
    <2>. DEFINE r == After(k)
                next == Extract(r.stream, "number")
                a == After(k + 1)
                at == m + k + 1
    <2>1. r \in Sofars /\ a = ReadField(r, Fields[k + 1])
      BY ReadSteps
    <2>2. r.stream \in Streams
      BY <2>1 DEF Sofars
    <2>0. /\ Len(r.values) = k /\ Good(r.stream) /\ r.stream.pos = IF k = 0 THEN stream.pos ELSE m + k
          /\ \A i \in 1 .. k : r.values[i] = file.text[m + i].value
      BY <1>2
    <2>3. /\ Len(a.values) = k + 1 /\ a.values[k + 1] = next.value /\ a.stream = next.stream
          /\ \A i \in 1 .. k : a.values[i] = r.values[i]
      <3>. HIDE DEF r, a, next
      <3>1. /\ Len(a.values) = Len(r.values) + 1
            /\ a.values[Len(r.values) + 1] = Extract(r.stream, "number").value
            /\ \A i \in 1 .. Len(r.values) : a.values[i] = r.values[i]
            /\ a.stream = Extract(r.stream, "number").stream
        BY <2>1, ReadFieldType
      <3>. QED
        BY <2>0, <3>1 DEF next
    <2>4. at \in DOMAIN file.text /\ at > r.stream.pos /\ Kind(at) = "number"
      <3>1. at = m + (k + 1) /\ k + 1 \in 1 .. 7 /\ at <= m + 7
        OBVIOUS
      <3>2. Kind(at) = "number"
        BY <3>1
      <3>3. at \in DOMAIN file.text
        BY <1>0, <3>1
      <3>4. at > r.stream.pos
        BY <1>0, <2>0
      <3>. QED
        BY <3>2, <3>3, <3>4
    <2>5. \A i \in r.stream.pos + 1 .. at - 1 : Kind(i) = "newline"
      BY <1>0, <2>0
    <2>6. /\ next.value = file.text[at].value /\ next.stream.pos = at
          /\ ~next.stream.fail /\ (next.stream.eof <=> at = Len(file.text))
      <3>. HIDE DEF at, r
      <3>1. Kind(at) # "newline" /\ Kind(at) # "word"
        BY <2>4
      <3>2. Good(r.stream) /\ at \in DOMAIN file.text /\ at > r.stream.pos
        BY <2>0, <2>4
      <3>. QED
        BY <2>2, <2>5, <3>1, <3>2, ExtractTakes
    <2>7. \A i \in 1 .. k + 1 : a.values[i] = file.text[m + i].value
      <3>. SUFFICES ASSUME NEW i \in 1 .. k + 1 PROVE a.values[i] = file.text[m + i].value
        OBVIOUS
      <3>1. i = k + 1 \/ i \in 1 .. k
        OBVIOUS
      <3>2. CASE i = k + 1
        BY <2>3, <2>6, <3>2
      <3>3. CASE i \in 1 .. k
        BY <2>0, <2>3, <3>3
      <3>. QED
        BY <3>1, <3>2, <3>3
    <2>. QED
      BY <2>3, <2>6, <2>7
  <1>3. ASSUME NEW k \in 0 .. 5, P(k) PROVE P(k + 1)
    <2>0. k \in 0 .. 6 /\ m + k + 1 \in Nat /\ m + k + 1 < m + 7
      OBVIOUS
    <2>1. k \in 0 .. 6 /\ m + k + 1 # Len(file.text)
      <3>1. m + 7 <= Len(file.text)
        BY <1>0
      <3>. QED
        BY <2>0, <3>1
    <2>2. After(k + 1).stream.pos = m + (k + 1) /\ k + 1 # 0
      <3>1. After(k + 1).stream.pos = m + k + 1
        BY <1>2, <1>3, <2>1
      <3>2. m + k + 1 = m + (k + 1) /\ k + 1 # 0
        OBVIOUS
      <3>. QED
        BY <3>1, <3>2
    <2>3. Good(After(k + 1).stream)
      BY <1>2, <1>3, <2>1 DEF Good
    <2>. QED
      BY <1>2, <1>3, <2>1, <2>2, <2>3
  <1>. HIDE DEF P
  <1>4. P(6)
    <2>1. P(1)
      BY <1>1, <1>3
    <2>2. P(2)
      BY <1>3, <2>1
    <2>3. P(3)
      BY <1>3, <2>2
    <2>4. P(4)
      BY <1>3, <2>3
    <2>5. P(5)
      BY <1>3, <2>4
    <2>. QED
      BY <1>3, <2>5
  <1>5. /\ After(7).stream.pos = m + 7 /\ ~After(7).stream.fail
        /\ After(7).stream.eof <=> m + 7 = Len(file.text)
        /\ \A i \in 1 .. 7 : After(7).values[i] = file.text[m + i].value
    <2>1. m + 6 + 1 = m + 7 /\ 6 + 1 = 7 /\ 6 \in 0 .. 6
      OBVIOUS
    <2>. QED
      BY <1>2, <1>4, <2>1
  <1>. QED
    BY <1>5, ReadSteps

\* where the parts of a benchmark are
BenchAt(head, base, first) ==
    LET text == file.text
    IN  /\ head \in DOMAIN text /\ head + 2 \in DOMAIN text
        /\ base \in head + 2 .. Len(text) /\ first \in base .. Len(text)
        /\ text[1].kind # "newline" /\ FourthEnd(text, 1, head)
        /\ text[head + 1] = [kind |-> "number", value |-> file.vehicles]
        /\ text[head + 2] = [kind |-> "number", value |-> file.capacity]
        /\ FourthEnd(text, head + 2, base) /\ LinesFrom(file, base, first)

LEMMA BenchPlaces ==
  ASSUME file \in Files, file.benchmark, NEW head \in Nat, NEW base \in Nat, NEW first \in Nat,
         BenchAt(head, base, first)
  PROVE  /\ Len(file.text) \in Nat /\ DOMAIN file.text = 1 .. Len(file.text)
         /\ file.vehicles \in Nat /\ file.capacity \in Nat
         /\ file.customers \in Seq([1 .. 7 -> Nat])
         /\ Len(file.customers) \in Nat /\ Len(file.customers) > 0
         /\ 1 <= head /\ head + 2 < base /\ base <= first /\ first + 8 * Len(file.customers) - 1 <= Len(file.text)
         /\ 1 < head /\ base < Len(file.text)
         /\ Kind(1) # "newline" /\ Kind(head + 1) = "number" /\ Kind(head + 2) = "number"
         /\ file.text[head + 1].value = file.vehicles /\ file.text[head + 2].value = file.capacity
         /\ FourthEnd(file.text, 1, head) /\ FourthEnd(file.text, head + 2, base)
         /\ LinesFrom(file, base, first)
  <1>1. Len(file.text) \in Nat /\ DOMAIN file.text = 1 .. Len(file.text)
    BY TextType
  <1>2. /\ file.vehicles \in Nat /\ file.capacity \in Nat
        /\ file.customers \in Seq([1 .. 7 -> Nat]) /\ file.customers # << >>
    BY FilesAssumption DEF IsBenchmark
  <1>3. Len(file.customers) \in Nat /\ Len(file.customers) > 0
    <2>. DEFINE c == file.customers
                A == [1 .. 7 -> Nat]
    <2>1. c \in Seq(A) /\ c # << >>
      BY <1>2
    <2>. HIDE DEF c, A
    <2>2. Len(c) \in Nat /\ Len(c) > 0
      BY <2>1
    <2>. QED
      BY <2>2 DEF c
  <1>4. /\ head \in DOMAIN file.text /\ base \in head + 2 .. Len(file.text) /\ first \in base .. Len(file.text)
        /\ file.text[1].kind # "newline"
        /\ file.text[head + 1] = [kind |-> "number", value |-> file.vehicles]
        /\ file.text[head + 2] = [kind |-> "number", value |-> file.capacity]
        /\ FourthEnd(file.text, 1, head) /\ FourthEnd(file.text, head + 2, base)
        /\ LinesFrom(file, base, first)
    BY Zenon DEF BenchAt
  <1>5. /\ Kind(1) # "newline" /\ Kind(head + 1) = "number" /\ Kind(head + 2) = "number"
        /\ file.text[head + 1].value = file.vehicles /\ file.text[head + 2].value = file.capacity
    BY <1>4 DEF Kind
  <1>6. base \in head + 2 + 1 .. base
    BY <1>4 DEF FourthEnd
  <1>7. first + 8 * Len(file.customers) - 1 \in DOMAIN file.text
    BY <1>4 DEF LinesFrom
  <1>8. 1 <= head /\ head + 2 < base /\ base <= first /\ first + 8 * Len(file.customers) - 1 <= Len(file.text)
    BY <1>1, <1>3, <1>4, <1>6, <1>7
  <1>9. 1 < head /\ base < Len(file.text)
    <2>1. head \in 1 + 1 .. head
      BY <1>4 DEF FourthEnd
    <2>. QED
      BY <1>1, <1>3, <1>8, <2>1
  <1>. QED
    BY <1>1, <1>2, <1>3, <1>4, <1>5, <1>8, <1>9

\* how far the loader is: the first m customers are those of the file
CustomersAre(m) ==
    /\ m <= Len(customers) /\ m <= Len(file.customers)
    /\ \A i \in 1 .. m, j \in 1 .. 7 : customers[i][j] = file.customers[i][j]

\* all of them were read, and behind the end of the last line one that is not
\* there
AllCustomers ==
    LET n == Len(file.customers)
        ended == Kind(Len(file.text)) = "newline"
    IN  /\ CustomersAre(n)
        /\ Len(customers) = IF ended THEN n + 1 ELSE n
        /\ ended => \A j \in 1 .. 7 : customers[n + 1][j] = Garbage

Reading(head, base, first) ==
    /\ benchPc = "name" => stream.pos = 0 /\ Good(stream)
    /\ benchPc = "vehicles" => stream.pos = head /\ Good(stream)
    /\ benchPc \in {"customers", "build", "done"} =>
          venchilesNumber = file.vehicles /\ venchilesCapacity = file.capacity
    /\ benchPc = "customers" =>
          \/ /\ CustomersAre(Len(customers)) /\ ~stream.fail /\ (stream.eof <=> stream.pos = Len(file.text))
             /\ stream.pos = IF Len(customers) = 0 THEN base ELSE first + 8 * Len(customers) - 1
          \/ stream.fail /\ AllCustomers
    /\ benchPc \in {"build", "done"} => AllCustomers
    /\ benchPc = "done" =>
          /\ venchiles = [i \in 1 .. venchilesNumber |-> venchilesCapacity]
          /\ benchTasks = BenchTasks
    /\ benchPc # "undefined"

BenchInv ==
    /\ file \in Files /\ stream \in Streams
    /\ customers \in Seq(Seq(Nat \cup {Garbage}))
    /\ benchPc \in {"name", "vehicles"} => customers = << >>
    /\ benchPc = "customers" /\ Good(stream) => \A i \in 1 .. Len(customers) : Complete(customers[i])
    /\ OneBrokenCustomer
    /\ file.benchmark => \E head, base, first \in Nat : BenchAt(head, base, first) /\ Reading(head, base, first)

LEMMA BenchBegins == BenchInit => BenchInv
  <1>. SUFFICES ASSUME BenchInit PROVE BenchInv
    OBVIOUS
  <1>. USE DEF BenchInit
  <1>1. file \in Files /\ stream \in Streams /\ Good(stream) /\ stream.pos = 0
    <2>1. file \in Files /\ stream = [pos |-> 0, eof |-> FALSE, fail |-> FALSE]
      OBVIOUS
    <2>. QED
      BY <2>1, TextType DEF Streams, StreamType, Good
  <1>2. customers = << >> /\ benchPc = "name" /\ OneBrokenCustomer
    BY DEF OneBrokenCustomer
  <1>3. ASSUME file.benchmark
        PROVE  \E head, base, first \in Nat : BenchAt(head, base, first) /\ Reading(head, base, first)
    <2>1. IsBenchmark(file)
      BY <1>1, <1>3, FilesAssumption
    <2>2. PICK head \in DOMAIN file.text :
             /\ FourthEnd(file.text, 1, head) /\ head + 2 \in DOMAIN file.text
             /\ file.text[head + 1] = [kind |-> "number", value |-> file.vehicles]
             /\ file.text[head + 2] = [kind |-> "number", value |-> file.capacity]
             /\ \E base \in head + 2 .. Len(file.text) :
                  /\ FourthEnd(file.text, head + 2, base)
                  /\ \E first \in base .. Len(file.text) : LinesFrom(file, base, first)
      BY <2>1 DEF IsBenchmark
    <2>3. PICK base \in head + 2 .. Len(file.text) :
             /\ FourthEnd(file.text, head + 2, base)
             /\ \E first \in base .. Len(file.text) : LinesFrom(file, base, first)
      BY <2>2
    <2>4. PICK first \in base .. Len(file.text) : LinesFrom(file, base, first)
      BY <2>3
    <2>5. head \in Nat /\ base \in Nat /\ first \in Nat
      BY <1>1, TextType
    <2>6. file.text[1].kind # "newline"
      BY <2>1 DEF IsBenchmark
    <2>7. BenchAt(head, base, first)
      BY <2>2, <2>3, <2>4, <2>6, Zenon DEF BenchAt
    <2>8. Reading(head, base, first)
      BY <1>1, <1>2 DEF Reading
    <2>. QED
      BY <2>5, <2>7, <2>8
  <1>. QED
    BY <1>1, <1>2, <1>3 DEF BenchInv

\* the first word and four lines are the beginning of a benchmark
LEMMA NameKeeps == ASSUME BenchInv, ReadName PROVE BenchInv'
  <1>. USE DEF BenchInv
  <1>. DEFINE word == Extract(stream, "word").stream
  <1>1. /\ benchPc = "name" /\ stream' = FourLines(word) /\ benchPc' = "vehicles"
        /\ UNCHANGED <<file, venchilesNumber, venchilesCapacity, customers, venchiles, benchTasks, points>>
    BY DEF ReadName
  <1>2. word \in Streams
    BY ExtractType
  <1>. HIDE DEF word
  <1>3. stream' \in Streams /\ Streams' = Streams
    BY <1>1, <1>2, FourLinesType DEF Streams
  <1>4. OneBrokenCustomer'
    BY <1>1 DEF OneBrokenCustomer, Complete
  <1>5. ASSUME file.benchmark
        PROVE  \E head, base, first \in Nat : BenchAt(head, base, first)' /\ Reading(head, base, first)'
    <2>1. PICK head, base, first \in Nat : BenchAt(head, base, first) /\ Reading(head, base, first)
      BY <1>5
    <2>2. Good(stream) /\ stream.pos = 0
      BY <1>1, <2>1 DEF Reading
    <2>3. /\ 1 \in DOMAIN file.text /\ head \in DOMAIN file.text /\ 1 # Len(file.text)
          /\ Kind(1) # "newline" /\ FourthEnd(file.text, 1, head)
      <3>1. /\ Len(file.text) \in Nat /\ DOMAIN file.text = 1 .. Len(file.text)
            /\ 1 < head /\ head + 2 < base /\ base < Len(file.text)
            /\ Kind(1) # "newline" /\ FourthEnd(file.text, 1, head)
        BY <1>5, <2>1, BenchPlaces
      <3>2. \A t \in Nat : 1 < head /\ head + 2 < base /\ base < t => 1 \in 1 .. t /\ head \in 1 .. t /\ 1 # t
        OBVIOUS
      <3>. QED
        BY <3>1, <3>2
    <2>4. /\ word.pos = 1 /\ ~word.fail /\ ~word.eof
      <3>1. PICK at \in DOMAIN file.text : at = 1
        BY <2>3
      <3>2. /\ at > stream.pos /\ Kind(at) # "newline" /\ ("word" = "number" => Kind(at) # "word")
            /\ \A i \in stream.pos + 1 .. at - 1 : Kind(i) = "newline"
        BY <2>2, <2>3, <3>1
      <3>3. file \in Files /\ stream \in Streams /\ Good(stream)
        BY <2>2
      <3>. HIDE DEF BenchInv
      <3>4. word.pos = at /\ ~word.fail /\ (word.eof <=> at = Len(file.text))
        BY <3>2, <3>3, ExtractTakes DEF word
      <3>. QED
        BY <2>3, <3>1, <3>4
    <2>5. stream'.pos = head /\ Good(stream')
      BY <1>1, <1>2, <2>3, <2>4, FourLinesTake DEF Good
    <2>6. BenchAt(head, base, first)'
      BY <1>1, <2>1 DEF BenchAt
    <2>7. Reading(head, base, first)'
      BY <1>1, <2>5 DEF Reading
    <2>. QED
      BY <2>6, <2>7
  <1>. QED
    BY <1>1, <1>3, <1>4, <1>5

\* the two numbers and four lines
LEMMA VehiclesKeep == ASSUME BenchInv, ReadVehicles PROVE BenchInv'
  <1>. USE DEF BenchInv
  <1>. DEFINE number == Extract(stream, "number")
              capacity == Extract(number.stream, "number")
  <1>1. /\ benchPc = "vehicles" /\ benchPc' = "customers"
        /\ venchilesNumber' = number.value /\ venchilesCapacity' = capacity.value
        /\ stream' = FourLines(capacity.stream)
        /\ UNCHANGED <<file, customers, venchiles, benchTasks, points>>
    BY DEF ReadVehicles
  <1>2. number.stream \in Streams
    BY ExtractType
  <1>3. capacity.stream \in Streams
    BY <1>2, ExtractType
  <1>4. stream' \in Streams /\ Streams' = Streams
    BY <1>1, <1>3, FourLinesType DEF Streams
  <1>5. OneBrokenCustomer' /\ customers = << >>
    BY <1>1 DEF OneBrokenCustomer, Complete
  <1>6. ASSUME file.benchmark
        PROVE  \E head, base, first \in Nat : BenchAt(head, base, first)' /\ Reading(head, base, first)'
    <2>1. PICK head, base, first \in Nat : BenchAt(head, base, first) /\ Reading(head, base, first)
      BY <1>6
    <2>2. Good(stream) /\ stream.pos = head
      BY <1>1, <2>1 DEF Reading
    <2>3. /\ head + 1 \in DOMAIN file.text /\ head + 2 \in DOMAIN file.text /\ base \in DOMAIN file.text
          /\ head + 1 # Len(file.text) /\ head + 2 # Len(file.text) /\ base # Len(file.text)
          /\ Kind(head + 1) = "number" /\ Kind(head + 2) = "number"
          /\ file.text[head + 1].value = file.vehicles /\ file.text[head + 2].value = file.capacity
          /\ FourthEnd(file.text, head + 2, base)
      <3>1. /\ Len(file.text) \in Nat /\ DOMAIN file.text = 1 .. Len(file.text)
            /\ 1 < head /\ head + 2 < base /\ base < Len(file.text)
        BY <1>6, <2>1, BenchPlaces
      <3>3. /\ head + 1 \in 1 .. Len(file.text) /\ head + 2 \in 1 .. Len(file.text) /\ base \in 1 .. Len(file.text)
            /\ head + 1 # Len(file.text) /\ head + 2 # Len(file.text) /\ base # Len(file.text)
        BY <3>1
      <3>2. /\ Kind(head + 1) = "number" /\ Kind(head + 2) = "number"
            /\ file.text[head + 1].value = file.vehicles /\ file.text[head + 2].value = file.capacity
            /\ FourthEnd(file.text, head + 2, base)
        BY <1>6, <2>1, BenchPlaces
      <3>. QED
        BY <3>1, <3>2, <3>3
    <2>6. number.value = file.vehicles /\ number.stream.pos = head + 1 /\ Good(number.stream)
      <3>1. \A i \in stream.pos + 1 .. (head + 1) - 1 : Kind(i) = "newline"
        BY <2>2
      <3>2. head + 1 > stream.pos /\ Kind(head + 1) # "newline" /\ Kind(head + 1) # "word"
        <4>1. "number" # "newline" /\ "number" # "word" /\ head + 1 > head
          OBVIOUS
        <4>. QED
          BY <2>2, <2>3, <4>1
      <3>. QED
        <4>1. /\ number.value = file.text[head + 1].value /\ number.stream.pos = head + 1
              /\ ~number.stream.fail /\ (number.stream.eof <=> head + 1 = Len(file.text))
          BY <2>2, <2>3, <3>1, <3>2, ExtractTakes
        <4>. QED
          BY <2>3, <4>1 DEF Good
    <2>. HIDE DEF number
    <2>7. capacity.value = file.capacity /\ capacity.stream.pos = head + 2 /\ Good(capacity.stream)
      <3>1. \A i \in number.stream.pos + 1 .. (head + 2) - 1 : Kind(i) = "newline"
        BY <2>6
      <3>2. head + 2 > number.stream.pos /\ Kind(head + 2) # "newline" /\ Kind(head + 2) # "word"
        BY <2>3, <2>6
      <3>. QED
        <4>1. head + 2 \in DOMAIN file.text /\ number.stream \in Streams /\ Good(number.stream)
          BY <1>2, <2>3, <2>6
        <4>. QED
          <5>1. /\ capacity.value = file.text[head + 2].value /\ capacity.stream.pos = head + 2
                /\ ~capacity.stream.fail /\ (capacity.stream.eof <=> head + 2 = Len(file.text))
            BY <3>1, <3>2, <4>1, ExtractTakes
          <5>. QED
            BY <2>3, <5>1 DEF Good
    <2>. HIDE DEF capacity
    <2>8. stream'.pos = base /\ Good(stream')
      BY <1>1, <1>3, <2>3, <2>7, FourLinesTake
    <2>9. BenchAt(head, base, first)'
      BY <1>1, <2>1 DEF BenchAt
    <2>10. CustomersAre(0)'
      BY <1>1, <1>5, <1>6, FilesAssumption DEF CustomersAre
    <2>11. Reading(head, base, first)'
      BY <1>1, <1>5, <2>3, <2>6, <2>7, <2>8, <2>10 DEF Reading, Good
    <2>. QED
      BY <2>9, <2>11
  <1>. QED
    BY <1>1, <1>4, <1>5, <1>6

\* a line of a benchmark is the next customer; behind the last line there is none
LEMMA CustomerKeeps == ASSUME BenchInv, ReadCustomer PROVE BenchInv'
  <1>. USE DEF BenchInv
  <1>. DEFINE values == Read.values
  <1>1. /\ benchPc = "customers" /\ Good(stream) /\ stream' = Read.stream /\ customers' = Append(customers, values)
        /\ UNCHANGED <<file, benchPc, venchilesNumber, venchilesCapacity, venchiles, benchTasks, points>>
    BY DEF ReadCustomer, Read, Start
  <1>2. /\ stream' \in Streams /\ Streams' = Streams
        /\ values \in Seq(Nat \cup {Garbage}) /\ Len(values) = 7
        /\ Good(stream') => Complete(values)
        /\ NothingLeft => stream'.fail /\ \A j \in 1 .. 7 : values[j] = Garbage
    BY <1>1, CustomerRead DEF Streams
  <1>. HIDE DEF values
  <1>3. PICK k \in Nat :
          /\ k = Len(customers) /\ Len(customers') = k + 1 /\ customers' \in Seq(Seq(Nat \cup {Garbage}))
          /\ customers'[k + 1] = values /\ \A i \in 1 .. k : customers'[i] = customers[i]
    <2>. DEFINE S == Seq(Nat \cup {Garbage})
    <2>1. customers \in Seq(S) /\ values \in S /\ customers' = Append(customers, values)
      BY <1>1, <1>2
    <2>. HIDE DEF S
    <2>2. /\ customers' \in Seq(S) /\ Len(customers) \in Nat /\ Len(customers') = Len(customers) + 1
          /\ customers'[Len(customers) + 1] = values
          /\ \A i \in 1 .. Len(customers) : customers'[i] = customers[i]
      BY <2>1
    <2>. QED
      BY <2>2 DEF S
  <1>4. \A i \in 1 .. k : Complete(customers'[i])
    BY <1>1, <1>3
  <1>5. OneBrokenCustomer'
    <2>1. \A i \in 1 .. Len(customers') - 1 : i \in 1 .. k
      BY <1>3
    <2>. QED
      BY <1>4, <2>1 DEF OneBrokenCustomer, Complete
  <1>6. Good(stream)' => \A i \in 1 .. Len(customers') : Complete(customers'[i])
    <2>1. \A i \in 1 .. Len(customers') : i \in 1 .. k \/ i = k + 1
      BY <1>3
    <2>2. Good(stream') => Complete(customers'[k + 1])
      BY <1>2, <1>3
    <2>. QED
      BY <1>4, <2>1, <2>2 DEF Good
  <1>7. ASSUME file.benchmark
        PROVE  \E head, base, first \in Nat : BenchAt(head, base, first)' /\ Reading(head, base, first)'
    <2>1. PICK head, base, first \in Nat : BenchAt(head, base, first) /\ Reading(head, base, first)
      BY <1>7
    <2>2. PICK n, total \in Nat :
            /\ n = Len(file.customers) /\ total = Len(file.text) /\ DOMAIN file.text = 1 .. total /\ n > 0
            /\ base <= first /\ first + 8 * n - 1 <= total /\ LinesFrom(file, base, first)
      BY <1>7, <2>1, BenchPlaces
    <2>. DEFINE from == IF k = 0 THEN base ELSE first + 8 * k - 1
    <2>3. /\ CustomersAre(k) /\ ~stream.fail /\ (stream.eof <=> stream.pos = total) /\ stream.pos = from
      BY <1>1, <1>3, <2>1, <2>2 DEF Reading, Good
    <2>4. k <= n /\ stream.pos \in Nat /\ from # total
      BY <1>1, <2>2, <2>3 DEF CustomersAre, Streams, StreamType, Good
    <2>5. /\ \A i \in 1 .. total : i \in base + 1 .. first \/ i >= first + 8 * n => Kind(i) = "newline"
          /\ \A i \in 1 .. n - 1 : Kind(first + 8 * i) = "newline"
          /\ \A i \in 1 .. n, j \in 1 .. 7 :
                /\ Kind(first + 8 * (i - 1) + j) = "number"
                /\ file.text[first + 8 * (i - 1) + j].value = file.customers[i][j]
      <3>1. /\ \A i \in DOMAIN file.text :
                  i \in base + 1 .. first \/ i >= first + 8 * Len(file.customers) => file.text[i].kind = "newline"
            /\ \A i \in 1 .. Len(file.customers) - 1 : file.text[first + 8 * i].kind = "newline"
            /\ \A i \in 1 .. Len(file.customers), j \in 1 .. 7 :
                  file.text[first + 8 * (i - 1) + j] = [kind |-> "number", value |-> file.customers[i][j]]
        BY <2>2, Zenon DEF LinesFrom
      <3>2. ASSUME NEW i \in 1 .. n, NEW j \in 1 .. 7
            PROVE  /\ Kind(first + 8 * (i - 1) + j) = "number"
                   /\ file.text[first + 8 * (i - 1) + j].value = file.customers[i][j]
        <4>1. file.text[first + 8 * (i - 1) + j] = [kind |-> "number", value |-> file.customers[i][j]]
          BY <2>2, <3>1
        <4>. QED
          BY <4>1 DEF Kind
      <3>3. \A i \in 1 .. n - 1 : Kind(first + 8 * i) = "newline"
        BY <2>2, <3>1 DEF Kind
      <3>4. \A i \in 1 .. total : i \in base + 1 .. first \/ i >= first + 8 * n => Kind(i) = "newline"
        BY <2>2, <3>1 DEF Kind
      <3>. QED
        BY <3>2, <3>3, <3>4
    <2>. HIDE DEF from
    <2>6. CASE k < n
      <3>. DEFINE m == first + 8 * k
      <3>1. k + 1 \in 1 .. n /\ (k + 1) - 1 = k /\ first + 8 * ((k + 1) - 1) = m
        BY <2>6
      <3>2. m \in Nat /\ from <= m /\ m + 7 \in 1 .. total /\ (k > 0 => k \in 1 .. n - 1)
        <4>0. k <= n - 1 /\ 8 * k <= 8 * n - 8
          BY <2>2, <2>6
        <4>9. base <= first /\ first + 8 * n - 1 <= total
          BY <2>2
        <4>1. first + 8 * k + 7 <= total /\ base <= first + 8 * k
          BY <4>0, <4>9
        <4>2. m \in Nat /\ m + 7 \in 1 .. total /\ (k > 0 => k \in 1 .. n - 1)
          BY <4>0, <4>1
        <4>3. CASE k = 0
          BY <4>1, <4>2, <4>3 DEF from
        <4>4. CASE k # 0
          BY <4>1, <4>2, <4>4 DEF from
        <4>. QED
          BY <4>3, <4>4
      <3>3. \A i \in from + 1 .. m : Kind(i) = "newline"
        <4>1. CASE k = 0
          <5>1. \A i \in from + 1 .. m : i \in 1 .. total /\ i \in base + 1 .. first
            BY <2>2, <3>2, <4>1 DEF from
          <5>. QED
            BY <2>5, <5>1
        <4>2. CASE k # 0
          <5>1. \A i \in from + 1 .. m : i = first + 8 * k
            BY <4>2 DEF from
          <5>2. Kind(first + 8 * k) = "newline"
            BY <2>5, <3>2, <4>2
          <5>. QED
            BY <5>1, <5>2
        <4>. QED
          BY <4>1, <4>2
      <3>4. \A j \in 1 .. 7 : Kind(m + j) = "number" /\ file.text[m + j].value = file.customers[k + 1][j]
        <4>1. \A j \in 1 .. 7 : /\ Kind(first + 8 * ((k + 1) - 1) + j) = "number"
                              /\ file.text[first + 8 * ((k + 1) - 1) + j].value = file.customers[k + 1][j]
          BY <2>5, <3>1
        <4>. QED
          BY <3>1, <4>1
      <3>. HIDE DEF m
      <3>5. /\ stream'.pos = m + 7 /\ ~stream'.fail /\ (stream'.eof <=> m + 7 = total)
            /\ \A j \in 1 .. 7 : values[j] = file.text[m + j].value
        BY <1>1, <2>2, <2>3, <3>2, <3>3, <3>4, CustomerTakes DEF values
      <3>6. ASSUME NEW i \in 1 .. k + 1, NEW j \in 1 .. 7
            PROVE  customers'[i][j] = file.customers[i][j]
        <4>1. CASE i = k + 1
          BY <1>3, <3>4, <3>5, <4>1
        <4>2. CASE i # k + 1
          <5>1. i \in 1 .. k
            BY <4>2
          <5>. QED
            <6>1. customers'[i] = customers[i]
              BY <1>3, <5>1
            <6>2. customers[i][j] = file.customers[i][j]
              BY <2>3, <5>1 DEF CustomersAre
            <6>. QED
              BY <6>1, <6>2
        <4>. QED
          BY <4>1, <4>2
      <3>7. CustomersAre(Len(customers))'
        <4>1. Len(customers') <= Len(customers') /\ Len(customers') <= Len(file'.customers)
          BY <1>1, <1>3, <2>2, <2>6
        <4>2. \A i \in 1 .. Len(customers'), j \in 1 .. 7 : customers'[i][j] = file'.customers[i][j]
          BY <1>1, <1>3, <3>6
        <4>. QED
          BY <4>1, <4>2, Zenon DEF CustomersAre
      <3>8. stream'.pos = IF Len(customers') = 0 THEN base ELSE first + 8 * Len(customers') - 1
        <4>1. Len(customers') # 0 /\ first + 8 * (k + 1) - 1 = m + 7
          BY <1>3 DEF m
        <4>. QED
          BY <1>3, <3>5, <4>1
      <3>9. stream'.eof <=> stream'.pos = Len(file.text)
        BY <2>2, <3>5
      <3>10. Reading(head, base, first)'
        BY <1>1, <2>1, <3>5, <3>7, <3>8, <3>9 DEF Reading
      <3>11. BenchAt(head, base, first)'
        BY <1>1, <2>1 DEF BenchAt
      <3>. QED
        BY <3>10, <3>11
    <2>7. CASE ~(k < n)
      <3>1. k = n /\ from = first + 8 * n - 1 /\ from < total
        <4>1. k = n
          BY <2>4, <2>7
        <4>2. from = first + 8 * n - 1
          BY <2>2, <4>1 DEF from
        <4>. QED
          <5>1. first + 8 * n - 1 <= total /\ first + 8 * n - 1 # total
            BY <2>2, <2>4, <4>2
          <5>2. first + 8 * n - 1 < total
            BY <5>1
          <5>. QED
            BY <4>1, <4>2, <5>2
      <3>2. \A i \in 1 .. total : i > from => Kind(i) = "newline"
        <4>1. \A i \in 1 .. total : i > from => i >= first + 8 * n
          BY <3>1
        <4>. QED
          BY <2>5, <4>1
      <3>3. stream'.fail /\ \A j \in 1 .. 7 : values[j] = Garbage
        <4>1. NothingLeft
          BY <1>1, <2>2, <2>3, <3>2, ExtractNone DEF NothingLeft
        <4>. QED
          BY <1>2, <4>1
      <3>4. n <= Len(customers') /\ \A i \in 1 .. n, j \in 1 .. 7 : customers'[i][j] = file.customers[i][j]
        <4>1. n <= Len(customers') /\ \A i \in 1 .. n : i \in 1 .. k
          BY <1>3, <3>1
        <4>2. \A i \in 1 .. n : customers'[i] = customers[i]
          BY <1>3, <4>1
        <4>3. \A i \in 1 .. n, j \in 1 .. 7 : customers[i][j] = file.customers[i][j]
          BY <2>3, <4>1 DEF CustomersAre
        <4>. QED
          BY <4>1, <4>2, <4>3
      <3>5. Kind(total) = "newline"
        BY <2>2, <3>1, <3>2
      <3>6. AllCustomers'
        <4>1. CustomersAre(Len(file.customers))'
          <5>1. /\ Len(file'.customers) <= Len(customers') /\ Len(file'.customers) <= Len(file'.customers)
                /\ \A i \in 1 .. Len(file'.customers), j \in 1 .. 7 : customers'[i][j] = file'.customers[i][j]
            <6>1. file' = file /\ Len(file'.customers) = n
              BY <1>1, <2>2
            <6>. QED
              BY <3>4, <6>1
          <5>. QED
            BY <5>1, Zenon DEF CustomersAre
        <4>2. Len(customers') = n + 1 /\ \A j \in 1 .. 7 : customers'[n + 1][j] = Garbage
          BY <1>3, <3>1, <3>3
        <4>. QED
          BY <1>1, <2>2, <3>5, <4>1, <4>2 DEF AllCustomers, Kind
      <3>7. Reading(head, base, first)'
        BY <1>1, <2>1, <3>3, <3>6 DEF Reading
      <3>8. BenchAt(head, base, first)'
        BY <1>1, <2>1 DEF BenchAt
      <3>. QED
        BY <3>7, <3>8
    <2>. QED
      BY <2>6, <2>7
  <1>. QED
    BY <1>1, <1>2, <1>3, <1>5, <1>6, <1>7

\* the loop ends behind the last line
LEMMA EndKeepsBench == ASSUME BenchInv, EndOfCustomers PROVE BenchInv'
  <1>. USE DEF BenchInv
  <1>1. /\ benchPc = "customers" /\ ~Good(stream) /\ benchPc' = "build"
        /\ UNCHANGED <<file, stream, venchilesNumber, venchilesCapacity, customers, venchiles, benchTasks, points>>
    BY DEF EndOfCustomers
  <1>2. ASSUME file.benchmark
        PROVE  \E head, base, first \in Nat : BenchAt(head, base, first)' /\ Reading(head, base, first)'
    <2>1. PICK head, base, first \in Nat : BenchAt(head, base, first) /\ Reading(head, base, first)
      BY <1>2
    <2>. DEFINE n == Len(file.customers)
                total == Len(file.text)
                k == Len(customers)
    <2>2. /\ total \in Nat /\ n \in Nat /\ n > 0 /\ base <= first /\ first + 8 * n - 1 <= total
          /\ base < total /\ k \in Nat
      <3>1. /\ total \in Nat /\ n \in Nat /\ n > 0 /\ base <= first /\ first + 8 * n - 1 <= total
        BY <1>2, <2>1, BenchPlaces
      <3>2. base < total
        BY <3>1
      <3>. QED
        BY <3>1, <3>2
    <2>3. AllCustomers
      <3>. SUFFICES ASSUME /\ CustomersAre(k) /\ ~stream.fail /\ (stream.eof <=> stream.pos = total)
                           /\ stream.pos = IF k = 0 THEN base ELSE first + 8 * k - 1
                    PROVE  AllCustomers
        BY <1>1, <2>1 DEF Reading
      <3>1. stream.pos = total
        BY <1>1 DEF Good
      <3>2. k <= n
        BY DEF CustomersAre
      <3>3. LinesFrom(file, base, first)
        BY <1>2, <2>1, BenchPlaces
      <3>4. ASSUME NEW i \in 1 .. n, NEW j \in 1 .. 7
            PROVE  Kind(first + 8 * (i - 1) + j) = "number"
        <4>1. file.text[first + 8 * (i - 1) + j] = [kind |-> "number", value |-> file.customers[i][j]]
          BY <3>3, Zenon DEF LinesFrom
        <4>. QED
          BY <4>1 DEF Kind
      <3>5. CustomersAre(k)
        OBVIOUS
      <3>. HIDE DEF n, total, k
      <3>6. k = n /\ total = first + 8 * n - 1
        BY <2>2, <3>1, <3>2
      <3>7. n \in 1 .. n /\ 7 \in 1 .. 7 /\ first + 8 * (n - 1) + 7 = total
        BY <2>2, <3>6
      <3>8. Kind(total) = "number"
        BY <3>4, <3>7
      <3>. QED
        BY <3>5, <3>6, <3>8 DEF AllCustomers, n, total, k
    <2>4. Reading(head, base, first)'
      BY <1>1, <2>1, <2>3 DEF Reading, AllCustomers, CustomersAre, Kind
    <2>5. BenchAt(head, base, first)'
      BY <1>1, <2>1 DEF BenchAt
    <2>. QED
      BY <2>4, <2>5
  <1>3. OneBrokenCustomer' /\ Streams' = Streams
    BY <1>1 DEF OneBrokenCustomer, Complete, Streams
  <1>. QED
    BY <1>1, <1>2, <1>3

\* the problem is made of what was read
LEMMA BuildKeeps == ASSUME BenchInv, Build PROVE BenchInv'
  <1>. USE DEF BenchInv
  <1>1. /\ benchPc = "build" /\ benchPc' \in {"undefined", "done"}
        /\ venchilesNumber = Garbage => benchPc' = "undefined"
        /\ venchilesNumber # Garbage => /\ benchPc' = "done" /\ benchTasks' = BenchTasks
                                        /\ venchiles' = [i \in 1 .. venchilesNumber |-> venchilesCapacity]
        /\ UNCHANGED <<file, stream, venchilesNumber, venchilesCapacity, customers>>
    BY DEF Build
  <1>2. ASSUME file.benchmark
        PROVE  \E head, base, first \in Nat : BenchAt(head, base, first)' /\ Reading(head, base, first)'
    <2>1. PICK head, base, first \in Nat : BenchAt(head, base, first) /\ Reading(head, base, first)
      BY <1>2
    <2>2. file.vehicles \in Nat
      BY <1>2, <2>1, BenchPlaces
    <2>3. venchilesNumber = file.vehicles /\ venchilesCapacity = file.capacity /\ AllCustomers
      BY <1>1, <2>1 DEF Reading
    <2>4. venchilesNumber # Garbage
      BY <2>2, <2>3 DEF Garbage
    <2>5. BenchTasks' = BenchTasks
      BY <1>1 DEF BenchTasks, TaskPoint
    <2>6. AllCustomers'
      BY <1>1, <2>3 DEF AllCustomers, CustomersAre, Kind
    <2>7. Reading(head, base, first)'
      BY <1>1, <2>3, <2>4, <2>5, <2>6 DEF Reading
    <2>8. BenchAt(head, base, first)'
      BY <1>1, <2>1 DEF BenchAt
    <2>. QED
      BY <2>7, <2>8
  <1>3. OneBrokenCustomer' /\ Streams' = Streams
    BY <1>1 DEF OneBrokenCustomer, Complete, Streams
  <1>. QED
    BY <1>1, <1>2, <1>3

LEMMA BenchKeeps == BenchInv /\ [BenchNext]_benchVars => BenchInv'
  <1>. SUFFICES ASSUME BenchInv, [BenchNext]_benchVars PROVE BenchInv'
    OBVIOUS
  <1>1. CASE UNCHANGED benchVars
    <2>. USE DEF BenchInv
    <2>1. UNCHANGED <<file, stream, benchPc, venchilesNumber, venchilesCapacity, customers, venchiles, benchTasks>>
      BY <1>1 DEF benchVars
    <2>2. OneBrokenCustomer' /\ Streams' = Streams
      BY <2>1 DEF OneBrokenCustomer, Complete, Streams
    <2>3. ASSUME file.benchmark
          PROVE  \E head, base, first \in Nat : BenchAt(head, base, first)' /\ Reading(head, base, first)'
      <3>1. PICK head, base, first \in Nat : BenchAt(head, base, first) /\ Reading(head, base, first)
        BY <2>3
      <3>2. BenchAt(head, base, first)'
        BY <2>1, <3>1 DEF BenchAt
      <3>3. BenchTasks' = BenchTasks
        BY <2>1 DEF BenchTasks, TaskPoint
      <3>4. AllCustomers' <=> AllCustomers
        BY <2>1 DEF AllCustomers, CustomersAre, Kind
      <3>5. CustomersAre(Len(customers))' <=> CustomersAre(Len(customers))
        BY <2>1 DEF CustomersAre
      <3>7. Reading(head, base, first)'
        BY <2>1, <3>1, <3>3, <3>4, <3>5 DEF Reading, Good
      <3>. QED
        BY <3>2, <3>7
    <2>. QED
      BY <2>1, <2>2, <2>3 DEF Good
  <1>. QED
    BY <1>1, NameKeeps, VehiclesKeep, CustomerKeeps, EndKeepsBench, BuildKeeps DEF BenchNext

\* what the invariant says of a benchmark that is loaded
LEMMA BenchTold == BenchInv => WholeBenchmark
  <1>. SUFFICES ASSUME BenchInv, benchPc = "done", file.benchmark PROVE WholeBenchmark
    BY DEF WholeBenchmark
  <1>. USE DEF BenchInv
  <1>. DEFINE n == Len(file.customers)
  <1>1. PICK head, base, first \in Nat : BenchAt(head, base, first) /\ Reading(head, base, first)
    OBVIOUS
  <1>2. /\ venchilesNumber = file.vehicles /\ venchilesCapacity = file.capacity /\ AllCustomers
        /\ venchiles = [i \in 1 .. venchilesNumber |-> venchilesCapacity] /\ benchTasks = BenchTasks
    BY <1>1 DEF Reading
  <1>3. n \in Nat /\ n > 0
    BY <1>1, BenchPlaces
  <1>. HIDE DEF n
  <1>. DEFINE ended == Kind(Len(file.text)) = "newline"
  <1>4. /\ CustomersAre(n) /\ Len(customers) = IF ended THEN n + 1 ELSE n
        /\ ended => \A j \in 1 .. 7 : customers[n + 1][j] = Garbage
    BY <1>2 DEF AllCustomers, n
  <1>. HIDE DEF ended
  <1>5. /\ Len(customers) - 1 \in Nat /\ Len(BenchTasks) = Len(customers) - 1
        /\ \A i \in 1 .. Len(customers) - 1 :
              BenchTasks[i] = [capacity |-> customers[i + 1][4], start |-> TaskPoint(customers[1]),
                               end |-> TaskPoint(customers[i + 1])]
    BY <1>3, <1>4 DEF BenchTasks
  <1>6. \A i \in 1 .. n : TaskPoint(customers[i]) = TaskPoint(file.customers[i])
    <2>. SUFFICES ASSUME NEW i \in 1 .. n
                  PROVE  TaskPoint(customers[i]) = TaskPoint(file.customers[i])
      OBVIOUS
    <2>1. \A j \in 1 .. 7 : customers[i][j] = file.customers[i][j]
      BY <1>4 DEF CustomersAre
    <2>2. /\ customers[i][2] = file.customers[i][2] /\ customers[i][3] = file.customers[i][3]
          /\ customers[i][5] = file.customers[i][5] /\ customers[i][6] = file.customers[i][6]
          /\ customers[i][7] = file.customers[i][7]
      BY <2>1
    <2>. QED
      BY <2>2, Zenon DEF TaskPoint
  <1>7. ASSUME NEW i \in 1 .. n - 1
        PROVE  /\ benchTasks[i].capacity = file.customers[i + 1][4]
               /\ benchTasks[i].start = TaskPoint(file.customers[1])
               /\ benchTasks[i].end = TaskPoint(file.customers[i + 1])
    <2>1. i \in 1 .. Len(customers) - 1 /\ i + 1 \in 1 .. n /\ 1 \in 1 .. n
      BY <1>3, <1>4
    <2>2. customers[i + 1][4] = file.customers[i + 1][4]
      BY <1>4, <2>1 DEF CustomersAre
    <2>3. benchTasks[i] = [capacity |-> customers[i + 1][4], start |-> TaskPoint(customers[1]),
                           end |-> TaskPoint(customers[i + 1])]
      BY <1>2, <1>5, <2>1
    <2>4. /\ TaskPoint(customers[1]) = TaskPoint(file.customers[1])
          /\ TaskPoint(customers[i + 1]) = TaskPoint(file.customers[i + 1])
      BY <1>6, <2>1
    <2>. QED
      BY <2>2, <2>3, <2>4
  <1>8. Len(benchTasks) = IF ended THEN (n - 1) + 1 ELSE n - 1
    BY <1>2, <1>3, <1>4, <1>5
  <1>. DEFINE Nowhere == [place |-> <<Garbage, Garbage>>, ts |-> Garbage, te |-> Garbage, dur |-> Garbage]
  <1>9. ASSUME ended
        PROVE  benchTasks[(n - 1) + 1] = [capacity |-> Garbage, start |-> TaskPoint(file.customers[1]), end |-> Nowhere]
    <2>1. n \in 1 .. Len(customers) - 1 /\ 1 \in 1 .. n /\ (n - 1) + 1 = n
      BY <1>3, <1>4, <1>9
    <2>2. benchTasks[n] = [capacity |-> customers[n + 1][4], start |-> TaskPoint(customers[1]),
                           end |-> TaskPoint(customers[n + 1])]
      BY <1>2, <1>5, <2>1
    <2>3. \A j \in 1 .. 7 : customers[n + 1][j] = Garbage
      BY <1>4, <1>9
    <2>4. TaskPoint(customers[n + 1]) = Nowhere /\ customers[n + 1][4] = Garbage
      <3>. DEFINE c == customers[n + 1]
      <3>1. /\ c[2] = Garbage /\ c[3] = Garbage /\ c[4] = Garbage
            /\ c[5] = Garbage /\ c[6] = Garbage /\ c[7] = Garbage
        BY <2>3
      <3>. HIDE DEF c
      <3>2. TaskPoint(c) = Nowhere
        BY <3>1 DEF TaskPoint
      <3>. QED
        BY <3>1, <3>2 DEF c
    <2>5. TaskPoint(customers[1]) = TaskPoint(file.customers[1])
      BY <1>6, <2>1
    <2>. HIDE DEF Nowhere
    <2>. QED
      BY <2>1, <2>2, <2>4, <2>5
  <1>. QED
    BY <1>2, <1>7, <1>8, <1>9 DEF WholeBenchmark, n, ended

\* a console and its loader
LEMMA ConsolesStep ==
  ConsoleInv /\ BenchInv /\ [ConsolesNext]_<<consoleVars, benchVars>> => ConsoleInv' /\ BenchInv'
  <1>. SUFFICES ASSUME ConsoleInv, BenchInv, [ConsolesNext]_<<consoleVars, benchVars>>
                PROVE  ConsoleInv' /\ BenchInv'
    OBVIOUS
  <1>1. CASE Console!Next /\ UNCHANGED benchVars
    BY <1>1, ConsoleKeeps, BenchKeeps
  <1>2. CASE Loading
    <2>1. BenchNext
      BY <1>2 DEF Loading
    <2>. QED
      BY <1>2, <2>1, ConsoleWaits, BenchKeeps
  <1>3. CASE UNCHANGED <<consoleVars, benchVars>>
    BY <1>3, ConsoleRests, BenchKeeps
  <1>. QED
    BY <1>1, <1>2, <1>3 DEF ConsolesNext

\* Whatever options the consoles are given and whatever files there are: 0 of
\* the service's console says that some route is solved and that the export
\* that was asked for is written, 0 of the benchmark's that the search has run
\* on the whole file, and the help is printed only behind such a search.  The
\* problem of a benchmark is the whole file, with a customer of garbage more
\* exactly if its last line is ended; and of a broken file all but the last
\* customer was read.
THEOREM ConsolesCorrect == ConsolesSpec => []ConsolesTell
  <1>1. ConsolesInit => ConsoleInv /\ BenchInv
    BY ConsoleBegins, BenchBegins DEF ConsolesInit
  <1>2. ConsoleInv /\ BenchInv => ConsolesTell
    <2>1. ConsoleInv => Console!CodeTells
      BY Zenon DEF ConsoleInv
    <2>2. BenchInv => OneBrokenCustomer
      BY Zenon DEF BenchInv
    <2>. QED
      BY <2>1, <2>2, BenchTold DEF ConsolesTell
  <1>. QED
    BY <1>1, <1>2, ConsolesStep, PTL DEF ConsolesSpec

-----------------------------------------------------------------------------
(* Values, for any set of JSON values.                                      *)

\* the members of an object, in the order in which they are taken out of it
MembersFold(g, o, S) ==
    g = [T \in SUBSET S |-> IF T = {} THEN << >> ELSE Append(g[T \ {Some(T)}], o[Some(T)])]

LEMMA MembersFoldUnique ==
  ASSUME NEW S, IsFiniteSet(S), NEW o, NEW g, NEW h,
         MembersFold(g, o, S), MembersFold(h, o, S)
  PROVE  g[S] = h[S]
  <1>. DEFINE P == {T \in SUBSET S : g[T] = h[T]}
  <1>1. \A T \in SUBSET S : (\A V \in SUBSET T : V # T => V \in P) => T \in P
    <2>. SUFFICES ASSUME NEW T \in SUBSET S, \A V \in SUBSET T : V # T => V \in P
                  PROVE  g[T] = h[T]
      OBVIOUS
    <2>1. /\ g[T] = IF T = {} THEN << >> ELSE Append(g[T \ {Some(T)}], o[Some(T)])
          /\ h[T] = IF T = {} THEN << >> ELSE Append(h[T \ {Some(T)}], o[Some(T)])
      BY DEF MembersFold
    <2>2. T # {} => g[T \ {Some(T)}] = h[T \ {Some(T)}]
      BY SomeIn
    <2>. QED
      BY <2>1, <2>2
  <1>2. P \in SUBSET (SUBSET S)
    OBVIOUS
  <1>. HIDE DEF P
  <1>3. S \in P
    BY <1>1, <1>2, SetInduction
  <1>. QED
    BY <1>3 DEF P

LEMMA MembersFoldExists ==
  ASSUME NEW S, IsFiniteSet(S), NEW J, NEW o, \A x \in S : o[x] \in J
  PROVE  \E g \in [SUBSET S -> Seq(J)] : MembersFold(g, o, S)
  <1>. DEFINE pick == [T \in SUBSET S |-> Some(T)]
              step == [a \in Seq(J) |-> [x \in S |-> Append(a, o[x])]]
  <1>1. Picks(pick, S)
    BY SomeIn DEF Picks
  <1>2. step \in [Seq(J) -> [S -> Seq(J)]]
    OBVIOUS
  <1>. HIDE DEF step
  <1>3. PICK g \in [SUBSET S -> Seq(J)] : IsFold(g, << >>, step, pick, SUBSET S)
    <2>. HIDE DEF pick
    <2>1. << >> \in Seq(J)
      OBVIOUS
    <2>. QED
      BY <1>1, <1>2, <2>1, FoldExists, Zenon
  <1>4. \A T \in SUBSET S : T # {} =>
           step[g[T \ {pick[T]}]][pick[T]] = Append(g[T \ {Some(T)}], o[Some(T)])
    <2>. SUFFICES ASSUME NEW T \in SUBSET S, T # {}
                  PROVE  step[g[T \ {pick[T]}]][pick[T]] = Append(g[T \ {Some(T)}], o[Some(T)])
      OBVIOUS
    <2>1. pick[T] = Some(T) /\ Some(T) \in S /\ g[T \ {Some(T)}] \in Seq(J)
      BY SomeIn
    <2>. QED
      BY <2>1 DEF step
  <1>5. MembersFold(g, o, S)
    BY <1>3, <1>4 DEF MembersFold, IsFold
  <1>. QED
    BY <1>5

\* The range of an object is a sequence, and empty only if the object is.
LEMMA ItemsOfObject ==
  ASSUME NEW J, NEW j, DOMAIN j = {"obj"}, IsFiniteSet(DOMAIN j.obj),
         \A key \in DOMAIN j.obj : j.obj[key] \in J
  PROVE  /\ Client!Items(j) \in Seq(J)
         /\ DOMAIN j.obj # {} => Client!Items(j) # << >>
  <1>. DEFINE o == j.obj
              S == DOMAIN o
              h == CHOOSE g : MembersFold(g, o, S)
  <1>1. Client!Items(j) = h[S]
    BY Zenon DEF Client!Items, Client!Is, Client!FoldSet, Client!MapThenFoldSet, MembersFold, Some
  <1>2. PICK g \in [SUBSET S -> Seq(J)] : MembersFold(g, o, S)
    BY MembersFoldExists
  <1>3. MembersFold(h, o, S)
    BY <1>2
  <1>. HIDE DEF h
  <1>4. g[S] = h[S]
    BY <1>2, <1>3, MembersFoldUnique
  <1>5. S # {} => g[S] = Append(g[S \ {Some(S)}], o[Some(S)]) /\ g[S \ {Some(S)}] \in Seq(J)
    BY <1>2 DEF MembersFold
  <1>6. S # {} => o[Some(S)] \in J
    BY SomeIn
  <1>7. S # {} => g[S] # << >>
    BY <1>5, <1>6
  <1>. QED
    BY <1>1, <1>2, <1>4, <1>7

\* what a value is, by its type
LEMMA ValueIs ==
  ASSUME NEW j \in Json
  PROVE  /\ \E type \in {"obj", "arr", "str", "num", "bool", "nul"} : DOMAIN j = {type}
         /\ Client!Is("num", j) => j.num \in Int
         /\ Client!Is("bool", j) => j.bool \in BOOLEAN
         /\ Client!Is("arr", j) => j.arr \in Seq(Json)
         /\ Client!Is("obj", j) => IsFiniteSet(DOMAIN j.obj) /\ \A key \in DOMAIN j.obj : j.obj[key] \in Json
  BY AccessAssumption DEF AreValues, Client!Is

\* The range of a value is a sequence of values.
LEMMA ItemsType == ASSUME NEW j \in Json PROVE Client!Items(j) \in Seq(Json)
  <1>1. CASE Client!Is("arr", j)
    BY <1>1, ValueIs DEF Client!Items
  <1>2. CASE Client!Is("obj", j)
    <2>1. DOMAIN j = {"obj"} /\ IsFiniteSet(DOMAIN j.obj) /\ \A key \in DOMAIN j.obj : j.obj[key] \in Json
      BY <1>2, ValueIs DEF Client!Is
    <2>. QED
      BY <2>1, ItemsOfObject
  <1>3. CASE ~Client!Is("arr", j) /\ ~Client!Is("obj", j)
    <2>1. Client!Items(j) = << >> \/ Client!Items(j) = <<j>>
      BY <1>3 DEF Client!Items
    <2>2. << >> \in Seq(Json) /\ <<j>> \in Seq(Json)
      OBVIOUS
    <2>. QED
      BY <2>1, <2>2, Zenon
  <1>. QED
    BY <1>1, <1>2, <1>3

\* Conversions: to a type of w bits there is one value, if any, of w bits, and
\* a number of w bits is kept.
Bits(type) == 0 .. Modulus[type] - 1

LEMMA ModulusIs ==
  /\ Modulus.uint32 = Modulus["uint32"] /\ Modulus["uint32"] \in Nat \ {0, 1}
  /\ Modulus.size_t = Modulus["size_t"] /\ Modulus["size_t"] \in Nat \ {0, 1}
  BY AccessAssumption

LEMMA Remainder ==
  ASSUME NEW n \in Int, NEW m \in Nat \ {0, 1}
  PROVE  n % m \in 0 .. m - 1 /\ (n \in 0 .. m - 1 => n % m = n)
  OBVIOUS

LEMMA ConvertedIn ==
  ASSUME NEW as, NEW j, Client!Converted(as, j) # {}
  PROVE  Client!ConvertedTo(as, j) \in Client!Converted(as, j)
  BY DEF Client!ConvertedTo

LEMMA Uint32Type ==
  ASSUME NEW j \in Json
  PROVE  /\ Client!Converted("uint32", j) \subseteq Bits("uint32")
         /\ Client!InRange(j) => Client!Converted("uint32", j) = {j.num}
  <1>1. Client!Converted("uint32", j) = {n % Modulus["uint32"] : n \in Client!Arithmetic(j)}
    BY DEF Client!Converted, Client!Narrowed
  <1>2. Client!Arithmetic(j) \subseteq Int
    BY ValueIs DEF Client!Arithmetic, Client!Bit
  <1>3. Client!InRange(j) => j.num \in Bits("uint32") /\ Client!Arithmetic(j) = {j.num}
    BY ModulusIs DEF Client!InRange, Client!Arithmetic, Bits
  <1>4. \A n \in Int : n % Modulus["uint32"] \in Bits("uint32") /\ (n \in Bits("uint32") => n % Modulus["uint32"] = n)
    BY ModulusIs, Remainder DEF Bits
  <1>. QED
    BY <1>1, <1>2, <1>3, <1>4

LEMMA SizeType ==
  ASSUME NEW j \in Json
  PROVE  Client!Converted("size_t", j) \subseteq Bits("size_t")
  <1>1. Client!Converted("size_t", j) = IF Client!Is("num", j) THEN {j.num % Modulus["size_t"]} ELSE {}
    BY DEF Client!Converted, Client!Narrowed
  <1>2. Client!Is("num", j) => j.num \in Int
    BY ValueIs
  <1>3. \A n \in Int : n % Modulus["size_t"] \in Bits("size_t")
    BY ModulusIs, Remainder DEF Bits
  <1>. QED
    BY <1>1, <1>2, <1>3

LEMMA LexicalType ==
  ASSUME NEW j \in Json
  PROVE  Client!Converted("lexical uint32", j) \subseteq Bits("uint32")
  <1>1. Client!Converted("lexical uint32", j)
          = {n.value % Modulus["uint32"] : n \in {m \in Client!Lexical(j) : m.whole}}
    BY DEF Client!Converted, Client!Narrowed
  <1>2. \A n \in Client!Lexical(j) : n.value \in Int
    BY AccessAssumption DEF Client!Lexical
  <1>3. \A n \in Int : n % Modulus["uint32"] \in Bits("uint32")
    BY ModulusIs, Remainder DEF Bits
  <1>. QED
    BY <1>1, <1>2, <1>3

-----------------------------------------------------------------------------
(* Reading an object's fields.                                              *)

LEMMA ReadingEnds ==
  ASSUME NEW j, NEW f PROVE Client!Reading(j, f) \in {"ok", "thrown", "undefined"}
  BY DEF Client!Reading, Client!Lookup

\* Of the fields that fail those of the first set are told; none are, if and
\* only if every field is read.
LEMMA FailuresAre ==
  ASSUME NEW j, NEW fields, DOMAIN fields \subseteq Nat
  PROVE  /\ Client!Failures(j, fields) \subseteq {"thrown", "undefined"}
         /\ Client!Failures(j, fields) = {} <=>
               \A i \in DOMAIN fields : \A f \in fields[i] : Client!Reading(j, f) = "ok"
  <1>. DEFINE failing(i) == {Client!Reading(j, f) : f \in fields[i]} \ {"ok"}
              bad == {i \in DOMAIN fields : failing(i) # {}}
              first == CHOOSE i \in bad : \A k \in bad : i <= k
  <1>1. Client!Failures(j, fields) = IF bad = {} THEN {} ELSE failing(first)
    BY DEF Client!Failures
  <1>2. \A i : failing(i) \subseteq {"thrown", "undefined"}
    BY ReadingEnds
  <1>3. \A i : failing(i) = {} <=> \A f \in fields[i] : Client!Reading(j, f) = "ok"
    OBVIOUS
  <1>. HIDE DEF failing
  <1>4. bad # {} => first \in bad
    <2>1. bad \subseteq Nat
      OBVIOUS
    <2>2. bad # {} => \E i \in bad : \A k \in bad : i <= k
      BY <2>1, Least
    <2>. QED
      BY <2>2
  <1>. HIDE DEF first
  <1>5. bad # {} => failing(first) # {}
    BY <1>4
  <1>. QED
    BY <1>1, <1>2, <1>3, <1>5

LEMMA ReadingOf ==
  ASSUME NEW j, NEW f, Client!Reading(j, f) = "ok"
  PROVE  LET inner == IF Len(f.path) = 1 THEN j ELSE j.obj[f.path[1]]
             key == f.path[Len(f.path)]
         IN  /\ Client!Lookup(j, f.path[1]) = "ok" /\ Client!Lookup(inner, key) = "ok"
             /\ f.list => Client!AllConverted(f.as, inner.obj[key])
             /\ ~f.list => Client!Converted(f.as, inner.obj[key]) # {}
  BY DEF Client!Reading

\* a field of an object, and one of an object in it
LEMMA FieldRead ==
  ASSUME NEW j \in Json, NEW key, NEW as, Client!Reading(j, Client!F(<<key>>, as)) = "ok"
  PROVE  /\ Client!Is("obj", j) /\ key \in DOMAIN j.obj /\ j.obj[key] \in Json
         /\ Client!Converted(as, j.obj[key]) # {}
  <1>. DEFINE f == Client!F(<<key>>, as)
  <1>1. f.path = <<key>> /\ f.as = as /\ f.list = FALSE /\ Len(f.path) = 1 /\ f.path[1] = key
    BY DEF Client!F
  <1>. HIDE DEF f
  <1>2. Client!Lookup(j, key) = "ok" /\ Client!Converted(as, j.obj[key]) # {}
    BY <1>1 DEF Client!Reading, f
  <1>. QED
    BY <1>2, ValueIs DEF Client!Lookup

LEMMA ListRead ==
  ASSUME NEW j \in Json, NEW key, NEW as, Client!Reading(j, Client!L(<<key>>, as)) = "ok"
  PROVE  /\ Client!Is("obj", j) /\ key \in DOMAIN j.obj /\ j.obj[key] \in Json
         /\ Client!AllConverted(as, j.obj[key])
  <1>. DEFINE f == Client!L(<<key>>, as)
  <1>1. f.path = <<key>> /\ f.as = as /\ f.list = TRUE /\ Len(f.path) = 1 /\ f.path[1] = key
    BY DEF Client!L
  <1>. HIDE DEF f
  <1>2. Client!Lookup(j, key) = "ok" /\ Client!AllConverted(as, j.obj[key])
    BY <1>1 DEF Client!Reading, f
  <1>. QED
    BY <1>2, ValueIs DEF Client!Lookup

LEMMA InnerRead ==
  ASSUME NEW j \in Json, NEW outer, NEW key, NEW as,
         Client!Reading(j, Client!F(<<outer, key>>, as)) = "ok"
  PROVE  /\ j.obj[outer].obj[key] \in Json
         /\ Client!Converted(as, j.obj[outer].obj[key]) # {}
  <1>. DEFINE f == Client!F(<<outer, key>>, as)
  <1>1. f.path = <<outer, key>> /\ f.as = as /\ f.list = FALSE /\ Len(f.path) = 2
        /\ f.path[1] = outer /\ f.path[2] = key
    BY DEF Client!F
  <1>. HIDE DEF f
  <1>2. /\ Client!Lookup(j, outer) = "ok" /\ Client!Lookup(j.obj[outer], key) = "ok"
        /\ Client!Converted(as, j.obj[outer].obj[key]) # {}
    <2>1. Client!Reading(j, f) = "ok"
      BY DEF f
    <2>. DEFINE inner == IF Len(f.path) = 1 THEN j ELSE j.obj[f.path[1]]
    <2>2. /\ Client!Lookup(j, f.path[1]) = "ok" /\ Client!Lookup(inner, f.path[Len(f.path)]) = "ok"
          /\ ~f.list => Client!Converted(f.as, inner.obj[f.path[Len(f.path)]]) # {}
      BY <2>1, ReadingOf, Zenon
    <2>3. inner = j.obj[outer] /\ f.path[Len(f.path)] = key /\ f.path[1] = outer /\ f.as = as /\ ~f.list
      BY <1>1
    <2>. HIDE DEF inner
    <2>. QED
      BY <2>2, <2>3
  <1>3. j.obj[outer] \in Json
    BY <1>2, ValueIs DEF Client!Lookup
  <1>. QED
    BY <1>2, <1>3, ValueIs DEF Client!Lookup

\* what is kept of a field whose path no other field has
LEMMA FieldIs ==
  ASSUME NEW j, NEW fields, NEW f \in UNION Client!Range(fields),
         \A g \in UNION Client!Range(fields) : g.path = f.path => g = f
  PROVE  /\ f.path \in DOMAIN Client!Fields(j, fields)
         /\ Client!Fields(j, fields)[f.path] =
              LET raw == IF Len(f.path) = 1 THEN j.obj[f.path[1]] ELSE j.obj[f.path[1]].obj[f.path[2]]
              IN  IF f.list THEN Client!List(f.as, raw) ELSE Client!ConvertedTo(f.as, raw)
  <1>. DEFINE all == UNION Client!Range(fields)
              g(p) == CHOOSE h \in all : h.path = p
              raw(p) == IF Len(p) = 1 THEN j.obj[p[1]] ELSE j.obj[p[1]].obj[p[2]]
              read(h, p) == IF h.list THEN Client!List(h.as, raw(p)) ELSE Client!ConvertedTo(h.as, raw(p))
  <1>1. Client!Fields(j, fields) = [p \in {h.path : h \in all} |-> read(g(p), p)]
    BY DEF Client!Fields
  <1>2. f.path \in {h.path : h \in all}
    OBVIOUS
  <1>3. g(f.path) \in all /\ g(f.path).path = f.path
    BY Zenon
  <1>4. g(f.path) = f
    BY <1>3
  <1>. HIDE DEF g, read
  <1>5. Client!Fields(j, fields)[f.path] = read(f, f.path)
    BY <1>1, <1>2, <1>4
  <1>. QED
    BY <1>1, <1>2, <1>5 DEF read

\* the sets of one field, in order
LEMMA Twelve ==
  ASSUME NEW a1, NEW a2, NEW a3, NEW a4, NEW a5, NEW a6, NEW a7, NEW a8, NEW a9, NEW a10, NEW a11, NEW a12
  PROVE  LET s == <<{a1}, {a2}, {a3}, {a4}, {a5}, {a6}, {a7}, {a8}, {a9}, {a10}, {a11}, {a12}>>
         IN  /\ DOMAIN s = 1 .. 12
             /\ \A f : f \in UNION Client!Range(s)
                        <=> f \in {a1, a2, a3, a4, a5, a6, a7, a8, a9, a10, a11, a12}
  <1>. DEFINE s == <<{a1}, {a2}, {a3}, {a4}, {a5}, {a6}, {a7}, {a8}, {a9}, {a10}, {a11}, {a12}>>
  <1>1. DOMAIN s = 1 .. 12
    OBVIOUS
  <1>2. \A f : f \in UNION Client!Range(s) <=> \E i \in 1 .. 12 : f \in s[i]
    BY <1>1 DEF Client!Range
  <1>3. \A i \in 1 .. 12 : i = 1 \/ i = 2 \/ i = 3 \/ i = 4 \/ i = 5 \/ i = 6 \/ i = 7 \/ i = 8
                           \/ i = 9 \/ i = 10 \/ i = 11 \/ i = 12
    OBVIOUS
  <1>4. /\ s[1] = {a1} /\ s[2] = {a2} /\ s[3] = {a3} /\ s[4] = {a4} /\ s[5] = {a5} /\ s[6] = {a6}
        /\ s[7] = {a7} /\ s[8] = {a8} /\ s[9] = {a9} /\ s[10] = {a10} /\ s[11] = {a11} /\ s[12] = {a12}
    OBVIOUS
  <1>. HIDE DEF s
  <1>5. \A f : (\E i \in 1 .. 12 : f \in s[i]) <=> f \in {a1, a2, a3, a4, a5, a6, a7, a8, a9, a10, a11, a12}
    BY <1>3, <1>4
  <1>. QED
    BY <1>1, <1>2, <1>5 DEF s

LEMMA Eight ==
  ASSUME NEW a1, NEW a2, NEW a3, NEW a4, NEW a5, NEW a6, NEW a7, NEW a8
  PROVE  LET s == <<a1, a2, a3, a4, a5, a6, a7, a8>>
         IN  /\ DOMAIN s = 1 .. 8
             /\ \A f : f \in UNION Client!Range(s)
                        <=> f \in a1 \cup a2 \cup a3 \cup a4 \cup a5 \cup a6 \cup a7 \cup a8
  <1>. DEFINE s == <<a1, a2, a3, a4, a5, a6, a7, a8>>
  <1>1. DOMAIN s = 1 .. 8
    OBVIOUS
  <1>2. \A f : f \in UNION Client!Range(s) <=> \E i \in 1 .. 8 : f \in s[i]
    BY <1>1 DEF Client!Range
  <1>3. \A i \in 1 .. 8 : i = 1 \/ i = 2 \/ i = 3 \/ i = 4 \/ i = 5 \/ i = 6 \/ i = 7 \/ i = 8
    OBVIOUS
  <1>4. /\ s[1] = a1 /\ s[2] = a2 /\ s[3] = a3 /\ s[4] = a4
        /\ s[5] = a5 /\ s[6] = a6 /\ s[7] = a7 /\ s[8] = a8
    OBVIOUS
  <1>. HIDE DEF s
  <1>5. \A f : (\E i \in 1 .. 8 : f \in s[i])
                 <=> f \in a1 \cup a2 \cup a3 \cup a4 \cup a5 \cup a6 \cup a7 \cup a8
    BY <1>3, <1>4
  <1>. QED
    BY <1>1, <1>2, <1>5 DEF s

\* the fields in a sequence of sets of them
FieldsIn(fields) == UNION Client!Range(fields)

LEMMA VehicleFieldsAre ==
  /\ DOMAIN Client!VehicleFields \subseteq Nat
  /\ \A f : f \in FieldsIn(Client!VehicleFields) <=>
       f \in {Client!F(<<"id">>, "uint32"), Client!F(<<"capacity">>, "lexical float"),
        Client!F(<<"length">>, "lexical float"), Client!F(<<"height">>, "lexical float"),
        Client!F(<<"width">>, "lexical float"), Client!F(<<"trip_duration">>, "double"),
        Client!F(<<"trip_length">>, "double"), Client!F(<<"cost_of_using">>, "lexical float"),
        Client!F(<<"cost_per_km">>, "bool"), Client!F(<<"trip_max_tasks">>, "lexical uint32"),
        Client!L(<<"working_zone">>, "uint32"), Client!L(<<"restricted_zone">>, "uint32")}
  <1>. DEFINE id == Client!F(<<"id">>, "uint32")
              capacity == Client!F(<<"capacity">>, "lexical float")
              length == Client!F(<<"length">>, "lexical float")
              height == Client!F(<<"height">>, "lexical float")
              width == Client!F(<<"width">>, "lexical float")
              duration == Client!F(<<"trip_duration">>, "double")
              meters == Client!F(<<"trip_length">>, "double")
              using == Client!F(<<"cost_of_using">>, "lexical float")
              perKm == Client!F(<<"cost_per_km">>, "bool")
              maxTasks == Client!F(<<"trip_max_tasks">>, "lexical uint32")
              working == Client!L(<<"working_zone">>, "uint32")
              restricted == Client!L(<<"restricted_zone">>, "uint32")
              s == <<{id}, {capacity}, {length}, {height}, {width}, {duration}, {meters}, {using},
                     {perKm}, {maxTasks}, {working}, {restricted}>>
  <1>1. Client!VehicleFields = s
    BY DEF Client!VehicleFields
  <1>. HIDE DEF id, capacity, length, height, width, duration, meters, using, perKm, maxTasks, working, restricted
  <1>2. /\ DOMAIN s = 1 .. 12
        /\ \A f : f \in UNION Client!Range(s)
                    <=> f \in {id, capacity, length, height, width, duration, meters, using,
                               perKm, maxTasks, working, restricted}
    BY Twelve, SMTT(40)
  <1>. HIDE DEF s
  <1>3. /\ DOMAIN Client!VehicleFields \subseteq Nat
        /\ \A f : f \in FieldsIn(Client!VehicleFields)
                    <=> f \in {id, capacity, length, height, width, duration, meters, using,
                               perKm, maxTasks, working, restricted}
    BY <1>1, <1>2 DEF FieldsIn
  <1>. QED
    BY <1>3 DEF id, capacity, length, height, width, duration, meters, using, perKm, maxTasks, working, restricted

LEMMA TaskFieldsAre ==
  /\ DOMAIN Client!TaskFields \subseteq Nat
  /\ \A f : f \in FieldsIn(Client!TaskFields) <=>
       f \in {Client!F(<<"id">>, "uint32"), Client!F(<<"capacity">>, "float"),
              Client!F(<<"volume">>, "float"), Client!F(<<"maxsize">>, "float"),
              Client!F(<<"vip">>, "int"), Client!L(<<"types">>, "uint16")}
             \cup Client!PointFields("start") \cup Client!PointFields("end")
  <1>. DEFINE id == Client!F(<<"id">>, "uint32")
              capacity == Client!F(<<"capacity">>, "float")
              volume == Client!F(<<"volume">>, "float")
              maxsize == Client!F(<<"maxsize">>, "float")
              vip == Client!F(<<"vip">>, "int")
              types == Client!L(<<"types">>, "uint16")
              start == Client!PointFields("start")
              end == Client!PointFields("end")
  <1>1. Client!TaskFields = <<{id}, {capacity}, {volume}, {maxsize}, start, end, {vip}, {types}>>
    BY DEF Client!TaskFields
  <1>. HIDE DEF id, capacity, volume, maxsize, vip, types, start, end
  <1>. DEFINE s == <<{id}, {capacity}, {volume}, {maxsize}, start, end, {vip}, {types}>>
  <1>4. /\ DOMAIN s = 1 .. 8
        /\ \A f : f \in UNION Client!Range(s)
                    <=> f \in {id} \cup {capacity} \cup {volume} \cup {maxsize} \cup start \cup end \cup {vip} \cup {types}
    BY Eight
  <1>. HIDE DEF s
  <1>5. Client!TaskFields = s
    BY <1>1 DEF s
  <1>2. /\ DOMAIN Client!TaskFields = 1 .. 8
        /\ \A f : f \in FieldsIn(Client!TaskFields)
                    <=> f \in {id} \cup {capacity} \cup {volume} \cup {maxsize} \cup start \cup end \cup {vip} \cup {types}
    BY <1>4, <1>5 DEF FieldsIn
  <1>3. /\ DOMAIN Client!TaskFields \subseteq Nat
        /\ \A f : f \in FieldsIn(Client!TaskFields)
                    <=> f \in {id, capacity, volume, maxsize, vip, types} \cup start \cup end
    BY <1>2
  <1>. QED
    BY <1>3 DEF id, capacity, volume, maxsize, vip, types, start, end

\* in other words: no failure, if and only if each field is read
LEMMA AllRead ==
  ASSUME NEW j, NEW fields, DOMAIN fields \subseteq Nat
  PROVE  Client!Failures(j, fields) = {} <=> \A f \in FieldsIn(fields) : Client!Reading(j, f) = "ok"
  <1>1. \A f : f \in FieldsIn(fields) <=> \E i \in DOMAIN fields : f \in fields[i]
    BY DEF FieldsIn, Client!Range
  <1>. QED
    BY <1>1, FailuresAre

\* no two of them have the same path
LEMMA VehiclePaths ==
  ASSUME NEW g \in FieldsIn(Client!VehicleFields)
  PROVE  /\ g.path = <<"trip_max_tasks">> => g = Client!F(<<"trip_max_tasks">>, "lexical uint32")
         /\ g.path = <<"working_zone">> => g = Client!L(<<"working_zone">>, "uint32")
  <1>1. \A key, as : Client!F(<<key>>, as).path[1] = key /\ Client!L(<<key>>, as).path[1] = key
    BY DEF Client!F, Client!L
  <1>2. /\ g = Client!F(<<"id">>, "uint32") => g.path[1] = "id"
        /\ g = Client!F(<<"capacity">>, "lexical float") => g.path[1] = "capacity"
        /\ g = Client!F(<<"length">>, "lexical float") => g.path[1] = "length"
        /\ g = Client!F(<<"height">>, "lexical float") => g.path[1] = "height"
        /\ g = Client!F(<<"width">>, "lexical float") => g.path[1] = "width"
        /\ g = Client!F(<<"trip_duration">>, "double") => g.path[1] = "trip_duration"
        /\ g = Client!F(<<"trip_length">>, "double") => g.path[1] = "trip_length"
        /\ g = Client!F(<<"cost_of_using">>, "lexical float") => g.path[1] = "cost_of_using"
        /\ g = Client!F(<<"cost_per_km">>, "bool") => g.path[1] = "cost_per_km"
    BY <1>1
  <1>3. g = Client!L(<<"restricted_zone">>, "uint32") => g.path[1] = "restricted_zone"
    BY <1>1
  <1>4. g = Client!F(<<"trip_max_tasks">>, "lexical uint32") => g.path[1] = "trip_max_tasks"
    BY <1>1
  <1>5. g = Client!L(<<"working_zone">>, "uint32") => g.path[1] = "working_zone"
    BY <1>1
  <1>6. /\ g.path = <<"trip_max_tasks">> => g.path[1] = "trip_max_tasks"
        /\ g.path = <<"working_zone">> => g.path[1] = "working_zone"
    OBVIOUS
  <1>. QED
    BY <1>2, <1>3, <1>4, <1>5, <1>6, VehicleFieldsAre

\* the fields of a vehicle that the solver's checker and walk go by
LEMMA VehicleRead ==
  ASSUME NEW j \in Json, Client!Failures(j, Client!VehicleFields) = {}
  PROVE  /\ Client!Fields(j, Client!VehicleFields)[<<"trip_max_tasks">>] \in Bits("uint32")
         /\ Client!Is("obj", j) /\ "working_zone" \in DOMAIN j.obj
         /\ j.obj["working_zone"] \in Json /\ Client!AllConverted("uint32", j.obj["working_zone"])
         /\ Client!Fields(j, Client!VehicleFields)[<<"working_zone">>]
              = Client!List("uint32", j.obj["working_zone"])
  <1>. DEFINE maxTasks == Client!F(<<"trip_max_tasks">>, "lexical uint32")
              working == Client!L(<<"working_zone">>, "uint32")
              fields == Client!VehicleFields
  <1>1. maxTasks \in FieldsIn(fields) /\ working \in FieldsIn(fields)
    BY VehicleFieldsAre
  <1>2. Client!Reading(j, maxTasks) = "ok" /\ Client!Reading(j, working) = "ok"
    BY <1>1, AllRead, VehicleFieldsAre
  <1>3. ASSUME NEW f \in {maxTasks, working}, NEW g \in FieldsIn(fields), g.path = f.path PROVE g = f
    <2>1. maxTasks.path = <<"trip_max_tasks">> /\ working.path = <<"working_zone">>
      BY DEF Client!F, Client!L
    <2>. HIDE DEF maxTasks, working
    <2>2. /\ g.path = <<"trip_max_tasks">> => g = maxTasks
          /\ g.path = <<"working_zone">> => g = working
      BY <1>3, VehiclePaths DEF maxTasks, working, fields
    <2>. QED
      BY <1>3, <2>1, <2>2
  <1>4. /\ "trip_max_tasks" \in DOMAIN j.obj /\ j.obj["trip_max_tasks"] \in Json
        /\ Client!Converted("lexical uint32", j.obj["trip_max_tasks"]) # {}
    BY <1>2, FieldRead
  <1>5. /\ Client!Is("obj", j) /\ "working_zone" \in DOMAIN j.obj /\ j.obj["working_zone"] \in Json
        /\ Client!AllConverted("uint32", j.obj["working_zone"])
    BY <1>2, ListRead
  <1>6. /\ maxTasks.path = <<"trip_max_tasks">> /\ maxTasks.as = "lexical uint32" /\ maxTasks.list = FALSE
        /\ working.path = <<"working_zone">> /\ working.as = "uint32" /\ working.list = TRUE
        /\ Len(maxTasks.path) = 1 /\ maxTasks.path[1] = "trip_max_tasks"
        /\ Len(working.path) = 1 /\ working.path[1] = "working_zone"
    BY DEF Client!F, Client!L
  <1>. HIDE DEF maxTasks, working, fields
  <1>10. ASSUME NEW f \in {maxTasks, working}
         PROVE  Client!Fields(j, fields)[f.path] =
                  IF f.list THEN Client!List(f.as, j.obj[f.path[1]]) ELSE Client!ConvertedTo(f.as, j.obj[f.path[1]])
    <2>1. f \in UNION Client!Range(fields) /\ \A g \in UNION Client!Range(fields) : g.path = f.path => g = f
      BY <1>1, <1>3 DEF FieldsIn
    <2>2. Len(f.path) = 1
      BY <1>6
    <2>. QED
      BY <2>1, <2>2, FieldIs
  <1>7. Client!Fields(j, fields)[<<"trip_max_tasks">>] = Client!ConvertedTo("lexical uint32", j.obj["trip_max_tasks"])
    BY <1>6, <1>10
  <1>8. Client!Fields(j, fields)[<<"working_zone">>] = Client!List("uint32", j.obj["working_zone"])
    BY <1>6, <1>10
  <1>9. Client!Fields(j, fields)[<<"trip_max_tasks">>] \in Bits("uint32")
    BY <1>4, <1>7, ConvertedIn, LexicalType
  <1>. QED
    BY <1>5, <1>8, <1>9 DEF fields

\* those of a task
LEMMA TaskRead ==
  ASSUME NEW j \in Json, Client!Failures(j, Client!TaskFields) = {}
  PROVE  /\ \A key \in {"ts", "te", "dur"} : Client!Task(j)[<<"start", key>>] \in Bits("size_t")
         /\ Client!Is("obj", j) /\ "id" \in DOMAIN j.obj /\ j.obj["id"] \in Json
         /\ Client!InRange(j.obj["id"]) => Client!Task(j)[<<"id">>] = j.obj["id"].num
  <1>. DEFINE id == Client!F(<<"id">>, "uint32")
              at(key) == Client!F(<<"start", key>>, "size_t")
              fields == Client!TaskFields
  <1>0. Client!PointFields("start") =
          {Client!F(<<"start", "lat">>, "double"), Client!F(<<"start", "lon">>, "double"),
           at("ts"), at("te"), at("dur")}
    BY DEF Client!PointFields
  <1>1. id \in FieldsIn(fields) /\ \A key \in {"ts", "te", "dur"} : at(key) \in FieldsIn(fields)
    <2>. HIDE DEF at
    <2>. QED
      BY <1>0, TaskFieldsAre
  <1>2. Client!Reading(j, id) = "ok" /\ \A key \in {"ts", "te", "dur"} : Client!Reading(j, at(key)) = "ok"
    <2>. HIDE DEF at, id
    <2>. QED
      BY <1>1, AllRead, TaskFieldsAre
  <1>3. /\ \A g \in FieldsIn(fields) : g.path = id.path => g = id
        /\ \A key \in {"ts", "te", "dur"} : \A g \in FieldsIn(fields) : g.path = at(key).path => g = at(key)
    BY TaskFieldsAre DEF Client!F, Client!L, Client!PointFields
  <1>4. /\ Client!Is("obj", j) /\ "id" \in DOMAIN j.obj /\ j.obj["id"] \in Json
        /\ Client!Converted("uint32", j.obj["id"]) # {}
    BY <1>2, FieldRead
  <1>5. \A key \in {"ts", "te", "dur"} :
           /\ j.obj["start"].obj[key] \in Json
           /\ Client!Converted("size_t", j.obj["start"].obj[key]) # {}
    BY <1>2, InnerRead
  <1>6. /\ id.path = <<"id">> /\ id.as = "uint32" /\ id.list = FALSE
        /\ \A key : at(key).path = <<"start", key>> /\ at(key).as = "size_t" /\ at(key).list = FALSE
    BY DEF Client!F
  <1>. HIDE DEF id, at, fields
  <1>7. /\ <<"id">> \in DOMAIN Client!Fields(j, fields)
        /\ Client!Fields(j, fields)[<<"id">>] = Client!ConvertedTo("uint32", j.obj["id"])
    BY <1>1, <1>3, <1>6, FieldIs DEF FieldsIn
  <1>8. ASSUME NEW key \in {"ts", "te", "dur"}
        PROVE  /\ <<"start", key>> \in DOMAIN Client!Fields(j, fields)
               /\ Client!Fields(j, fields)[<<"start", key>>] = Client!ConvertedTo("size_t", j.obj["start"].obj[key])
    <2>. DEFINE f == at(key)
    <2>1. f \in UNION Client!Range(fields) /\ \A g \in UNION Client!Range(fields) : g.path = f.path => g = f
      BY <1>1, <1>3 DEF FieldsIn
    <2>2. /\ f.path = <<"start", key>> /\ f.as = "size_t" /\ f.list = FALSE
          /\ Len(f.path) # 1 /\ f.path[1] = "start" /\ f.path[2] = key
      BY <1>6
    <2>. HIDE DEF f
    <2>3. /\ f.path \in DOMAIN Client!Fields(j, fields)
          /\ Client!Fields(j, fields)[f.path] = Client!ConvertedTo(f.as, j.obj[f.path[1]].obj[f.path[2]])
      BY <2>1, <2>2, FieldIs
    <2>. QED
      BY <2>2, <2>3
  <1>9. \A path \in DOMAIN Client!Fields(j, fields) :
           path # <<"vip">> /\ path # <<"types">> => Client!Task(j)[path] = Client!Fields(j, fields)[path]
    BY DEF Client!Task, fields
  <1>10. \A key \in {"ts", "te", "dur"} : Client!Task(j)[<<"start", key>>] \in Bits("size_t")
    BY <1>5, <1>8, <1>9, ConvertedIn, SizeType
  <1>11. Client!InRange(j.obj["id"]) => Client!Task(j)[<<"id">>] = j.obj["id"].num
    BY <1>4, <1>7, <1>9, ConvertedIn, Uint32Type
  <1>. QED
    BY <1>4, <1>10, <1>11
-----------------------------------------------------------------------------
(* Zones.                                                                   *)

LEMMA ZoneFieldsAre ==
  /\ DOMAIN Client!ZoneFields \subseteq Nat
  /\ \A f : f \in FieldsIn(Client!ZoneFields)
               <=> f \in {Client!F(<<"id">>, "uint32"), Client!F(<<"zonetype">>, "int")}
  <1>. DEFINE id == Client!F(<<"id">>, "uint32")
              type == Client!F(<<"zonetype">>, "int")
  <1>1. Client!ZoneFields = <<{id}, {type}>>
    BY DEF Client!ZoneFields
  <1>. HIDE DEF id, type
  <1>2. DOMAIN Client!ZoneFields = 1 .. 2 /\ Client!ZoneFields[1] = {id} /\ Client!ZoneFields[2] = {type}
    BY <1>1
  <1>3. \A f : f \in FieldsIn(Client!ZoneFields) <=> \E i \in 1 .. 2 : f \in Client!ZoneFields[i]
    BY <1>2 DEF FieldsIn, Client!Range
  <1>4. 1 \in 1 .. 2 /\ 2 \in 1 .. 2
    OBVIOUS
  <1>. QED
    BY <1>2, <1>3, <1>4 DEF id, type

\* a zone fails by an exception or by undefined behaviour
LEMMA ZoneEnds ==
  ASSUME NEW j PROVE Client!ZoneFailures(j) \subseteq {"thrown", "undefined"}
  <1>1. Client!PolygonFailures(j) \subseteq {"thrown", "undefined"}
    BY DEF Client!PolygonFailures, Client!Lookup
  <1>2. Client!CircleFailures(j) \subseteq {"thrown", "undefined"}
    BY DEF Client!CircleFailures, Client!Lookup
  <1>3. Client!Failures(j, Client!ZoneFields) \subseteq {"thrown", "undefined"}
    BY ZoneFieldsAre, FailuresAre
  <1>. QED
    BY <1>1, <1>2, <1>3 DEF Client!ZoneFailures

\* A list of more than one corner is a closed polygon.
LEMMA ClosedIs ==
  ASSUME NEW S, NEW ps \in Seq(S), NEW closed, closed = Client!Closed(ps), Len(closed) > 1
  PROVE  closed[1] = closed[Len(closed)] /\ Len(closed) > 2
  <1>1. CASE Len(ps) > 1
    <2>1. closed = Append(ps, ps[1]) /\ ps[1] \in S
      BY <1>1 DEF Client!Closed
    <2>2. Len(closed) = Len(ps) + 1 /\ closed[Len(ps) + 1] = ps[1] /\ closed[1] = ps[1]
      BY <1>1, <2>1
    <2>. QED
      BY <1>1, <2>2
  <1>2. CASE ~(Len(ps) > 1)
    BY <1>2 DEF Client!Closed
  <1>. QED
    BY <1>1, <1>2

LEMMA ZoneRead ==
  ASSUME NEW j \in Json, Client!ZoneFailures(j) = {}
  PROVE  /\ Client!Zone(j).externalId \in Bits("uint32")
         /\ Client!Is("obj", j) /\ "id" \in DOMAIN j.obj /\ j.obj["id"] \in Json
         /\ Client!InRange(j.obj["id"]) => Client!Zone(j).externalId = j.obj["id"].num
         /\ Client!Zone(j).polygon /\ Len(Client!Zone(j).points) > 1 =>
              /\ Client!Zone(j).points[1] = Client!Zone(j).points[Len(Client!Zone(j).points)]
              /\ Len(Client!Zone(j).points) > 2
  <1>1. Client!Failures(j, Client!ZoneFields) = {}
    BY DEF Client!ZoneFailures
  <1>2. Client!Reading(j, Client!F(<<"id">>, "uint32")) = "ok"
    BY <1>1, ZoneFieldsAre, AllRead
  <1>3. /\ Client!Is("obj", j) /\ "id" \in DOMAIN j.obj /\ j.obj["id"] \in Json
        /\ Client!Converted("uint32", j.obj["id"]) # {}
    BY <1>2, FieldRead
  <1>4. Client!Zone(j).externalId = Client!ConvertedTo("uint32", j.obj["id"])
    BY DEF Client!Zone
  <1>5. /\ Client!Zone(j).externalId \in Bits("uint32")
        /\ Client!InRange(j.obj["id"]) => Client!Zone(j).externalId = j.obj["id"].num
    BY <1>3, <1>4, ConvertedIn, Uint32Type
  <1>. DEFINE polygon == Client!ConvertedTo("int", j.obj.zonetype) = 1
  <1>6. Client!Zone(j).polygon <=> polygon
    BY DEF Client!Zone
  <1>7. polygon => Client!Zone(j).points = Client!Polygon(j)
    BY DEF Client!Zone
  <1>8. ASSUME polygon, Len(Client!Polygon(j)) > 1
        PROVE  Client!Polygon(j)[1] = Client!Polygon(j)[Len(Client!Polygon(j))] /\ Len(Client!Polygon(j)) > 2
    <2>1. Client!PolygonFailures(j) = {}
      BY <1>1, <1>8 DEF Client!ZoneFailures
    <2>2. j.obj["points"] \in Json
      BY <2>1, ValueIs DEF Client!PolygonFailures, Client!Lookup
    <2>. DEFINE corners == Client!Items(j.obj["points"])
                Corner(c) == LET l == Client!List("float", c)
                             IN  [lat |-> IF Len(l) > 0 THEN l[1] ELSE 0, lon |-> IF Len(l) > 1 THEN l[2] ELSE 0]
                made == [i \in DOMAIN corners |-> Corner(corners[i])]
    <2>3. Client!Polygon(j) = Client!Closed(made)
      BY DEF Client!Polygon
    <2>4. corners \in Seq(Json)
      BY <2>2, ItemsType
    <2>. HIDE DEF corners, Corner
    <2>5. made \in Seq({Corner(c) : c \in Json})
      BY <2>4
    <2>. HIDE DEF made
    <2>. QED
      BY <1>8, <2>3, <2>5, ClosedIs
  <1>. QED
    BY <1>3, <1>5, <1>6, <1>7, <1>8
-----------------------------------------------------------------------------
(* The samples are read.                                                    *)

NumberTypes == {"double", "size_t", "float", "int", "uint16", "uint32"}

LEMMA NumbersConvert ==
  ASSUME NEW j, Client!Is("num", j), NEW as \in NumberTypes
  PROVE  Client!Converted(as, j) # {}
  BY DEF NumberTypes, Client!Converted, Client!Arithmetic

LEMMA NumeralsConvert ==
  ASSUME NEW j, Client!Is("str", j), j.str \in DOMAIN Numerals
  PROVE  /\ Client!Converted("lexical float", j) # {}
         /\ Numerals[j.str].whole => Client!Converted("lexical uint32", j) # {}
  <1>1. Client!Lexical(j) = {Numerals[j.str]}
    BY DEF Client!Lexical
  <1>. QED
    BY <1>1 DEF Client!Converted

LEMMA FieldReads ==
  ASSUME NEW j, NEW key, NEW as, Client!Is("obj", j), key \in DOMAIN j.obj, Client!Converted(as, j.obj[key]) # {}
  PROVE  Client!Reading(j, Client!F(<<key>>, as)) = "ok"
  <1>. DEFINE f == Client!F(<<key>>, as)
  <1>1. f.path = <<key>> /\ f.as = as /\ f.list = FALSE /\ Len(f.path) = 1 /\ f.path[1] = key
    BY DEF Client!F
  <1>. HIDE DEF f
  <1>2. Client!Reading(j, f) = "ok"
    BY <1>1 DEF Client!Reading, Client!Lookup
  <1>. QED
    BY <1>2 DEF f

LEMMA ListReads ==
  ASSUME NEW j, NEW key, NEW as, Client!Is("obj", j), key \in DOMAIN j.obj, Client!AllConverted(as, j.obj[key])
  PROVE  Client!Reading(j, Client!L(<<key>>, as)) = "ok"
  <1>. DEFINE f == Client!L(<<key>>, as)
  <1>1. f.path = <<key>> /\ f.as = as /\ f.list = TRUE /\ Len(f.path) = 1 /\ f.path[1] = key
    BY DEF Client!L
  <1>. HIDE DEF f
  <1>2. Client!Reading(j, f) = "ok"
    BY <1>1 DEF Client!Reading, Client!Lookup
  <1>. QED
    BY <1>2 DEF f

LEMMA InnerReads ==
  ASSUME NEW j, NEW outer, NEW key, NEW as, Client!Is("obj", j), outer \in DOMAIN j.obj,
         Client!Is("obj", j.obj[outer]), key \in DOMAIN j.obj[outer].obj,
         Client!Converted(as, j.obj[outer].obj[key]) # {}
  PROVE  Client!Reading(j, Client!F(<<outer, key>>, as)) = "ok"
  <1>. DEFINE f == Client!F(<<outer, key>>, as)
  <1>1. f.path = <<outer, key>> /\ f.as = as /\ f.list = FALSE /\ Len(f.path) = 2
        /\ f.path[1] = outer /\ f.path[2] = key
    BY DEF Client!F
  <1>. HIDE DEF f
  <1>. DEFINE inner == IF Len(f.path) = 1 THEN j ELSE j.obj[f.path[1]]
              last == f.path[Len(f.path)]
  <1>3. inner = j.obj[outer] /\ last = key
    BY <1>1
  <1>4. Client!Lookup(j, f.path[1]) = "ok" /\ Client!Lookup(j.obj[outer], key) = "ok"
    BY <1>1 DEF Client!Lookup
  <1>5. Client!Reading(j, f) =
          IF Client!Lookup(j, f.path[1]) # "ok" THEN Client!Lookup(j, f.path[1])
          ELSE IF Client!Lookup(inner, last) # "ok" THEN Client!Lookup(inner, last)
          ELSE IF (IF f.list THEN Client!AllConverted(f.as, inner.obj[last])
                   ELSE Client!Converted(f.as, inner.obj[last]) # {})
          THEN "ok" ELSE "thrown"
    BY Zenon DEF Client!Reading
  <1>. HIDE DEF inner, last
  <1>2. Client!Reading(j, f) = "ok"
    BY <1>1, <1>3, <1>4, <1>5
  <1>. QED
    BY <1>2 DEF f

\* a list of numbers, or null, is converted element by element
LEMMA ListsConvert ==
  ASSUME NEW j, NEW key, NEW n, Client!ListOf(j, key, n), NEW as \in NumberTypes
  PROVE  /\ key \in DOMAIN j.obj /\ Client!AllConverted(as, j.obj[key])
         /\ Client!Items(j.obj[key]) = j.obj[key].arr /\ Len(j.obj[key].arr) \in n
  <1>1. Client!Items(j.obj[key]) = j.obj[key].arr
    BY DEF Client!ListOf, Client!Items
  <1>2. \A i \in DOMAIN j.obj[key].arr : Client!Is("num", j.obj[key].arr[i])
    BY DEF Client!ListOf, Client!Range
  <1>3. Client!AllConverted(as, j.obj[key])
    BY <1>1, <1>2, NumbersConvert DEF Client!AllConverted
  <1>. QED
    BY <1>1, <1>3 DEF Client!ListOf

LEMMA NullsConvert ==
  ASSUME NEW j, Client!Is("nul", j), ~Client!Is("arr", j), ~Client!Is("obj", j), NEW as
  PROVE  Client!AllConverted(as, j)
  <1>1. Client!Items(j) = << >>
    BY DEF Client!Items
  <1>2. DOMAIN Client!Items(j) = {}
    BY <1>1
  <1>. QED
    BY <1>2 DEF Client!AllConverted

LEMMA SampleTasks ==
  ASSUME NEW j, Client!SampleTask(j)
  PROVE  Client!Failures(j, Client!TaskFields) = {}
  <1>1. Client!Is("obj", j)
    BY DEF Client!SampleTask
  <1>2. \A key \in {"id", "capacity", "volume", "maxsize", "vip"} : key \in DOMAIN j.obj /\ Client!Is("num", j.obj[key])
    BY DEF Client!SampleTask, Client!NumbersAt
  <1>3. \A key \in {"id", "capacity", "volume", "maxsize", "vip"}, as \in NumberTypes :
           Client!Reading(j, Client!F(<<key>>, as)) = "ok"
    BY <1>1, <1>2, NumbersConvert, FieldReads
  <1>4. Client!Reading(j, Client!L(<<"types">>, "uint16")) = "ok"
    <2>1. Client!ListOf(j, "types", Nat) /\ "uint16" \in NumberTypes
      BY DEF Client!SampleTask, NumberTypes
    <2>. QED
      BY <1>1, <2>1, ListsConvert, ListReads
  <1>5. ASSUME NEW end \in {"start", "end"}, NEW key \in {"lat", "lon", "ts", "te", "dur"}, NEW as \in NumberTypes
        PROVE  Client!Reading(j, Client!F(<<end, key>>, as)) = "ok"
    <2>1. end \in DOMAIN j.obj /\ Client!Is("obj", j.obj[end]) /\ key \in DOMAIN j.obj[end].obj
          /\ Client!Is("num", j.obj[end].obj[key])
      BY DEF Client!SampleTask, Client!NumbersAt
    <2>. QED
      BY <1>1, <2>1, NumbersConvert, InnerReads
  <1>6. \A end \in {"start", "end"} : \A f \in Client!PointFields(end) : Client!Reading(j, f) = "ok"
    BY <1>5 DEF Client!PointFields, NumberTypes
  <1>7. \A f \in FieldsIn(Client!TaskFields) : Client!Reading(j, f) = "ok"
    BY <1>3, <1>4, <1>6, TaskFieldsAre DEF NumberTypes
  <1>. QED
    BY <1>7, AllRead, TaskFieldsAre

LEMMA SampleVehicles ==
  ASSUME NEW j \in Json, Client!SampleVehicle(j)
  PROVE  Client!Failures(j, Client!VehicleFields) = {}
  <1>1. Client!Is("obj", j)
    BY DEF Client!SampleVehicle
  <1>2. \A key \in {"id", "trip_duration", "trip_length"}, as \in NumberTypes :
           Client!Reading(j, Client!F(<<key>>, as)) = "ok"
    <2>1. \A key \in {"id", "trip_duration", "trip_length"} : key \in DOMAIN j.obj /\ Client!Is("num", j.obj[key])
      BY DEF Client!SampleVehicle, Client!NumbersAt
    <2>. QED
      BY <1>1, <2>1, NumbersConvert, FieldReads
  <1>3. \A key \in {"capacity", "length", "height", "width", "cost_of_using", "trip_max_tasks"} :
           key \in DOMAIN j.obj /\ Client!Is("str", j.obj[key]) /\ j.obj[key].str \in DOMAIN Numerals
    BY DEF Client!SampleVehicle, Client!NumeralsAt
  <1>4. \A key \in {"capacity", "length", "height", "width", "cost_of_using"} :
           Client!Reading(j, Client!F(<<key>>, "lexical float")) = "ok"
    BY <1>1, <1>3, NumeralsConvert, FieldReads
  <1>5. Client!Reading(j, Client!F(<<"trip_max_tasks">>, "lexical uint32")) = "ok"
    <2>1. Numerals[j.obj["trip_max_tasks"].str].whole
      BY DEF Client!SampleVehicle
    <2>. QED
      BY <1>1, <1>3, <2>1, NumeralsConvert, FieldReads
  <1>6. Client!Reading(j, Client!F(<<"cost_per_km">>, "bool")) = "ok"
    <2>1. "cost_per_km" \in DOMAIN j.obj /\ Client!Is("bool", j.obj["cost_per_km"])
      BY DEF Client!SampleVehicle
    <2>2. Client!Converted("bool", j.obj["cost_per_km"]) # {}
      BY <2>1 DEF Client!Converted
    <2>. QED
      BY <1>1, <2>1, <2>2, FieldReads
  <1>7. ASSUME NEW key \in {"working_zone", "restricted_zone"}
        PROVE  Client!Reading(j, Client!L(<<key>>, "uint32")) = "ok"
    <2>1. Client!ListOf(j, key, Nat) \/ (key \in DOMAIN j.obj /\ Client!Is("nul", j.obj[key]))
      BY DEF Client!SampleVehicle
    <2>2. "uint32" \in NumberTypes
      BY DEF NumberTypes
    <2>3. CASE Client!ListOf(j, key, Nat)
      BY <1>1, <2>2, <2>3, ListsConvert, ListReads
    <2>4. CASE key \in DOMAIN j.obj /\ Client!Is("nul", j.obj[key])
      <3>1. j.obj[key] \in Json
        BY <1>1, <2>4, ValueIs
      <3>2. ~Client!Is("arr", j.obj[key]) /\ ~Client!Is("obj", j.obj[key])
        BY <2>4, <3>1, ValueIs DEF Client!Is
      <3>. QED
        BY <1>1, <2>4, <3>2, NullsConvert, ListReads
    <2>. QED
      BY <2>1, <2>3, <2>4
  <1>8. \A f \in FieldsIn(Client!VehicleFields) : Client!Reading(j, f) = "ok"
    BY <1>2, <1>4, <1>5, <1>6, <1>7, VehicleFieldsAre DEF NumberTypes
  <1>. QED
    BY <1>8, AllRead, VehicleFieldsAre

LEMMA SampleZones ==
  ASSUME NEW j, Client!SampleZone(j)
  PROVE  Client!ZoneFailures(j) = {}
  <1>1. Client!Is("obj", j)
    BY DEF Client!SampleZone
  <1>2. \A key \in {"id", "zonetype"} : key \in DOMAIN j.obj /\ Client!Is("num", j.obj[key])
    BY DEF Client!SampleZone, Client!NumbersAt
  <1>3. /\ Client!Reading(j, Client!F(<<"id">>, "uint32")) = "ok"
        /\ Client!Reading(j, Client!F(<<"zonetype">>, "int")) = "ok"
    BY <1>1, <1>2, NumbersConvert, FieldReads DEF NumberTypes
  <1>4. Client!Failures(j, Client!ZoneFields) = {}
    BY <1>3, ZoneFieldsAre, AllRead
  <1>5. Client!ConvertedTo("int", j.obj["zonetype"]) = j.obj["zonetype"].num
    <2>1. Client!Converted("int", j.obj["zonetype"]) = {j.obj["zonetype"].num}
      BY <1>2 DEF Client!Converted, Client!Arithmetic
    <2>. QED
      BY <2>1, ConvertedIn
  <1>6. CASE j.obj["zonetype"].num = 2 /\ Client!ListOf(j, "points", {3})
    <2>1. "double" \in NumberTypes
      BY DEF NumberTypes
    <2>2. /\ "points" \in DOMAIN j.obj /\ Client!AllConverted("double", j.obj["points"])
          /\ Client!Items(j.obj["points"]) = j.obj["points"].arr /\ Len(j.obj["points"].arr) \in {3}
      BY <1>6, <2>1, ListsConvert
    <2>3. Client!CircleFailures(j) = {}
      BY <1>1, <2>2 DEF Client!CircleFailures, Client!Lookup
    <2>. QED
      BY <1>4, <1>5, <1>6, <2>3 DEF Client!ZoneFailures
  <1>7. CASE /\ j.obj["zonetype"].num = 1 /\ "points" \in DOMAIN j.obj /\ Client!Is("arr", j.obj["points"])
             /\ \A corner \in Client!Range(j.obj["points"].arr) :
                   Client!ListOf([obj |-> [corner |-> corner]], "corner", {2})
    <2>1. "float" \in NumberTypes
      BY DEF NumberTypes
    <2>2. Client!Items(j.obj["points"]) = j.obj["points"].arr
      BY <1>7 DEF Client!Items
    <2>3. ASSUME NEW i \in DOMAIN j.obj["points"].arr
          PROVE  /\ Len(Client!Items(j.obj["points"].arr[i])) <= 2
                 /\ Client!AllConverted("float", j.obj["points"].arr[i])
      <3>. DEFINE corner == j.obj["points"].arr[i]
                  holder == [obj |-> [corner |-> corner]]
      <3>1. Client!ListOf(holder, "corner", {2})
        BY <1>7 DEF Client!Range
      <3>2. holder.obj["corner"] = corner
        OBVIOUS
      <3>. HIDE DEF holder, corner
      <3>3. /\ Client!AllConverted("float", holder.obj["corner"])
            /\ Client!Items(holder.obj["corner"]) = holder.obj["corner"].arr /\ Len(holder.obj["corner"].arr) \in {2}
        BY <3>1, <2>1, ListsConvert
      <3>4. Client!AllConverted("float", corner) /\ Len(Client!Items(corner)) = 2
        BY <3>2, <3>3
      <3>. QED
        BY <3>4 DEF corner
    <2>4. Client!PolygonFailures(j) = {}
      BY <1>1, <1>7, <2>2, <2>3 DEF Client!PolygonFailures, Client!Lookup
    <2>. QED
      BY <1>4, <1>5, <1>7, <2>4 DEF Client!ZoneFailures
  <1>. QED
    BY <1>6, <1>7 DEF Client!SampleZone
-----------------------------------------------------------------------------
(* The argument of JsonParser.                                              *)

\* the members that the backend makes of those of the settings it was given
SettingsOf(b) ==
    [obj |-> [key \in DOMAIN Client!GoSettings |->
        Client!Member(Client!Member(b, "settings", [obj |-> << >>]), key, Client!GoSettings[key].preset)]]

LEMMA MarshalledIs ==
  ASSUME NEW b, NEW r, r = Client!Marshalled(b)
  PROVE  /\ Client!Is("obj", r)
         /\ DOMAIN r.obj = {"account_id", "vehicles", "zones", "tasks", "settings"}
         /\ \A key \in {"zones", "vehicles", "tasks"} : r.obj[key] = Client!Member(b, key, Client!Null)
         /\ r.obj["account_id"] = Client!Member(b, "account_id", [num |-> 0])
         /\ r.obj["settings"] = SettingsOf(b)
  <1>. DEFINE s == [obj |-> [key \in DOMAIN Client!GoSettings |->
                 Client!Member(Client!Member(b, "settings", [obj |-> << >>]), key, Client!GoSettings[key].preset)]]
  <1>1. r = [obj |-> [account_id |-> Client!Member(b, "account_id", [num |-> 0]),
                      vehicles |-> Client!Member(b, "vehicles", Client!Null),
                      zones |-> Client!Member(b, "zones", Client!Null),
                      tasks |-> Client!Member(b, "tasks", Client!Null),
                      settings |-> s]]
    BY Zenon DEF Client!Marshalled
  <1>2. s = SettingsOf(b)
    BY Zenon DEF SettingsOf
  <1>. HIDE DEF s
  <1>. QED
    BY <1>1, <1>2 DEF Client!Is

\* the range of one of the loops
RangeIn(r, key) == Client!Items(r.obj[key])

LEMMA RangesIn ==
  ASSUME NEW b \in Json, NEW key \in {"zones", "vehicles", "tasks"}, NEW r,
         \/ r = b /\ Client!Lookup(r, key) = "ok"
         \/ r = Client!Marshalled(b)
  PROVE  /\ RangeIn(r, key) \in Seq(Json)
         /\ r = Client!Marshalled(b) =>
              Client!Lookup(r, key) = "ok" /\ RangeIn(r, key) = Client!Items(Client!Member(b, key, Client!Null))
  <1>1. ASSUME r = b /\ Client!Lookup(r, key) = "ok" PROVE RangeIn(r, key) \in Seq(Json)
    <2>1. r.obj[key] \in Json
      BY <1>1, ValueIs DEF Client!Lookup
    <2>. QED
      BY <2>1, ItemsType DEF RangeIn
  <1>2. ASSUME r = Client!Marshalled(b)
        PROVE  /\ RangeIn(r, key) \in Seq(Json) /\ Client!Lookup(r, key) = "ok"
               /\ RangeIn(r, key) = Client!Items(Client!Member(b, key, Client!Null))
    <2>1. Client!Lookup(r, key) = "ok" /\ r.obj[key] = Client!Member(b, key, Client!Null)
      BY <1>2, MarshalledIs DEF Client!Lookup
    <2>2. CASE Client!Given(b, key)
      <3>1. r.obj[key] = b.obj[key] /\ b.obj[key] \in Json
        BY <2>1, <2>2, ValueIs DEF Client!Member, Client!Given
      <3>. QED
        BY <2>1, <3>1, ItemsType DEF RangeIn
    <2>3. CASE ~Client!Given(b, key)
      <3>1. r.obj[key] = Client!Null
        BY <2>1, <2>3 DEF Client!Member
      <3>2. Client!Items(Client!Null) = << >>
        BY DEF Client!Items, Client!Is, Client!Null
      <3>3. << >> \in Seq(Json)
        OBVIOUS
      <3>. QED
        BY <2>1, <3>1, <3>2, <3>3 DEF RangeIn
    <2>. QED
      BY <2>2, <2>3
  <1>. QED
    BY <1>1, <1>2

\* the settings' types on both sides
LEMMA GoSettingsAre ==
  /\ DOMAIN Client!GoSettings =
       {"mean_track_speed_km_in_hour", "colony_size_limit", "trial_count_max_limit", "max_time_in_sec",
        "max_inactive_time_in_sec", "log_level", "partial_solution_enabled", "multi_threaded"}
  /\ \A key \in {"mean_track_speed_km_in_hour", "colony_size_limit", "trial_count_max_limit",
                 "max_time_in_sec", "max_inactive_time_in_sec"} :
        Client!GoSettings[key].type \in {"int32", "int64"} /\ Client!Is("num", Client!GoSettings[key].preset)
  /\ Client!GoSettings["log_level"].type = "string" /\ Client!Is("str", Client!GoSettings["log_level"].preset)
  /\ \A key \in {"partial_solution_enabled", "multi_threaded"} :
        Client!GoSettings[key].type = "bool" /\ Client!Is("bool", Client!GoSettings[key].preset)
  /\ \A key \in {"partial_solution_enabled", "multi_threaded"} : Client!GoSettings[key].preset.bool = FALSE
  /\ Client!GoSettings["mean_track_speed_km_in_hour"].preset.num = 90
  /\ Client!GoSettings["colony_size_limit"].preset.num = 100
  /\ Client!GoSettings["trial_count_max_limit"].preset.num = 50
  /\ Client!GoSettings["max_time_in_sec"].preset.num = 300
  /\ Client!GoSettings["max_inactive_time_in_sec"].preset.num = 30
  BY DEF Client!GoSettings, Client!Is

LEMMA SettingTypesAre ==
  /\ DOMAIN Client!SettingTypes =
       {"mean_track_speed_km_in_hour", "colony_size_limit", "trial_count_max_limit", "max_time_in_sec",
        "max_inactive_time_in_sec", "log_level", "partial_solution_enabled", "multi_threaded"}
  /\ Client!SettingTypes["mean_track_speed_km_in_hour"] = "double"
  /\ \A key \in {"colony_size_limit", "trial_count_max_limit", "max_time_in_sec", "max_inactive_time_in_sec"} :
        Client!SettingTypes[key] = "size_t"
  /\ Client!SettingTypes["log_level"] = "string"
  /\ \A key \in {"partial_solution_enabled", "multi_threaded"} : Client!SettingTypes[key] = "bool"
  BY DEF Client!SettingTypes

LEMMA FiniteEight ==
  ASSUME NEW a1, NEW a2, NEW a3, NEW a4, NEW a5, NEW a6, NEW a7, NEW a8
  PROVE  IsFiniteSet({a1, a2, a3, a4, a5, a6, a7, a8})
  <1>. DEFINE f == <<a1, a2, a3, a4, a5, a6, a7, a8>>
              S == {a1, a2, a3, a4, a5, a6, a7, a8}
  <1>1. f \in Seq(S) /\ Len(f) = 8
    OBVIOUS
  <1>2. \A x \in S : \E n \in 1 .. 8 : f[n] = x
    <2>1. /\ f[1] = a1 /\ f[2] = a2 /\ f[3] = a3 /\ f[4] = a4
          /\ f[5] = a5 /\ f[6] = a6 /\ f[7] = a7 /\ f[8] = a8
      OBVIOUS
    <2>2. 1 \in 1 .. 8 /\ 2 \in 1 .. 8 /\ 3 \in 1 .. 8 /\ 4 \in 1 .. 8
          /\ 5 \in 1 .. 8 /\ 6 \in 1 .. 8 /\ 7 \in 1 .. 8 /\ 8 \in 1 .. 8
      OBVIOUS
    <2>. HIDE DEF f
    <2>. QED
      BY <2>1, <2>2
  <1>. HIDE DEF f, S
  <1>3. \E q \in Seq(S) : \A x \in S : \E n \in 1 .. Len(q) : q[n] = x
    BY <1>1, <1>2
  <1>4. IsFiniteSet(S)
    BY <1>3 DEF IsFiniteSet
  <1>. QED
    BY <1>4 DEF S

\* What the backend sends is always found and converted.
LEMMA SettingsRead ==
  ASSUME NEW b \in Json, Client!Binds(b), NEW s, s = SettingsOf(b)
  PROVE  /\ ~Client!IsEmpty(s)
         /\ Client!Found(s) = DOMAIN Client!SettingTypes
         /\ \A key \in Client!Found(s) : Client!Converted(Client!SettingTypes[key], s.obj[key]) # {}
         /\ \A key \in DOMAIN Client!GoSettings :
               ~Client!Given(Client!Member(b, "settings", Client!Null), key) => s.obj[key] = Client!GoSettings[key].preset
  <1>. DEFINE given == Client!Member(b, "settings", [obj |-> << >>])
              keys == DOMAIN Client!GoSettings
  <1>1. /\ Client!Is("obj", s) /\ DOMAIN s = {"obj"} /\ DOMAIN s.obj = keys
        /\ \A key \in keys : s.obj[key] = Client!Member(given, key, Client!GoSettings[key].preset)
    BY DEF SettingsOf, Client!Is
  <1>. HIDE DEF given
  <1>2. IsFiniteSet(keys) /\ keys # {}
    <2>. DEFINE all == {"mean_track_speed_km_in_hour", "colony_size_limit", "trial_count_max_limit", "max_time_in_sec",
                        "max_inactive_time_in_sec", "log_level", "partial_solution_enabled", "multi_threaded"}
    <2>1. IsFiniteSet(all) /\ all # {}
      BY FiniteEight
    <2>. QED
      BY <2>1, GoSettingsAre
  <1>3. ~Client!IsEmpty(s)
    <2>. DEFINE J == {s.obj[key] : key \in keys}
    <2>2. \A key \in DOMAIN s.obj : s.obj[key] \in J
      BY <1>1
    <2>. HIDE DEF J
    <2>1. Client!Items(s) # << >>
      BY <1>1, <1>2, <2>2, ItemsOfObject
    <2>. QED
      BY <2>1 DEF Client!IsEmpty
  <1>4. keys = DOMAIN Client!SettingTypes
    BY GoSettingsAre, SettingTypesAre
  <1>5. Client!Found(s) = DOMAIN Client!SettingTypes
    BY <1>1, <1>4 DEF Client!Found, Client!Lookup
  <1>6. \A key \in keys : Client!Given(given, key) => Client!GoTakes(Client!GoSettings[key].type, s.obj[key])
    <2>1. Client!Given(b, "settings") => given = b.obj["settings"]
      BY DEF given, Client!Member
    <2>2. ~Client!Given(b, "settings") => \A key : ~Client!Given(given, key)
      BY DEF given, Client!Member, Client!Given
    <2>3. Client!Given(b, "settings") =>
            \A key \in keys : Client!Given(b.obj["settings"], key) =>
                                Client!GoTakes(Client!GoSettings[key].type, b.obj["settings"].obj[key])
      BY DEF Client!Binds
    <2>4. \A key \in keys : Client!Given(given, key) => s.obj[key] = given.obj[key]
      BY <1>1 DEF Client!Member
    <2>. QED
      BY <2>1, <2>2, <2>3, <2>4
  <1>7. ASSUME NEW key \in keys
        PROVE  /\ Client!GoSettings[key].type \in {"int32", "int64"} => Client!Is("num", s.obj[key])
               /\ Client!GoSettings[key].type = "string" => Client!Is("str", s.obj[key])
               /\ Client!GoSettings[key].type = "bool" => Client!Is("bool", s.obj[key])
    <2>1. CASE Client!Given(given, key)
      <3>1. Client!GoTakes(Client!GoSettings[key].type, s.obj[key])
        BY <1>6, <2>1
      <3>. QED
        BY <3>1 DEF Client!GoTakes
    <2>2. CASE ~Client!Given(given, key)
      <3>1. s.obj[key] = Client!GoSettings[key].preset
        BY <1>1, <2>2 DEF Client!Member
      <3>. QED
        BY <3>1, GoSettingsAre
    <2>. QED
      BY <2>1, <2>2
  <1>8. ASSUME NEW key \in keys PROVE Client!Converted(Client!SettingTypes[key], s.obj[key]) # {}
    <2>1. CASE Client!SettingTypes[key] \in {"double", "size_t"}
      <3>1. Client!Is("num", s.obj[key])
        BY <1>7, <2>1, GoSettingsAre, SettingTypesAre
      <3>. QED
        BY <2>1, <3>1, NumbersConvert DEF NumberTypes
    <2>2. CASE Client!SettingTypes[key] = "string"
      <3>1. Client!Is("str", s.obj[key])
        BY <1>7, <2>2, GoSettingsAre, SettingTypesAre
      <3>. QED
        BY <2>2, <3>1 DEF Client!Converted
    <2>3. CASE Client!SettingTypes[key] = "bool"
      <3>1. Client!Is("bool", s.obj[key])
        BY <1>7, <2>3, GoSettingsAre, SettingTypesAre
      <3>. QED
        BY <2>3, <3>1 DEF Client!Converted
    <2>. QED
      BY <2>1, <2>2, <2>3, GoSettingsAre, SettingTypesAre
  <1>9. ASSUME NEW key \in keys, ~Client!Given(Client!Member(b, "settings", Client!Null), key)
        PROVE  s.obj[key] = Client!GoSettings[key].preset
    <2>1. ~Client!Given(given, key)
      BY <1>9 DEF given, Client!Member, Client!Given
    <2>. QED
      BY <1>1, <2>1 DEF Client!Member
  <1>. QED
    BY <1>3, <1>4, <1>5, <1>8, <1>9

\* The values that the backend fills in are converted to the library's own.
LEMMA PresetsAreDefaults ==
  /\ Client!ConvertedTo("double", Client!GoSettings["mean_track_speed_km_in_hour"].preset) = 90
  /\ \A key \in {"colony_size_limit", "trial_count_max_limit", "max_time_in_sec", "max_inactive_time_in_sec"} :
        Client!ConvertedTo("size_t", Client!GoSettings[key].preset) = Client!Defaults[key]
  /\ \A key \in {"partial_solution_enabled", "multi_threaded"} :
        Client!ConvertedTo("bool", Client!GoSettings[key].preset) = Client!Defaults[key]
  <1>1. Client!Converted("double", Client!GoSettings["mean_track_speed_km_in_hour"].preset) = {90}
    BY GoSettingsAre DEF Client!Converted
  <1>2. ASSUME NEW key \in {"colony_size_limit", "trial_count_max_limit", "max_time_in_sec", "max_inactive_time_in_sec"}
        PROVE  Client!Converted("size_t", Client!GoSettings[key].preset) = {Client!Defaults[key]}
    <2>. DEFINE n == Client!GoSettings[key].preset.num
    <2>1. key \in DOMAIN Client!GoSettings /\ Client!Is("num", Client!GoSettings[key].preset)
      BY GoSettingsAre
    <2>2. n = Client!Defaults[key]
      <3>1. /\ Client!Defaults["colony_size_limit"] = 100 /\ Client!Defaults["trial_count_max_limit"] = 50
            /\ Client!Defaults["max_time_in_sec"] = 300 /\ Client!Defaults["max_inactive_time_in_sec"] = 30
        BY DEF Client!Defaults
      <3>. QED
        BY <3>1, GoSettingsAre
    <2>3. n \in 0 .. Modulus.size_t - 1
      BY <2>1, RequestAssumption
    <2>. HIDE DEF n
    <2>4. n % Modulus["size_t"] = n
      <3>1. n \in 0 .. Modulus["size_t"] - 1 /\ Modulus["size_t"] \in Nat \ {0, 1}
        BY <2>3, ModulusIs
      <3>2. n \in Int
        BY <3>1
      <3>. HIDE <2>3
      <3>. QED
        BY <3>1, <3>2, Remainder, Zenon
    <2>5. Client!Converted("size_t", Client!GoSettings[key].preset) = {n % Modulus["size_t"]}
      BY <2>1 DEF n, Client!Converted, Client!Narrowed
    <2>. QED
      BY <2>2, <2>4, <2>5
  <1>3. ASSUME NEW key \in {"partial_solution_enabled", "multi_threaded"}
        PROVE  Client!Converted("bool", Client!GoSettings[key].preset) = {Client!Defaults[key]}
    <2>1. Client!Defaults[key] = FALSE
      <3>1. /\ Client!Defaults["partial_solution_enabled"] = FALSE
            /\ Client!Defaults["multi_threaded"] = FALSE
        BY DEF Client!Defaults
      <3>. QED
        BY <3>1
    <2>2. Client!Is("bool", Client!GoSettings[key].preset) /\ Client!GoSettings[key].preset.bool = FALSE
      BY GoSettingsAre
    <2>3. Client!Converted("bool", Client!GoSettings[key].preset) = {Client!GoSettings[key].preset.bool}
      BY <2>2 DEF Client!Converted
    <2>. QED
      BY <2>1, <2>2, <2>3
  <1>. QED
    BY <1>1, <1>2, <1>3, ConvertedIn
-----------------------------------------------------------------------------
(* The invariant of a request.                                              *)

\* what is made of an object, and how it can fail
Kept(key, j) ==
    CASE key = "zones" -> Client!Zone(j)
      [] key = "vehicles" -> Client!Fields(j, Client!VehicleFields)
      [] key = "tasks" -> Client!Task(j)
FailuresOf(key, j) ==
    CASE key = "zones" -> Client!ZoneFailures(j)
      [] key = "vehicles" -> Client!Failures(j, Client!VehicleFields)
      [] key = "tasks" -> Client!Failures(j, Client!TaskFields)

\* The objects that there are so far are those of the range, in its order.
ObjectsRead(objects, key, r) ==
    /\ objects \in Seq({Kept(key, j) : j \in Json})
    /\ objects # << >> => RangeIn(r, key) \in Seq(Json) /\ Len(objects) <= Len(RangeIn(r, key))
    /\ \A i \in DOMAIN objects :
          /\ FailuresOf(key, RangeIn(r, key)[i]) = {}
          /\ objects[i] = Kept(key, RangeIn(r, key)[i])

LEMMA AppendRead ==
  ASSUME NEW key, NEW r, RangeIn(r, key) \in Seq(Json), NEW objects, ObjectsRead(objects, key, r),
         Len(objects) < Len(RangeIn(r, key)),
         NEW j, j = RangeIn(r, key)[Len(objects) + 1], FailuresOf(key, j) = {}
  PROVE  ObjectsRead(Append(objects, Kept(key, j)), key, r)
  <1>. DEFINE S == {Kept(key, k) : k \in Json}
              range == RangeIn(r, key)
              longer == Append(objects, Kept(key, j))
  <1>1. objects \in Seq(S) /\ Len(objects) \in Nat /\ Len(objects) < Len(range)
    BY DEF ObjectsRead
  <1>2. Len(objects) + 1 \in 1 .. Len(range) /\ range \in Seq(Json)
    BY <1>1
  <1>3. j \in Json /\ Kept(key, j) \in S
    BY <1>2
  <1>. HIDE DEF S
  <1>4. /\ longer \in Seq(S) /\ Len(longer) = Len(objects) + 1
        /\ \A i \in DOMAIN objects : longer[i] = objects[i]
        /\ longer[Len(objects) + 1] = Kept(key, j)
        /\ \A i \in DOMAIN longer : i \in DOMAIN objects \/ i = Len(objects) + 1
    BY <1>1, <1>3
  <1>5. Len(longer) <= Len(range)
    BY <1>1, <1>2, <1>4
  <1>6. \A i \in DOMAIN longer : FailuresOf(key, range[i]) = {} /\ longer[i] = Kept(key, range[i])
    BY <1>4 DEF ObjectsRead
  <1>. QED
    BY <1>2, <1>4, <1>5, <1>6 DEF ObjectsRead, S

\* What is read is what was sent to the parser, which is what the backend made
\* of what was posted, or the text.
ClientInv ==
    /\ body \in Json
    /\ posted \in BOOLEAN
    /\ requestPc \in {"bind", "zones", "vehicles", "tasks", "settings", "done", "refused", "thrown", "undefined"}
    /\ ~posted => root = body /\ requestPc \notin {"bind", "refused"}
    /\ posted /\ requestPc \notin {"bind", "refused"} => Client!Binds(body) /\ root = Client!Marshalled(body)
    /\ requestPc \in {"bind", "refused"} => zones = << >>
    /\ requestPc \in {"bind", "refused", "zones"} => vehicles = << >>
    /\ requestPc \in {"bind", "refused", "zones", "vehicles"} => tasks = << >>
    /\ ObjectsRead(zones, "zones", root)
    /\ ObjectsRead(vehicles, "vehicles", root)
    /\ ObjectsRead(tasks, "tasks", root)
    /\ requestPc \in {"vehicles", "tasks", "settings", "done"} => Len(zones) = Len(RangeIn(root, "zones"))
    /\ requestPc \in {"tasks", "settings", "done"} => Len(vehicles) = Len(RangeIn(root, "vehicles"))
    /\ requestPc \in {"settings", "done"} => Len(tasks) = Len(RangeIn(root, "tasks"))
    /\ requestPc # "done" => settings = Client!Defaults
    /\ Client!DefaultsAgree
    /\ Client!RootComplete
    /\ Client!SamplesAccepted

\* the ways to undefined behaviour that there are
Incomplete ==
    \/ \E z \in Client!Range(Client!Elements("zones")) : "undefined" \in Client!ZoneFailures(z)
    \/ \E v \in Client!Range(Client!Elements("vehicles")) : "undefined" \in Client!Failures(v, Client!VehicleFields)
    \/ \E t \in Client!Range(Client!Elements("tasks")) : "undefined" \in Client!Failures(t, Client!TaskFields)

LEMMA EmptyRead == ASSUME NEW key, NEW r PROVE ObjectsRead(<< >>, key, r)
  BY DEF ObjectsRead

LEMMA ClientBegins == ASSUME Client!Init PROVE ClientInv
  <1>1. ObjectsRead(zones, "zones", root) /\ ObjectsRead(vehicles, "vehicles", root) /\ ObjectsRead(tasks, "tasks", root)
    BY EmptyRead DEF Client!Init
  <1>2. body \in Json /\ posted \in BOOLEAN /\ settings = Client!Defaults
    BY RequestAssumption DEF Client!Init
  <1>3. zones = << >> /\ vehicles = << >> /\ tasks = << >>
    BY DEF Client!Init
  <1>4. \/ posted = TRUE /\ requestPc = "bind"
        \/ posted = FALSE /\ requestPc = "zones" /\ root = body
    BY DEF Client!Init
  <1>5. Client!DefaultsAgree /\ Client!RootComplete /\ Client!SamplesAccepted
    BY <1>4 DEF Client!DefaultsAgree, Client!RootComplete, Client!SamplesAccepted
  <1>. QED
    BY <1>1, <1>2, <1>3, <1>4, <1>5 DEF ClientInv

\* a step that ends with an exception or with undefined behaviour
LEMMA ClientFails ==
  ASSUME ClientInv, NEW ends, ends \subseteq {"thrown", "undefined"}, Client!Fail(ends),
         requestPc \in {"zones", "vehicles", "tasks", "settings"},
         posted /\ "undefined" \in ends => Incomplete,
         posted => body \notin Samples
  PROVE  ClientInv'
  <1>1. /\ body' = body /\ posted' = posted /\ root' = root /\ zones' = zones /\ vehicles' = vehicles
        /\ tasks' = tasks /\ settings' = settings
        /\ requestPc' \in ends
    BY DEF Client!Fail
  <1>2. requestPc' \in {"thrown", "undefined"}
    BY <1>1
  <1>3. Client!DefaultsAgree'
    BY <1>2 DEF Client!DefaultsAgree
  <1>4. Client!SamplesAccepted'
    BY <1>1 DEF Client!SamplesAccepted
  <1>5. Client!RootComplete'
    <2>1. posted /\ requestPc' = "undefined" => Incomplete
      BY <1>1
    <2>2. Incomplete => Incomplete'
      BY <1>1 DEF Incomplete, Client!Elements
    <2>. QED
      BY <1>1, <2>1, <2>2 DEF Client!RootComplete, Incomplete
  <1>6. ObjectsRead(zones', "zones", root') /\ ObjectsRead(vehicles', "vehicles", root') /\ ObjectsRead(tasks', "tasks", root')
    BY <1>1 DEF ClientInv
  <1>. QED
    BY <1>1, <1>2, <1>3, <1>4, <1>5, <1>6 DEF ClientInv
LEMMA RangeIs ==
  ASSUME ClientInv, NEW key \in {"zones", "vehicles", "tasks"}, requestPc \notin {"bind", "refused"}
  PROVE  /\ Client!Lookup(root, key) = "ok" =>
              RangeIn(root, key) \in Seq(Json) /\ Client!RangeOf(key) = RangeIn(root, key)
         /\ posted => Client!Lookup(root, key) = "ok" /\ RangeIn(root, key) = Client!Elements(key)
  <1>1. body \in Json /\ posted \in BOOLEAN
    BY DEF ClientInv
  <1>2. CASE posted
    <2>1. root = Client!Marshalled(body)
      BY <1>2 DEF ClientInv
    <2>2. /\ RangeIn(root, key) \in Seq(Json) /\ Client!Lookup(root, key) = "ok"
          /\ RangeIn(root, key) = Client!Items(Client!Member(body, key, Client!Null))
      BY <1>1, <2>1, RangesIn
    <2>. QED
      BY <2>2 DEF Client!RangeOf, RangeIn, Client!Elements
  <1>3. CASE ~posted
    <2>1. root = body
      BY <1>3 DEF ClientInv
    <2>2. Client!Lookup(root, key) = "ok" => RangeIn(root, key) \in Seq(Json)
      BY <1>1, <2>1, RangesIn
    <2>. QED
      BY <1>3, <2>2 DEF Client!RangeOf, RangeIn
  <1>. QED
    BY <1>1, <1>2, <1>3

LEMMA ClientBinds == ASSUME ClientInv, Client!Bind PROVE ClientInv'
  <1>1. /\ requestPc = "bind" /\ body' = body /\ posted' = posted /\ zones' = zones /\ vehicles' = vehicles
        /\ tasks' = tasks /\ settings' = settings
        /\ \/ Client!Binds(body) /\ requestPc' = "zones" /\ root' = Client!Marshalled(body)
           \/ ~Client!Binds(body) /\ requestPc' = "refused"
    BY DEF Client!Bind
  <1>2. posted /\ zones = << >> /\ vehicles = << >> /\ tasks = << >> /\ settings = Client!Defaults
    BY <1>1 DEF ClientInv
  <1>3. ObjectsRead(zones', "zones", root') /\ ObjectsRead(vehicles', "vehicles", root') /\ ObjectsRead(tasks', "tasks", root')
    BY <1>1, <1>2, EmptyRead
  <1>4. Client!DefaultsAgree' /\ Client!RootComplete'
    BY <1>1 DEF Client!DefaultsAgree, Client!RootComplete
  <1>5. Client!SamplesAccepted'
    <2>1. body \in Samples => Client!Binds(body)
      BY RequestAssumption DEF Client!SampleForm
    <2>. QED
      BY <1>1, <2>1 DEF Client!SamplesAccepted
  <1>6. body' \in Json /\ posted' \in BOOLEAN
    BY <1>1 DEF ClientInv
  <1>. QED
    BY <1>1, <1>2, <1>3, <1>4, <1>5, <1>6 DEF ClientInv

LEMMA ClientHasRange == ASSUME ClientInv, Client!NoRange PROVE ClientInv'
  <1>. DEFINE ends == {Client!Lookup(root, requestPc)}
  <1>1. requestPc \in {"zones", "vehicles", "tasks"} /\ Client!Lookup(root, requestPc) # "ok" /\ Client!Fail(ends)
    BY DEF Client!NoRange
  <1>2. ~posted
    BY <1>1, RangeIs
  <1>3. ends \subseteq {"thrown", "undefined"}
    BY <1>1 DEF Client!Lookup
  <1>. HIDE DEF ends
  <1>. QED
    BY <1>1, <1>2, <1>3, ClientFails

\* what the samples' form says of the objects of one
LEMMA SampleObjects ==
  ASSUME posted, body \in Samples, NEW key \in {"zones", "vehicles", "tasks"},
         Client!Elements(key) \in Seq(Json), NEW j \in Client!Range(Client!Elements(key))
  PROVE  FailuresOf(key, j) = {}
  <1>1. Client!SampleForm(body)
    BY RequestAssumption
  <1>2. j \in Json
    BY DEF Client!Range
  <1>3. CASE key = "zones"
    <2>1. Client!SampleZone(j)
      BY <1>1, <1>3 DEF Client!SampleForm, Client!Elements
    <2>. QED
      BY <1>3, <2>1, SampleZones DEF FailuresOf
  <1>4. CASE key = "vehicles"
    <2>1. Client!SampleVehicle(j)
      BY <1>1, <1>4 DEF Client!SampleForm, Client!Elements
    <2>. QED
      BY <1>2, <1>4, <2>1, SampleVehicles DEF FailuresOf
  <1>5. CASE key = "tasks"
    <2>1. Client!SampleTask(j)
      BY <1>1, <1>5 DEF Client!SampleForm, Client!Elements
    <2>. QED
      BY <1>5, <2>1, SampleTasks DEF FailuresOf
  <1>. QED
    BY <1>3, <1>4, <1>5

LEMMA FailureEnds ==
  ASSUME NEW key \in {"zones", "vehicles", "tasks"}, NEW j
  PROVE  FailuresOf(key, j) \subseteq {"thrown", "undefined"}
  <1>1. Client!ZoneFailures(j) \subseteq {"thrown", "undefined"}
    BY ZoneEnds
  <1>2. Client!Failures(j, Client!VehicleFields) \subseteq {"thrown", "undefined"}
    BY FailuresAre, VehicleFieldsAre
  <1>3. Client!Failures(j, Client!TaskFields) \subseteq {"thrown", "undefined"}
    BY FailuresAre, TaskFieldsAre
  <1>. QED
    BY <1>1, <1>2, <1>3 DEF FailuresOf

\* The next object of a loop fails as a request of its kind may fail, or it is
\* one more of those that are read.
LEMMA ObjectParsed ==
  ASSUME ClientInv, NEW key \in {"zones", "vehicles", "tasks"}, requestPc = key, Client!Lookup(root, key) = "ok",
         NEW objects, ObjectsRead(objects, key, root), Len(objects) < Len(Client!RangeOf(key)),
         NEW j, j = Client!RangeOf(key)[Len(objects) + 1]
  PROVE  /\ FailuresOf(key, j) # {} /\ Client!Fail(FailuresOf(key, j)) => ClientInv'
         /\ FailuresOf(key, j) = {} => ObjectsRead(Append(objects, Kept(key, j)), key, root)
         /\ Len(objects) + 1 <= Len(RangeIn(root, key))
  <1>1. /\ RangeIn(root, key) \in Seq(Json) /\ Client!RangeOf(key) = RangeIn(root, key)
        /\ posted => RangeIn(root, key) = Client!Elements(key)
    BY RangeIs
  <1>2. Len(objects) \in Nat
    BY DEF ObjectsRead
  <1>3. Len(objects) + 1 \in 1 .. Len(RangeIn(root, key)) /\ Len(objects) + 1 <= Len(RangeIn(root, key))
    BY <1>1, <1>2
  <1>4. posted => j \in Client!Range(Client!Elements(key)) /\ Client!Elements(key) \in Seq(Json)
    <2>1. Len(objects) + 1 \in DOMAIN RangeIn(root, key)
      BY <1>1, <1>3
    <2>. QED
      BY <1>1, <2>1 DEF Client!Range
  <1>5. FailuresOf(key, j) = {} => ObjectsRead(Append(objects, Kept(key, j)), key, root)
    BY <1>1, AppendRead
  <1>6. ASSUME FailuresOf(key, j) # {}, Client!Fail(FailuresOf(key, j)) PROVE ClientInv'
    <2>1. FailuresOf(key, j) \subseteq {"thrown", "undefined"}
      BY FailureEnds
    <2>2. posted => body \notin Samples
      BY <1>4, <1>6, SampleObjects
    <2>3. posted /\ "undefined" \in FailuresOf(key, j) => Incomplete
      BY <1>4 DEF Incomplete, FailuresOf
    <2>. QED
      BY <1>6, <2>1, <2>2, <2>3, ClientFails
  <1>. QED
    BY <1>3, <1>5, <1>6

\* what holds as long as the request is neither done nor refused
LEMMA ClientGoesOn ==
  ASSUME ClientInv, requestPc' \in {"zones", "vehicles", "tasks", "settings"}
  PROVE  Client!DefaultsAgree' /\ Client!RootComplete' /\ Client!SamplesAccepted'
  BY DEF Client!DefaultsAgree, Client!RootComplete, Client!SamplesAccepted

LEMMA ClientParsesZone == ASSUME ClientInv, Client!ParseZone PROVE ClientInv'
  <1>. DEFINE j == Client!RangeOf("zones")[Len(zones) + 1]
  <1>1. /\ requestPc = "zones" /\ Client!Lookup(root, "zones") = "ok" /\ Len(zones) < Len(Client!RangeOf("zones"))
        /\ \/ FailuresOf("zones", j) # {} /\ Client!Fail(FailuresOf("zones", j))
           \/ /\ FailuresOf("zones", j) = {} /\ zones' = Append(zones, Kept("zones", j))
              /\ UNCHANGED <<body, posted, root, requestPc, vehicles, tasks, settings>>
    BY DEF Client!ParseZone, Client!Parsing, FailuresOf, Kept
  <1>2. ObjectsRead(zones, "zones", root)
    BY DEF ClientInv
  <1>. HIDE DEF j
  <1>3. /\ FailuresOf("zones", j) # {} /\ Client!Fail(FailuresOf("zones", j)) => ClientInv'
        /\ FailuresOf("zones", j) = {} => ObjectsRead(Append(zones, Kept("zones", j)), "zones", root)
    BY <1>1, <1>2, ObjectParsed DEF j
  <1>4. ASSUME /\ FailuresOf("zones", j) = {} /\ zones' = Append(zones, Kept("zones", j))
               /\ UNCHANGED <<body, posted, root, requestPc, vehicles, tasks, settings>>
        PROVE  ClientInv'
    <2>1. ObjectsRead(zones', "zones", root') /\ ObjectsRead(vehicles', "vehicles", root') /\ ObjectsRead(tasks', "tasks", root')
      BY <1>3, <1>4 DEF ClientInv
    <2>2. Client!DefaultsAgree' /\ Client!RootComplete' /\ Client!SamplesAccepted'
      BY <1>1, <1>4, ClientGoesOn
    <2>. QED
      BY <1>1, <1>4, <2>1, <2>2 DEF ClientInv
  <1>. QED
    BY <1>1, <1>3, <1>4

LEMMA ClientParsesVehicle == ASSUME ClientInv, Client!ParseVehicle PROVE ClientInv'
  <1>. DEFINE j == Client!RangeOf("vehicles")[Len(vehicles) + 1]
  <1>1. /\ requestPc = "vehicles" /\ Client!Lookup(root, "vehicles") = "ok"
        /\ Len(vehicles) < Len(Client!RangeOf("vehicles"))
        /\ \/ FailuresOf("vehicles", j) # {} /\ Client!Fail(FailuresOf("vehicles", j))
           \/ /\ FailuresOf("vehicles", j) = {} /\ vehicles' = Append(vehicles, Kept("vehicles", j))
              /\ UNCHANGED <<body, posted, root, requestPc, zones, tasks, settings>>
    BY DEF Client!ParseVehicle, Client!Parsing, FailuresOf, Kept
  <1>2. ObjectsRead(vehicles, "vehicles", root)
    BY DEF ClientInv
  <1>. HIDE DEF j
  <1>3. /\ FailuresOf("vehicles", j) # {} /\ Client!Fail(FailuresOf("vehicles", j)) => ClientInv'
        /\ FailuresOf("vehicles", j) = {} => ObjectsRead(Append(vehicles, Kept("vehicles", j)), "vehicles", root)
    BY <1>1, <1>2, ObjectParsed DEF j
  <1>4. ASSUME /\ FailuresOf("vehicles", j) = {} /\ vehicles' = Append(vehicles, Kept("vehicles", j))
               /\ UNCHANGED <<body, posted, root, requestPc, zones, tasks, settings>>
        PROVE  ClientInv'
    <2>1. ObjectsRead(zones', "zones", root') /\ ObjectsRead(vehicles', "vehicles", root') /\ ObjectsRead(tasks', "tasks", root')
      BY <1>3, <1>4 DEF ClientInv
    <2>2. Client!DefaultsAgree' /\ Client!RootComplete' /\ Client!SamplesAccepted'
      BY <1>1, <1>4, ClientGoesOn
    <2>. QED
      BY <1>1, <1>4, <2>1, <2>2 DEF ClientInv
  <1>. QED
    BY <1>1, <1>3, <1>4

LEMMA ClientParsesTask == ASSUME ClientInv, Client!ParseTask PROVE ClientInv'
  <1>. DEFINE j == Client!RangeOf("tasks")[Len(tasks) + 1]
  <1>1. /\ requestPc = "tasks" /\ Client!Lookup(root, "tasks") = "ok" /\ Len(tasks) < Len(Client!RangeOf("tasks"))
        /\ \/ FailuresOf("tasks", j) # {} /\ Client!Fail(FailuresOf("tasks", j))
           \/ /\ FailuresOf("tasks", j) = {} /\ tasks' = Append(tasks, Kept("tasks", j))
              /\ UNCHANGED <<body, posted, root, requestPc, zones, vehicles, settings>>
    BY DEF Client!ParseTask, Client!Parsing, FailuresOf, Kept
  <1>2. ObjectsRead(tasks, "tasks", root)
    BY DEF ClientInv
  <1>. HIDE DEF j
  <1>3. /\ FailuresOf("tasks", j) # {} /\ Client!Fail(FailuresOf("tasks", j)) => ClientInv'
        /\ FailuresOf("tasks", j) = {} => ObjectsRead(Append(tasks, Kept("tasks", j)), "tasks", root)
    BY <1>1, <1>2, ObjectParsed DEF j
  <1>4. ASSUME /\ FailuresOf("tasks", j) = {} /\ tasks' = Append(tasks, Kept("tasks", j))
               /\ UNCHANGED <<body, posted, root, requestPc, zones, vehicles, settings>>
        PROVE  ClientInv'
    <2>1. ObjectsRead(zones', "zones", root') /\ ObjectsRead(vehicles', "vehicles", root') /\ ObjectsRead(tasks', "tasks", root')
      BY <1>3, <1>4 DEF ClientInv
    <2>2. Client!DefaultsAgree' /\ Client!RootComplete' /\ Client!SamplesAccepted'
      BY <1>1, <1>4, ClientGoesOn
    <2>. QED
      BY <1>1, <1>4, <2>1, <2>2 DEF ClientInv
  <1>. QED
    BY <1>1, <1>3, <1>4

LEMMA ClientNextRange == ASSUME ClientInv, Client!NextRange PROVE ClientInv'
  <1>1. /\ UNCHANGED <<body, posted, root, zones, vehicles, tasks, settings>>
        /\ \/ /\ requestPc = "zones" /\ Client!Lookup(root, "zones") = "ok"
              /\ Len(zones) = Len(Client!RangeOf("zones")) /\ requestPc' = "vehicles"
           \/ /\ requestPc = "vehicles" /\ Client!Lookup(root, "vehicles") = "ok"
              /\ Len(vehicles) = Len(Client!RangeOf("vehicles")) /\ requestPc' = "tasks"
           \/ /\ requestPc = "tasks" /\ Client!Lookup(root, "tasks") = "ok"
              /\ Len(tasks) = Len(Client!RangeOf("tasks")) /\ requestPc' = "settings"
    BY DEF Client!NextRange, Client!Parsing
  <1>2. \A key \in {"zones", "vehicles", "tasks"} : Client!RangeOf(key) = RangeIn(root, key)
    BY DEF Client!RangeOf, RangeIn
  <1>3. ObjectsRead(zones', "zones", root') /\ ObjectsRead(vehicles', "vehicles", root') /\ ObjectsRead(tasks', "tasks", root')
    BY <1>1 DEF ClientInv
  <1>4. Client!DefaultsAgree' /\ Client!RootComplete' /\ Client!SamplesAccepted'
    BY <1>1, ClientGoesOn
  <1>5. RangeIn(root, "zones")' = RangeIn(root, "zones") /\ RangeIn(root, "vehicles")' = RangeIn(root, "vehicles")
        /\ RangeIn(root, "tasks")' = RangeIn(root, "tasks")
    BY <1>1
  <1>. QED
    BY <1>1, <1>2, <1>3, <1>4, <1>5 DEF ClientInv
\* What was posted has settings, and an account.
LEMMA PostedSettings ==
  ASSUME ClientInv, posted, requestPc = "settings", NEW s, s = root.obj.settings
  PROVE  /\ Client!Lookup(root, "settings") = "ok" /\ s = SettingsOf(body)
         /\ ~Client!IsEmpty(s) /\ Client!SettingsFailures(s) = {}
  <1>1. body \in Json /\ Client!Binds(body) /\ root = Client!Marshalled(body)
    BY DEF ClientInv
  <1>2. /\ Client!Is("obj", root) /\ "settings" \in DOMAIN root.obj /\ "account_id" \in DOMAIN root.obj
        /\ root.obj["account_id"] = Client!Member(body, "account_id", [num |-> 0])
        /\ root.obj["settings"] = SettingsOf(body)
    BY <1>1, MarshalledIs
  <1>3. s = SettingsOf(body)
    BY <1>2
  <1>4. ~Client!IsEmpty(s) /\ \A key \in Client!Found(s) : Client!Converted(Client!SettingTypes[key], s.obj[key]) # {}
    BY <1>1, <1>3, SettingsRead
  <1>5. Client!Is("num", root.obj["account_id"])
    BY <1>1, <1>2 DEF Client!Binds, Client!GoTakes, Client!Member, Client!Is
  <1>6. Client!Converted("uint32", root.obj["account_id"]) # {}
    BY <1>5, NumbersConvert DEF NumberTypes
  <1>7. Client!Lookup(root, "settings") = "ok" /\ Client!Lookup(root, "account_id") = "ok"
    BY <1>2 DEF Client!Lookup
  <1>8. Client!SettingsFailures(s) = {}
    BY <1>4, <1>6, <1>7 DEF Client!SettingsFailures
  <1>. QED
    BY <1>3, <1>4, <1>7, <1>8

LEMMA PostedDefaults ==
  ASSUME ClientInv, posted, requestPc = "settings", NEW s, s = SettingsOf(body),
         NEW key \in DOMAIN Client!GoSettings \ {"log_level"},
         ~Client!Given(Client!Member(body, "settings", Client!Null), key)
  PROVE  Client!AfterSettings(s)[key] =
           IF key = "mean_track_speed_km_in_hour"
           THEN Client!SpeedOf(Client!Defaults[key] \div 18) ELSE Client!Defaults[key]
  <1>1. body \in Json /\ Client!Binds(body) /\ settings = Client!Defaults
    BY DEF ClientInv
  <1>2. s.obj[key] = Client!GoSettings[key].preset /\ key \in Client!Found(s)
    <2>1. key \in DOMAIN Client!SettingTypes
      BY GoSettingsAre, SettingTypesAre
    <2>. QED
      BY <1>1, <2>1, SettingsRead
  <1>3. key \in DOMAIN settings /\ key # "account_id"
    <2>1. DOMAIN Client!Defaults =
            {"mean_track_speed_km_in_hour", "colony_size_limit", "trial_count_max_limit", "max_time_in_sec",
             "max_inactive_time_in_sec", "log_level", "partial_solution_enabled", "multi_threaded", "account_id"}
      BY DEF Client!Defaults
    <2>. QED
      BY <1>1, <2>1, GoSettingsAre
  <1>4. CASE key = "mean_track_speed_km_in_hour"
    <2>1. Client!AfterSettings(s)[key] = Client!SpeedOf(Client!ConvertedTo("double", s.obj[key]))
      <3>1. Client!AfterSettings(s)[key] =
              Client!SpeedOf(IF key \in Client!Found(s) THEN Client!ConvertedTo("double", s.obj[key])
                             ELSE settings[key] \div 18)
        BY <1>3, <1>4 DEF Client!AfterSettings
      <3>. QED
        BY <1>2, <3>1
    <2>2. Client!ConvertedTo("double", s.obj[key]) = 90
      BY <1>2, <1>4, PresetsAreDefaults
    <2>3. Client!Defaults[key] \div 18 = 90
      <3>1. Client!Defaults["mean_track_speed_km_in_hour"] = 90 * 18
        BY DEF Client!Defaults
      <3>. QED
        BY <1>4, <3>1
    <2>. QED
      BY <1>4, <2>1, <2>2, <2>3
  <1>5. CASE key # "mean_track_speed_km_in_hour"
    <2>1. Client!AfterSettings(s)[key] = Client!ConvertedTo(Client!SettingTypes[key], s.obj[key])
      BY <1>2, <1>3, <1>5 DEF Client!AfterSettings
    <2>2. \/ key \in {"colony_size_limit", "trial_count_max_limit", "max_time_in_sec", "max_inactive_time_in_sec"}
          \/ key \in {"partial_solution_enabled", "multi_threaded"}
      BY <1>5, GoSettingsAre
    <2>3. Client!ConvertedTo(Client!SettingTypes[key], Client!GoSettings[key].preset) = Client!Defaults[key]
      BY <2>2, PresetsAreDefaults, SettingTypesAre
    <2>. QED
      BY <1>2, <1>5, <2>1, <2>3
  <1>. QED
    BY <1>4, <1>5

LEMMA ClientParsesSettings == ASSUME ClientInv, Client!ParseSettings PROVE ClientInv'
  <1>. DEFINE s == root.obj.settings
              sought == Client!Lookup(root, "settings")
              ends == Client!SettingsFailures(s)
              done == requestPc' = "done" /\ UNCHANGED <<body, posted, root, zones, vehicles, tasks>>
  <1>1. requestPc = "settings" /\ body \in Json /\ posted \in BOOLEAN
    BY DEF Client!ParseSettings, ClientInv
  <1>2. \/ sought # "ok" /\ Client!Fail({sought})
        \/ sought = "ok" /\ Client!IsEmpty(s) /\ done /\ settings' = settings
        \/ sought = "ok" /\ ~Client!IsEmpty(s) /\ ends # {} /\ Client!Fail(ends)
        \/ sought = "ok" /\ ~Client!IsEmpty(s) /\ ends = {} /\ done /\ settings' = Client!AfterSettings(s)
    BY DEF Client!ParseSettings
  <1>3. posted => sought = "ok" /\ s = SettingsOf(body) /\ ~Client!IsEmpty(s) /\ ends = {}
    BY <1>1, PostedSettings
  <1>4. {sought} \subseteq {"ok", "thrown", "undefined"} /\ ends \subseteq {"thrown", "undefined"}
    BY DEF Client!Lookup, Client!SettingsFailures
  <1>. HIDE DEF sought, ends
  <1>5. CASE sought # "ok" /\ Client!Fail({sought})
    <2>1. ~posted /\ {sought} \subseteq {"thrown", "undefined"}
      BY <1>3, <1>4, <1>5
    <2>. QED
      BY <1>1, <1>5, <2>1, ClientFails
  <1>6. CASE ~Client!IsEmpty(s) /\ ends # {} /\ Client!Fail(ends)
    <2>1. ~posted
      BY <1>3, <1>6
    <2>. QED
      BY <1>1, <1>4, <1>6, <2>1, ClientFails
  <1>7. ASSUME done,
               \/ Client!IsEmpty(s) /\ settings' = settings
               \/ settings' = Client!AfterSettings(s)
        PROVE  ClientInv'
    <2>1. /\ requestPc' = "done" /\ body' = body /\ posted' = posted /\ root' = root /\ zones' = zones
          /\ vehicles' = vehicles /\ tasks' = tasks
      BY <1>7
    <2>2. Client!DefaultsAgree'
      <3>1. SUFFICES ASSUME posted,
                            NEW key \in DOMAIN Client!GoSettings \ {"log_level"},
                            ~Client!Given(Client!Member(body, "settings", Client!Null), key)
                     PROVE  settings'[key] = IF key = "mean_track_speed_km_in_hour"
                                THEN Client!SpeedOf(Client!Defaults[key] \div 18) ELSE Client!Defaults[key]
        BY <2>1 DEF Client!DefaultsAgree
      <3>2. settings' = Client!AfterSettings(s) /\ s = SettingsOf(body)
        BY <1>3, <1>7, <3>1
      <3>. QED
        BY <1>1, <3>1, <3>2, PostedDefaults
    <2>3. Client!RootComplete' /\ Client!SamplesAccepted'
      BY <2>1 DEF Client!RootComplete, Client!SamplesAccepted
    <2>4. ObjectsRead(zones', "zones", root') /\ ObjectsRead(vehicles', "vehicles", root') /\ ObjectsRead(tasks', "tasks", root')
      BY <2>1 DEF ClientInv
    <2>5. RangeIn(root, "zones")' = RangeIn(root, "zones") /\ RangeIn(root, "vehicles")' = RangeIn(root, "vehicles")
          /\ RangeIn(root, "tasks")' = RangeIn(root, "tasks")
      BY <2>1
    <2>. QED
      BY <1>1, <2>1, <2>2, <2>3, <2>4, <2>5 DEF ClientInv
  <1>. QED
    BY <1>2, <1>5, <1>6, <1>7

LEMMA ClientSteps == ASSUME ClientInv, [Client!Next]_(Client!vars) PROVE ClientInv'
  <1>1. CASE UNCHANGED Client!vars
    <2>1. /\ body' = body /\ posted' = posted /\ root' = root /\ requestPc' = requestPc /\ zones' = zones
          /\ vehicles' = vehicles /\ tasks' = tasks /\ settings' = settings
      BY <1>1 DEF Client!vars
    <2>2. Client!DefaultsAgree' /\ Client!RootComplete' /\ Client!SamplesAccepted'
      BY <2>1 DEF ClientInv, Client!DefaultsAgree, Client!RootComplete, Client!SamplesAccepted, Client!Elements
    <2>. QED
      BY <2>1, <2>2 DEF ClientInv
  <1>2. CASE Client!Next
    BY <1>2, ClientBinds, ClientHasRange, ClientParsesZone, ClientParsesVehicle, ClientParsesTask,
       ClientNextRange, ClientParsesSettings DEF Client!Next
  <1>. QED
    BY <1>1, <1>2

LEMMA ClientInvariant == Client!Spec => []ClientInv
  <1>. QED
    BY ClientBegins, ClientSteps, PTL DEF Client!Spec

-----------------------------------------------------------------------------
(* What the invariant says of the objects.                                  *)

\* each is made of its value in the range
LEMMA ObjectsAre ==
  ASSUME NEW key, NEW r, NEW objects, ObjectsRead(objects, key, r), NEW i \in DOMAIN objects
  PROVE  /\ i \in 1 .. Len(objects) /\ RangeIn(r, key)[i] \in Json
         /\ FailuresOf(key, RangeIn(r, key)[i]) = {} /\ objects[i] = Kept(key, RangeIn(r, key)[i])
  <1>1. objects \in Seq({Kept(key, j) : j \in Json}) /\ objects # << >>
    BY DEF ObjectsRead
  <1>2. RangeIn(r, key) \in Seq(Json) /\ Len(objects) <= Len(RangeIn(r, key))
    BY <1>1 DEF ObjectsRead
  <1>3. i \in 1 .. Len(objects) /\ Len(objects) \in Nat
    BY <1>1
  <1>4. i \in 1 .. Len(RangeIn(r, key))
    BY <1>2, <1>3
  <1>5. RangeIn(r, key)[i] \in Json
    BY <1>2, <1>4
  <1>6. FailuresOf(key, RangeIn(r, key)[i]) = {} /\ objects[i] = Kept(key, RangeIn(r, key)[i])
    BY DEF ObjectsRead
  <1>. QED
    BY <1>3, <1>5, <1>6

LEMMA ZonesAre ==
  ASSUME ClientInv, NEW i \in DOMAIN zones, NEW j, j = RangeIn(root, "zones")[i]
  PROVE  j \in Json /\ Client!ZoneFailures(j) = {} /\ zones[i] = Client!Zone(j)
  <1>1. ObjectsRead(zones, "zones", root)
    BY DEF ClientInv
  <1>2. FailuresOf("zones", j) = Client!ZoneFailures(j) /\ Kept("zones", j) = Client!Zone(j)
    BY DEF FailuresOf, Kept
  <1>3. /\ RangeIn(root, "zones")[i] \in Json /\ FailuresOf("zones", RangeIn(root, "zones")[i]) = {}
        /\ zones[i] = Kept("zones", RangeIn(root, "zones")[i])
    BY <1>1, ObjectsAre, Zenon
  <1>. QED
    BY <1>2, <1>3, Zenon

LEMMA VehiclesAre ==
  ASSUME ClientInv, NEW i \in DOMAIN vehicles, NEW j, j = RangeIn(root, "vehicles")[i]
  PROVE  /\ j \in Json /\ Client!Failures(j, Client!VehicleFields) = {}
         /\ vehicles[i] = Client!Fields(j, Client!VehicleFields)
  <1>1. ObjectsRead(vehicles, "vehicles", root)
    BY DEF ClientInv
  <1>2. FailuresOf("vehicles", j) = Client!Failures(j, Client!VehicleFields) /\ Kept("vehicles", j) = Client!Fields(j, Client!VehicleFields)
    BY DEF FailuresOf, Kept
  <1>3. /\ RangeIn(root, "vehicles")[i] \in Json /\ FailuresOf("vehicles", RangeIn(root, "vehicles")[i]) = {}
        /\ vehicles[i] = Kept("vehicles", RangeIn(root, "vehicles")[i])
    BY <1>1, ObjectsAre, Zenon
  <1>. QED
    BY <1>2, <1>3, Zenon

LEMMA TasksAre ==
  ASSUME ClientInv, NEW i \in DOMAIN tasks, NEW j, j = RangeIn(root, "tasks")[i]
  PROVE  j \in Json /\ Client!Failures(j, Client!TaskFields) = {} /\ tasks[i] = Client!Task(j)
  <1>1. ObjectsRead(tasks, "tasks", root)
    BY DEF ClientInv
  <1>2. FailuresOf("tasks", j) = Client!Failures(j, Client!TaskFields) /\ Kept("tasks", j) = Client!Task(j)
    BY DEF FailuresOf, Kept
  <1>3. /\ RangeIn(root, "tasks")[i] \in Json /\ FailuresOf("tasks", RangeIn(root, "tasks")[i]) = {}
        /\ tasks[i] = Kept("tasks", RangeIn(root, "tasks")[i])
    BY <1>1, ObjectsAre, Zenon
  <1>. QED
    BY <1>2, <1>3, Zenon

LEMMA ClientTypes == ASSUME ClientInv PROVE Client!TypeOK
  <1>1. requestPc \in {"bind", "zones", "vehicles", "tasks", "settings", "done", "refused", "thrown", "undefined"}
    BY DEF ClientInv
  <1>2. vehicles # << >> => requestPc \notin {"bind", "zones", "refused"}
    BY DEF ClientInv
  <1>3. tasks # << >> => requestPc \notin {"bind", "zones", "vehicles", "refused"}
    BY DEF ClientInv
  <1>4. \A i \in DOMAIN zones : zones[i].externalId \in 0 .. Modulus.uint32 - 1
    <2>1. \A i \in DOMAIN zones : zones[i].externalId \in Bits("uint32")
      BY ZonesAre, ZoneRead
    <2>. QED
      BY <2>1, ModulusIs DEF Bits
  <1>5. \A i \in DOMAIN vehicles : vehicles[i][<<"trip_max_tasks">>] \in 0 .. Modulus.uint32 - 1
    <2>1. \A i \in DOMAIN vehicles : vehicles[i][<<"trip_max_tasks">>] \in Bits("uint32")
      BY VehiclesAre, VehicleRead
    <2>. QED
      BY <2>1, ModulusIs DEF Bits
  <1>6. \A i \in DOMAIN tasks : \A f \in {"ts", "te", "dur"} :
           tasks[i][<<"start", f>>] \in 0 .. Modulus.size_t - 1
    <2>1. \A i \in DOMAIN tasks : \A f \in {"ts", "te", "dur"} : tasks[i][<<"start", f>>] \in Bits("size_t")
      BY TasksAre, TaskRead
    <2>. QED
      BY <2>1, ModulusIs DEF Bits
  <1>. QED
    BY <1>1, <1>2, <1>3, <1>4, <1>5, <1>6 DEF Client!TypeOK

LEMMA ClientClosed == ASSUME ClientInv PROVE Client!PolygonsClosed
  BY ZonesAre, ZoneRead DEF Client!PolygonsClosed

\* the ranges of what was posted
LEMMA ClientWhole ==
  ASSUME ClientInv, posted, requestPc = "done"
  PROVE  /\ RangeIn(root, "zones") = Client!Elements("zones") /\ Len(zones) = Len(Client!Elements("zones"))
         /\ RangeIn(root, "vehicles") = Client!Elements("vehicles") /\ Len(vehicles) = Len(Client!Elements("vehicles"))
         /\ RangeIn(root, "tasks") = Client!Elements("tasks") /\ Len(tasks) = Len(Client!Elements("tasks"))
  <1>1. \A key \in {"zones", "vehicles", "tasks"} : RangeIn(root, key) = Client!Elements(key)
    BY RangeIs
  <1>. QED
    BY <1>1 DEF ClientInv

LEMMA ClientIsWhole == ASSUME ClientInv PROVE Client!WholeRequest
  <1>1. SUFFICES ASSUME posted, requestPc = "done"
                 PROVE  \A i \in DOMAIN tasks :
                          Client!InRange(Client!Elements("tasks")[i].obj.id)
                            => tasks[i][<<"id">>] = Client!Elements("tasks")[i].obj.id.num
    BY ClientWhole DEF Client!WholeRequest
  <1>2. SUFFICES ASSUME NEW i \in DOMAIN tasks, Client!InRange(Client!Elements("tasks")[i].obj["id"])
                 PROVE  tasks[i][<<"id">>] = Client!Elements("tasks")[i].obj["id"].num
    OBVIOUS
  <1>. DEFINE j == Client!Elements("tasks")[i]
  <1>3. j \in Json /\ Client!Failures(j, Client!TaskFields) = {} /\ tasks[i] = Client!Task(j)
    BY <1>1, ClientWhole, TasksAre
  <1>. HIDE DEF j
  <1>4. Client!InRange(j.obj["id"]) => Client!Task(j)[<<"id">>] = j.obj["id"].num
    BY <1>3, TaskRead
  <1>. QED
    BY <1>2, <1>3, <1>4 DEF j

\* A vehicle's list of zones has the numbers of the client's, as long as they fit.
LEMMA ListIs ==
  ASSUME NEW l \in Json, Client!AllConverted("uint32", l),
         \A i \in DOMAIN Client!Items(l) : Client!InRange(Client!Items(l)[i]),
         NEW n
  PROVE  n \in Client!Range(Client!List("uint32", l)) <=> \E i \in DOMAIN Client!Items(l) : Client!Items(l)[i].num = n
  <1>1. Client!Items(l) \in Seq(Json)
    BY ItemsType
  <1>2. ASSUME NEW i \in DOMAIN Client!Items(l)
        PROVE  Client!List("uint32", l)[i] = Client!Items(l)[i].num
    <2>1. Client!Items(l)[i] \in Json
      BY <1>1
    <2>2. Client!Converted("uint32", Client!Items(l)[i]) = {Client!Items(l)[i].num}
      BY <2>1, Uint32Type
    <2>3. Client!ConvertedTo("uint32", Client!Items(l)[i]) = Client!Items(l)[i].num
      BY <2>2, ConvertedIn
    <2>. QED
      BY <2>3 DEF Client!List
  <1>3. DOMAIN Client!List("uint32", l) = DOMAIN Client!Items(l)
    BY DEF Client!List
  <1>. QED
    BY <1>2, <1>3 DEF Client!Range

LEMMA ClientKeepsReferences == ASSUME ClientInv PROVE Client!ReferencesKept
  <1>1. SUFFICES ASSUME posted, requestPc = "done", NEW v \in DOMAIN vehicles, NEW z \in DOMAIN zones,
                        NEW named, named = Client!Items(Client!Elements("vehicles")[v].obj["working_zone"]),
                        NEW id, id = Client!Elements("zones")[z].obj["id"],
                        Client!InRange(id), \A i \in DOMAIN named : Client!InRange(named[i])
                 PROVE  zones[z].externalId \in Client!Range(vehicles[v][<<"working_zone">>])
                          <=> \E i \in DOMAIN named : named[i].num = id.num
    BY DEF Client!ReferencesKept
  <1>. DEFINE j == Client!Elements("vehicles")[v]
              k == Client!Elements("zones")[z]
              l == j.obj["working_zone"]
  <1>2. j \in Json /\ Client!Failures(j, Client!VehicleFields) = {} /\ vehicles[v] = Client!Fields(j, Client!VehicleFields)
    BY <1>1, ClientWhole, VehiclesAre
  <1>3. k \in Json /\ Client!ZoneFailures(k) = {} /\ zones[z] = Client!Zone(k)
    BY <1>1, ClientWhole, ZonesAre
  <1>4. named = Client!Items(l) /\ id = k.obj["id"]
    BY <1>1
  <1>. HIDE DEF j, k
  <1>5. zones[z].externalId = id.num
    BY <1>1, <1>3, <1>4, ZoneRead
  <1>6. l \in Json /\ Client!AllConverted("uint32", l) /\ vehicles[v][<<"working_zone">>] = Client!List("uint32", l)
    BY <1>2, VehicleRead
  <1>. HIDE DEF l
  <1>7. id.num \in Client!Range(Client!List("uint32", l)) <=> \E i \in DOMAIN named : named[i].num = id.num
    BY <1>1, <1>4, <1>6, ListIs
  <1>. QED
    BY <1>5, <1>6, <1>7

\* What the solver solves is what the client has asked for: whatever was posted,
\* whichever settings it has, and whatever each number's type cuts off of it.
THEOREM RequestCorrect == Client!Spec => []AskedIsSolved
  <1>1. ClientInv => AskedIsSolved
    BY ClientIsWhole, ClientKeepsReferences, ClientClosed DEF ClientInv, AskedIsSolved, Client!AskedIsSolved
  <1>. QED
    BY <1>1, ClientInvariant, PTL

-----------------------------------------------------------------------------
(* The types of the variables beside the backend's and the statistics'.     *)

LEMMA LogTypeBegins == LogInit => LogTypeOK
  <1>1. LevelOf("info") = 3 /\ DOMAIN LogLevels = 1 .. 6
    BY LevelNames, Zenon
  <1>. SUFFICES ASSUME LogInit PROVE LogTypeOK
    OBVIOUS
  <1>2. init = "" /\ core = {} /\ logLevel = 3 /\ refused = {} /\ asked = [r \in Callers |-> ""]
    BY <1>1 DEF LogInit
  <1>3. {r \in Callers : asked[r] # "" /\ ~Known(asked[r])} = {}
    <2>1. \A r \in Callers : asked[r] = ""
      BY <1>2
    <2>. QED
      BY <2>1
  <1>4. logLevel \in DOMAIN LogLevels
    <2>1. 3 \in 1 .. 6
      OBVIOUS
    <2>. QED
      BY <1>1, <1>2, <2>1, Zenon
  <1>5. core \subseteq [to : {"file", "console"}, filtered : BOOLEAN]
    BY <1>2
  <1>. QED
    BY <1>2, <1>3, <1>4, <1>5 DEF LogTypeOK

LEMMA LogTypeKept == LogInv /\ LogTypeOK /\ [LogNext]_logVars => LogTypeOK'
  <1>. SUFFICES ASSUME LogInv, LogTypeOK, [LogNext]_logVars PROVE LogTypeOK'
    OBVIOUS
  <1>1. CASE UNCHANGED logVars
    BY <1>1 DEF logVars, LogTypeOK
  <1>2. CASE Initialize
    <2>1. UNCHANGED <<logLevel, asked, refused>> /\ init' \in {"console", "callback", "folder"}
          /\ core' \in {ConsoleSinks, CallbackSinks, FolderSinks}
      BY <1>2 DEF Initialize
    <2>2. core' \subseteq [to : {"file", "console"}, filtered : BOOLEAN]
      <3>. DEFINE R == [to : {"file", "console"}, filtered : BOOLEAN]
      <3>1. [to |-> "console", filtered |-> FALSE] \in R
        OBVIOUS
      <3>2. [to |-> "console", filtered |-> TRUE] \in R
        OBVIOUS
      <3>3. [to |-> "file", filtered |-> TRUE] \in R
        OBVIOUS
      <3>. HIDE DEF R
      <3>4. ConsoleSinks \subseteq R
        BY <3>1 DEF ConsoleSinks, Sink
      <3>5. CallbackSinks \subseteq R
        BY <3>1 DEF CallbackSinks, Sink
      <3>6. FolderSinks \subseteq R
        BY <3>2, <3>3 DEF FolderSinks, Sink
      <3>7. core' \subseteq R
        BY <2>1, <3>4, <3>5, <3>6
      <3>. QED
        BY <3>7 DEF R
    <2>. QED
      BY <2>1, <2>2 DEF LogTypeOK
  <1>3. ASSUME NEW r \in Callers, SetLogLevel(r) PROVE LogTypeOK'
    <2>1. PICK name \in Asked :
             /\ asked' = [asked EXCEPT ![r] = name]
             /\ IF Known(name) THEN logLevel' = LevelOf(name) /\ refused' = refused
                ELSE refused' = refused \cup {r} /\ logLevel' = logLevel
      BY <1>3 DEF SetLogLevel
    <2>2. asked[r] = "" /\ name # "" /\ UNCHANGED <<init, core>>
      BY <1>3, LogAssumption DEF SetLogLevel
    <2>3. asked \in [Callers -> Asked \cup {""}]
      BY DEF LogInv, LevelInv
    <2>4. asked'[r] = name /\ \A q \in Callers \ {r} : asked'[q] = asked[q]
      BY <2>1, <2>3
    <2>5. refused = {q \in Callers : asked[q] # "" /\ ~Known(asked[q])}
      BY DEF LogTypeOK
    <2>6. refused' = {q \in Callers : asked'[q] # "" /\ ~Known(asked'[q])}
      <3>1. CASE Known(name)
        BY <2>1, <2>2, <2>4, <2>5, <3>1
      <3>2. CASE ~Known(name)
        BY <2>1, <2>2, <2>4, <2>5, <3>2
      <3>. QED
        BY <3>1, <3>2
    <2>7. logLevel' \in DOMAIN LogLevels
      BY <2>1, LevelNames DEF LogTypeOK
    <2>8. refused' = {q \in Callers : asked[q] # "" /\ ~Known(asked[q])}'
      BY <2>6
    <2>. QED
      BY <2>2, <2>7, <2>8 DEF LogTypeOK
  <1>4. ASSUME NEW r \in Callers, Record(r) PROVE LogTypeOK'
    BY <1>4 DEF Record, LogTypeOK
  <1>. QED
    BY <1>1, <1>2, <1>3, <1>4 DEF LogNext

\* options have numbers as values, the ones that are no numbers 0
ConsoleTypeInv ==
    /\ Console!TypeOK
    /\ \A o \in DOMAIN argv : argv[o] \in Nat

LEMMA ConsoleTypeBegins == Console!Init => ConsoleTypeInv
  <1>. SUFFICES ASSUME Console!Init PROVE ConsoleTypeInv
    OBVIOUS
  <1>1. \A o \in DOMAIN argv : argv[o] \in Nat
    <2>1. PICK options \in SUBSET (Console!Known[program] \cup {"unknown"}), v \in Values :
             argv = [o \in options |-> IF o \in Console!Numbers THEN v ELSE 0]
      BY Zenon DEF Console!Init
    <2>. QED
      BY <2>1, OptionsAssumption
  <1>2. stage = "store" /\ code = -1 /\ level = "info" /\ params = Console!NoParams /\ found = "nothing"
    BY DEF Console!Init
  <1>. QED
    BY <1>1, <1>2 DEF ConsoleTypeInv, Console!TypeOK, Console!LevelNames

\* what a benchmark is searched with is the options' numbers, or the defaults
LEMMA BenchParamsType ==
  ASSUME \A o \in DOMAIN argv : argv[o] \in Nat
  PROVE  \A f \in DOMAIN Console!BenchParams : Console!BenchParams[f] \in Nat
  <1>. DEFINE options == {"colony_size", "max_cycles", "max_trials", "max_seconds"}
  <1>1. \A o \in options : Console!DefaultNumber[o] \in Nat
    BY DEF Console!DefaultNumber
  <1>2. \A o \in options : Console!Number(o) \in Nat
    BY <1>1 DEF Console!Number
  <1>. QED
    BY <1>2 DEF Console!BenchParams

LEMMA ConsoleTypeKept ==
  ConsoleInv /\ ConsoleTypeInv /\ [ConsolesNext]_<<consoleVars, benchVars>> => ConsoleTypeInv'
  <1>. SUFFICES ASSUME ConsoleInv, ConsoleTypeInv, [ConsolesNext]_<<consoleVars, benchVars>> PROVE ConsoleTypeInv'
    OBVIOUS
  <1>. USE DEF ConsoleTypeInv, Console!TypeOK, Console!Stage, Console!Ended, Console!Unless
  <1>1. CASE Console!Options
    BY <1>1 DEF Console!Options
  <1>2. CASE Console!Task
    BY <1>2 DEF Console!Task
  <1>3. CASE Console!Export
    BY <1>3 DEF Console!Export
  <1>4. CASE Console!Solve
    <2>1. /\ stage = "solve" /\ UNCHANGED <<program, argv, level, params>>
          /\ found' \in {"nothing"} \cup Console!Outcomes
          /\ \/ stage' = "ended" /\ code' = 1
             \/ stage' \in {"undefined", "help"} /\ code' = code
      BY <1>4 DEF Console!Solve
    <2>. QED
      BY <2>1
  <1>5. CASE Console!Load
    BY <1>5 DEF Console!Load
  <1>6. CASE Console!Bench
    <2>1. /\ stage = "bench" /\ stage' \in {"help", "undefined"} /\ params' = Console!BenchParams
          /\ found' \in {"nothing"} \cup Console!Outcomes
          /\ UNCHANGED <<program, argv, level, code>>
      BY <1>6 DEF Console!Bench
    <2>2. program = "bench"
      BY <2>1 DEF ConsoleInv
    <2>3. \A f \in DOMAIN params' : params'[f] \in Nat
      BY <2>1, BenchParamsType
    <2>. QED
      BY <2>1, <2>2, <2>3
  <1>7. CASE Console!Help
    BY <1>7 DEF Console!Help
  <1>8. CASE UNCHANGED consoleVars
    BY <1>8 DEF consoleVars
  <1>. QED
    BY <1>1, <1>2, <1>3, <1>4, <1>5, <1>6, <1>7, <1>8 DEF ConsolesNext, Loading, Console!Next

\* the points of the matrices are those of the tasks, two for each
LEMMA PointsAre ==
  ASSUME NEW T, NEW ts \in Seq(T)
  PROVE  /\ Len(Points(ts)) = 2 * Len(ts)
         /\ \A i \in DOMAIN ts : Points(ts)[2 * i - 1] = ts[i].start.place /\ Points(ts)[2 * i] = ts[i].end.place
  <1>. DEFINE A == {t.start.place : t \in T} \cup {t.end.place : t \in T}
              pairs == [i \in DOMAIN ts |-> <<ts[i].start.place, ts[i].end.place>>]
  <1>1. Points(ts) = FlattenSeq(pairs)
    BY DEF Points
  <1>2. pairs \in Seq(Seq(A)) /\ Len(pairs) = Len(ts) /\ Len(ts) \in Nat /\ DOMAIN ts = 1 .. Len(ts)
    <2>1. \A i \in DOMAIN ts : ts[i] \in T
      OBVIOUS
    <2>2. \A t \in T : <<t.start.place, t.end.place>> \in Seq(A)
      OBVIOUS
    <2>3. \A i \in DOMAIN ts : pairs[i] \in Seq(A)
      BY <2>1, <2>2
    <2>4. DOMAIN ts = 1 .. Len(ts) /\ Len(ts) \in Nat
      OBVIOUS
    <2>. HIDE DEF A
    <2>. QED
      BY <2>3, <2>4
  <1>3. \A i \in DOMAIN ts : Len(pairs[i]) = 2 /\ pairs[i][1] = ts[i].start.place /\ pairs[i][2] = ts[i].end.place
    OBVIOUS
  <1>. HIDE DEF A, pairs
  <1>4. CASE ts = << >>
    <2>1. FlattenSeq(pairs) = pairs
      BY <1>2, <1>4 DEF FlattenSeq
    <2>2. Len(Points(ts)) = 0 /\ DOMAIN ts = {}
      BY <1>1, <1>2, <1>4, <2>1
    <2>. QED
      BY <1>4, <2>2
  <1>5. CASE ts # << >>
    <2>1. pairs # << >> /\ Len(ts) > 0
      BY <1>2, <1>5
    <2>2. PICK f \in [1 .. Len(pairs) -> Seq(A)] :
             /\ f[1] = pairs[1]
             /\ \A i \in 1 .. Len(pairs) - 1 : f[i + 1] = f[i] \o pairs[i + 1]
             /\ FlattenSeq(pairs) = f[Len(pairs)]
      BY <1>2, <2>1, FlattenIs
    <2>. DEFINE Upto(m) == /\ Len(f[m]) = 2 * m
                           /\ \A i \in 1 .. m : f[m][2 * i - 1] = ts[i].start.place /\ f[m][2 * i] = ts[i].end.place
                S == {m \in Nat : m + 1 <= Len(ts) => Upto(m + 1)}
    <2>3. 0 \in S
      <3>1. Upto(1)
        <4>1. 1 \in DOMAIN ts /\ f[1] = pairs[1]
          BY <1>2, <2>1, <2>2
        <4>2. Len(f[1]) = 2 /\ f[1][1] = ts[1].start.place /\ f[1][2] = ts[1].end.place
          BY <1>3, <4>1
        <4>3. 2 * 1 - 1 = 1 /\ 2 * 1 = 2 /\ 1 .. 1 = {1}
          OBVIOUS
        <4>. QED
          BY <4>2, <4>3
      <3>. QED
        BY <3>1
    <2>4. ASSUME NEW m \in Nat, m \in S, m + 2 <= Len(ts) PROVE Upto(m + 2)
      <3>. DEFINE n == m + 1
                  s == f[n]
                  p == pairs[n + 1]
                  t == f[n + 1]
      <3>1. n \in 1 .. Len(pairs) - 1 /\ n + 1 \in 1 .. Len(pairs) /\ n + 1 = m + 2 /\ n \in Nat /\ n \in 1 .. Len(pairs)
        BY <1>2, <2>4
      <3>2. t = s \o p /\ s \in Seq(A) /\ p \in Seq(A)
        <4>1. f[n + 1] = f[n] \o pairs[n + 1]
          BY <2>2, <3>1
        <4>2. f[n] \in Seq(A)
          BY <2>2, <3>1
        <4>3. pairs[n + 1] \in Seq(A)
          BY <1>2, <3>1
        <4>. QED
          BY <4>1, <4>2, <4>3
      <3>3. Len(s) = 2 * n /\ \A i \in 1 .. n : s[2 * i - 1] = ts[i].start.place /\ s[2 * i] = ts[i].end.place
        BY <2>4, <3>1
      <3>4. Len(p) = 2 /\ p[1] = ts[n + 1].start.place /\ p[2] = ts[n + 1].end.place
        BY <1>2, <1>3, <3>1
      <3>. HIDE DEF n, s, p, t
      <3>5. Len(t) = 2 * n + 2 /\ (\A i \in 1 .. 2 * n : t[i] = s[i]) /\ t[2 * n + 1] = p[1] /\ t[2 * n + 2] = p[2]
        <4>1. PICK k \in Nat : k = 2 * n
          BY <3>1
        <4>2. Len(s) = k /\ Len(p) = 2
          BY <3>3, <3>4, <4>1
        <4>3. Len(s \o p) = Len(s) + Len(p)
          BY <3>2
        <4>4. Len(t) = k + 2
          BY <3>2, <4>2, <4>3
        <4>5. \A i \in 1 .. k : (s \o p)[i] = s[i]
          BY <3>2, <4>2
        <4>6. (s \o p)[k + 1] = p[1] /\ (s \o p)[k + 2] = p[2]
          <5>1. \A i \in 1 .. Len(s) + Len(p) : (s \o p)[i] = IF i <= Len(s) THEN s[i] ELSE p[i - Len(s)]
            BY <3>2
          <5>2. k + 1 \in 1 .. k + 2 /\ k + 2 \in 1 .. k + 2
            OBVIOUS
          <5>3. k + 1 \in 1 .. Len(s) + Len(p) /\ k + 2 \in 1 .. Len(s) + Len(p)
            BY <4>2, <5>2, Zenon
          <5>4. (s \o p)[k + 1] = IF k + 1 <= Len(s) THEN s[k + 1] ELSE p[(k + 1) - Len(s)]
            BY <5>1, <5>3, Zenon
          <5>5. (s \o p)[k + 2] = IF k + 2 <= Len(s) THEN s[k + 2] ELSE p[(k + 2) - Len(s)]
            BY <5>1, <5>3, Zenon
          <5>6. (k + 1) - k = 1 /\ (k + 2) - k = 2 /\ ~(k + 1 <= k) /\ ~(k + 2 <= k)
            OBVIOUS
          <5>7. (k + 1) - Len(s) = 1 /\ (k + 2) - Len(s) = 2 /\ ~(k + 1 <= Len(s)) /\ ~(k + 2 <= Len(s))
            BY <4>2, <5>6, Zenon
          <5>. QED
            BY <5>4, <5>5, <5>7, Zenon
        <4>. QED
          BY <3>2, <4>1, <4>4, <4>5, <4>6
      <3>6. \A i \in 1 .. n : t[2 * i - 1] = ts[i].start.place /\ t[2 * i] = ts[i].end.place
        <4>1. \A i \in 1 .. n : 2 * i - 1 \in 1 .. 2 * n /\ 2 * i \in 1 .. 2 * n
          BY <3>1
        <4>. QED
          BY <3>3, <3>5, <4>1
      <3>7. t[2 * (n + 1) - 1] = ts[n + 1].start.place /\ t[2 * (n + 1)] = ts[n + 1].end.place
        <4>1. 2 * (n + 1) - 1 = 2 * n + 1 /\ 2 * (n + 1) = 2 * n + 2
          BY <3>1
        <4>. QED
          BY <3>4, <3>5, <4>1
      <3>8. \A i \in 1 .. n + 1 : t[2 * i - 1] = ts[i].start.place /\ t[2 * i] = ts[i].end.place
        <4>1. \A i \in 1 .. n + 1 : i \in 1 .. n \/ i = n + 1
          BY <3>1
        <4>. QED
          BY <3>6, <3>7, <4>1
      <3>9. Len(t) = 2 * (n + 1)
        BY <3>1, <3>5
      <3>. QED
        BY <3>1, <3>8, <3>9 DEF t
    <2>5. ASSUME NEW m \in Nat, m \in S PROVE m + 1 \in S
      BY <2>4, <2>5
    <2>. HIDE DEF S
    <2>6. Nat \subseteq S
      BY <2>3, <2>5, Induction
    <2>7. Len(ts) - 1 \in Nat /\ (Len(ts) - 1) + 1 = Len(ts)
      BY <1>2, <2>1
    <2>8. Upto(Len(ts))
      <3>. DEFINE l == Len(ts) - 1
      <3>1. l \in S
        BY <2>6, <2>7
      <3>2. l + 1 <= Len(ts)
        BY <1>2, <2>7
      <3>3. Upto(l + 1)
        BY <3>1, <3>2 DEF S
      <3>. QED
        BY <2>7, <3>3
    <2>. QED
      BY <1>1, <1>2, <2>2, <2>8
  <1>. QED
    BY <1>4, <1>5

LEMMA BenchTypeBegins == BenchInit => BenchTypeOK
  <1>. SUFFICES ASSUME BenchInit PROVE BenchTypeOK
    OBVIOUS
  <1>1. stream \in StreamType /\ stream.pos <= Len(file.text)
    <2>1. file \in Files /\ stream = [pos |-> 0, eof |-> FALSE, fail |-> FALSE]
      BY DEF BenchInit
    <2>. QED
      BY <2>1, TextType DEF StreamType
  <1>2. benchPc = "name" /\ customers = << >> /\ benchTasks = << >> /\ points = << >>
    BY DEF BenchInit
  <1>. QED
    BY <1>1, <1>2 DEF BenchTypeOK

\* the tasks and the points that there are
PointsOfTasks ==
    /\ Len(points) = 2 * Len(benchTasks)
    /\ \A i \in DOMAIN benchTasks : points[2 * i - 1] = benchTasks[i].start.place /\ points[2 * i] = benchTasks[i].end.place

LEMMA BenchTypeKept == BenchInv /\ BenchTypeOK /\ [BenchNext]_benchVars => BenchTypeOK'
  <1>. SUFFICES ASSUME BenchInv, BenchTypeOK, [BenchNext]_benchVars PROVE BenchTypeOK'
    OBVIOUS
  <1>1. BenchInv'
    BY BenchKeeps
  <1>2. (stream \in StreamType)' /\ (stream.pos <= Len(file.text))'
    BY <1>1 DEF BenchInv, Streams
  <1>3. (benchPc \in {"name", "vehicles", "customers", "build", "done", "undefined"})'
    BY DEF BenchTypeOK, BenchNext, benchVars, ReadName, ReadVehicles, ReadCustomer, EndOfCustomers, Build
  <1>4. (\A i \in DOMAIN customers : Len(customers[i]) = Len(Fields))'
    <2>1. \A i \in DOMAIN customers : Len(customers[i]) = 7
      BY DEF BenchTypeOK, Fields
    <2>2. CASE ReadCustomer
      <3>. DEFINE S == Seq(Nat \cup {Garbage})
      <3>1. customers \in Seq(S) /\ file \in Files /\ stream \in Streams
        BY DEF BenchInv
      <3>2. customers' = Append(customers, Read.values)
        BY <2>2 DEF ReadCustomer, Read, Start
      <3>3. Read.values \in S /\ Len(Read.values) = 7
        BY <3>1, CustomerRead
      <3>. HIDE DEF S
      <3>4. \A i \in DOMAIN customers' : Len(customers'[i]) = 7
        <4>1. \A i \in DOMAIN customers' : (i \in DOMAIN customers /\ customers'[i] = customers[i]) \/ customers'[i] = Read.values
          BY <3>1, <3>2, <3>3
        <4>. QED
          BY <2>1, <3>3, <4>1
      <3>. QED
        BY <3>4 DEF Fields
    <2>3. CASE customers' = customers
      BY <2>1, <2>3 DEF Fields
    <2>. QED
      BY <2>2, <2>3 DEF BenchNext, benchVars, ReadName, ReadVehicles, EndOfCustomers, Build
  <1>5. PointsOfTasks'
    <2>1. CASE UNCHANGED <<benchTasks, points>>
      BY <2>1 DEF PointsOfTasks, BenchTypeOK
    <2>2. CASE benchTasks' = BenchTasks /\ points' = Points(BenchTasks)
      <3>. DEFINE ts == BenchTasks
                  T == {ts[i] : i \in DOMAIN ts}
      <3>1. ts \in Seq(T)
        <4>1. Len(customers) \in Nat
          BY DEF BenchInv
        <4>2. DOMAIN ts = 1 .. Len(customers) - 1
          BY DEF BenchTasks
        <4>3. \E n \in Nat : DOMAIN ts = 1 .. n
          <5>1. CASE Len(customers) = 0
            <6>1. DOMAIN ts = 1 .. 0
              BY <4>2, <5>1
            <6>. QED
              BY <6>1
          <5>2. CASE Len(customers) # 0
            <6>1. Len(customers) - 1 \in Nat
              BY <4>1, <5>2
            <6>. QED
              BY <4>2, <6>1
          <5>. QED
            BY <5>1, <5>2
        <4>4. ts = [i \in DOMAIN ts |-> ts[i]]
          BY DEF BenchTasks
        <4>. HIDE DEF ts
        <4>. QED
          BY <4>3, <4>4
      <3>. HIDE DEF ts, T
      <3>2. /\ Len(Points(ts)) = 2 * Len(ts)
            /\ \A i \in DOMAIN ts : Points(ts)[2 * i - 1] = ts[i].start.place /\ Points(ts)[2 * i] = ts[i].end.place
        BY <3>1, PointsAre
      <3>3. benchTasks' = ts /\ points' = Points(ts)
        BY <2>2 DEF ts
      <3>. QED
        BY <3>2, <3>3 DEF PointsOfTasks
    <2>. QED
      BY <2>1, <2>2 DEF BenchNext, benchVars, ReadName, ReadVehicles, ReadCustomer, EndOfCustomers, Build
  <1>. QED
    BY <1>1, <1>2, <1>3, <1>4, <1>5 DEF BenchTypeOK, PointsOfTasks

\* Every variable of every part of the service has its type, in every
\* behaviour of the parts: the backend's calls, the request that is read, the
\* consoles, the benchmark that is loaded, the log and the statistics.
THEOREM ServiceTypesCorrect ==
  Spec /\ Client!Spec /\ ConsolesSpec /\ LogSpec /\ FailsSpec => []ServiceTypeOK
  <1>1. Spec => []TypeOK
    BY BackendTypeCorrect
  <1>2. Client!Spec => []Client!TypeOK
    BY ClientInvariant, ClientTypes, PTL
  <1>3. ConsolesSpec => [](Console!TypeOK /\ BenchTypeOK)
    <2>1. ConsolesInit => ConsoleInv /\ BenchInv /\ ConsoleTypeInv /\ BenchTypeOK
      BY ConsoleBegins, BenchBegins, ConsoleTypeBegins, BenchTypeBegins DEF ConsolesInit
    <2>2. BenchInv /\ BenchTypeOK /\ [ConsolesNext]_<<consoleVars, benchVars>> => BenchTypeOK'
      BY BenchTypeKept DEF ConsolesNext, Loading
    <2>3. ConsoleTypeInv => Console!TypeOK
      BY DEF ConsoleTypeInv
    <2>. QED
      BY <2>1, <2>2, <2>3, ConsolesStep, ConsoleTypeKept, PTL DEF ConsolesSpec
  <1>4. LogSpec => []LogTypeOK
    <2>1. LogInv /\ [LogNext]_logVars => LogInv'
      BY LevelKept, FolderKept DEF LogInv
    <2>. QED
      BY <2>1, LogBegins, LogTypeBegins, LogTypeKept, PTL DEF LogSpec
  <1>5. FailsSpec => []FailsTypeOK
    <2>1. FailsInv => FailsTypeOK
      BY DEF FailsInv
    <2>. QED
      BY <2>1, FailsBegin, FailsKeep, PTL DEF FailsSpec
  <1>. QED
    BY <1>1, <1>2, <1>3, <1>4, <1>5, PTL DEF ServiceTypeOK
=============================================================================
