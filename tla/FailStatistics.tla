-------------------------- MODULE FailStatistics --------------------------
(***************************************************************************)
(* The one globalFailsCollector of the process.  The workers of a search   *)
(* merge their collectors into it under the lock of that search, the       *)
(* sequential search merges its own without one, and solve copies it for   *)
(* the log when the search has returned.  Searches of other requests run   *)
(* at the same time in the same process, each with a lock of its own.      *)
(*                                                                         *)
(* A counter is read and written whole, as the build does with a size_t;   *)
(* a merge and a copy go counter by counter.                               *)
(***************************************************************************)
EXTENDS Integers, FiniteSets

CONSTANTS
    Parallel,     \* requests that are searched by threads
    Sequential,   \* requests that are searched by one
    Workers,      \* the threads of one parallel search
    MaxElement,   \* how many kinds of FailEvent there are
    MaxFails      \* bound: events of one kind that a worker counts

\* a request is searched one way, by somebody
ASSUME FailsAssumption ==
    /\ Parallel \cap Sequential = {} /\ "nobody" \notin Parallel
    /\ Workers # {}
    /\ MaxElement \in Nat /\ MaxFails \in Nat

Requests == Parallel \cup Sequential
Colonies == (Parallel \X Workers) \cup {<<r, "main">> : r \in Sequential}
Of(r) == {c \in Colonies : c[1] = r}
Events == 1 .. MaxElement

VARIABLES
    lock,      \* the SpinLock of each parallel search: who holds it
    colonyPc,        \* where each colony is
    it,        \* the iterators of each running operator+=
    fails,     \* m_events of each m_failsCollector
    global,    \* m_events of globalFailsCollector
    pcSolve,   \* where solve is with each request
    copied,    \* how many counters the copy constructor has copied
    copy,      \* what getFailsCollector returns to each request
    mixed,     \* history: another request has merged since this one began to
    serial     \* history: what there would be if each merge of a request's
               \* search were one step, in the order in which they began

failVars == <<lock, colonyPc, it, fails, global, pcSolve, copied, copy, mixed, serial>>

Nobody == <<"nobody", "nobody">>
Zero == [e \in Events |-> 0]

FailsInit ==
    /\ lock = [r \in Parallel |-> Nobody]
    /\ colonyPc = [c \in Colonies |-> "search"]
    /\ it = [c \in Colonies |-> 1]
    /\ fails = [c \in Colonies |-> Zero]
    /\ global = Zero
    /\ pcSolve = [r \in Requests |-> "wait"]
    /\ copied = [r \in Requests |-> 0]
    /\ copy = [r \in Requests |-> Zero]
    /\ mixed = [r \in Requests |-> FALSE]
    /\ serial = [r \in Requests |-> Zero]

GoOn(c, p) == colonyPc' = [colonyPc EXCEPT ![c] = p]

-----------------------------------------------------------------------------
\* addEvent, wherever a route fails
AddEvent(c) ==
    /\ colonyPc[c] = "search"
    /\ \E e \in Events :
        /\ fails[c][e] < MaxFails
        /\ fails' = [fails EXCEPT ![c][e] = @ + 1]
    /\ UNCHANGED <<lock, colonyPc, it, global, pcSolve, copied, copy, mixed, serial>>

\* what a counter becomes with the one that is merged: *it2++ = *it1++
Combined(mine, theirs) == theirs

\* the merge that begins, as one step, on what those before it have left
Serially(c) ==
    LET first == \A d \in Of(c[1]) : colonyPc[d] = "search"
        before == IF first THEN global ELSE serial[c[1]]
    IN  serial' = [serial EXCEPT ![c[1]] = [e \in Events |-> Combined(before[e], fails[c][e])]]

\* mutation: the fails are merged without the lock
EndSearch_NoLock(c) ==
    /\ colonyPc[c] = "search"
    /\ GoOn(c, "merge") /\ Serially(c)
    /\ UNCHANGED <<lock, it, fails, global, pcSolve, copied, copy, mixed>>

\* The search is over; a thread of a parallel one waits for the lock.
EndSearch(c) ==
    /\ colonyPc[c] = "search"
    /\ IF c[1] \in Parallel
       THEN lock[c[1]] = Nobody /\ lock' = [lock EXCEPT ![c[1]] = c]
       ELSE UNCHANGED lock
    /\ GoOn(c, "merge") /\ Serially(c)
    /\ UNCHANGED <<it, fails, global, pcSolve, copied, copy, mixed>>

\* request r has begun to merge and its log is not written
Reporting(r) == pcSolve[r] # "printed" /\ \E c \in Of(r) : colonyPc[c] # "search"

\* one turn of the loop of operator+=
MergeEvent(c) ==
    /\ colonyPc[c] = "merge" /\ it[c] <= MaxElement
    /\ global' = [global EXCEPT ![it[c]] = Combined(@, fails[c][it[c]])]
    /\ it' = [it EXCEPT ![c] = @ + 1]
    /\ mixed' = [r \in Requests |-> mixed[r] \/ (r # c[1] /\ Reporting(r))]
    /\ UNCHANGED <<lock, colonyPc, fails, pcSolve, copied, copy, serial>>

\* mutation: the thread returns without the unlock
Merged_KeepsLock(c) ==
    /\ colonyPc[c] = "merge" /\ it[c] > MaxElement
    /\ GoOn(c, "done")
    /\ UNCHANGED <<lock, it, fails, global, pcSolve, copied, copy, mixed, serial>>

\* mergeFails returns, and the thread unlocks.
Merged(c) ==
    /\ colonyPc[c] = "merge" /\ it[c] > MaxElement
    /\ lock' = IF c[1] \in Parallel THEN [lock EXCEPT ![c[1]] = Nobody] ELSE lock
    /\ GoOn(c, "done")
    /\ UNCHANGED <<it, fails, global, pcSolve, copied, copy, mixed, serial>>

-----------------------------------------------------------------------------
\* The search returns: every thread is joined.
Joined(r) ==
    /\ pcSolve[r] = "wait" /\ \A c \in Of(r) : colonyPc[c] = "done"
    /\ pcSolve' = [pcSolve EXCEPT ![r] = "copy"]
    /\ UNCHANGED <<lock, colonyPc, it, fails, global, copied, copy, mixed, serial>>

\* getFailsCollector returns a copy, for print.
CopyEvent(r) ==
    /\ pcSolve[r] = "copy" /\ copied[r] < MaxElement
    /\ copied' = [copied EXCEPT ![r] = @ + 1]
    /\ copy' = [copy EXCEPT ![r][copied[r] + 1] = global[copied[r] + 1]]
    /\ UNCHANGED <<lock, colonyPc, it, fails, global, pcSolve, mixed, serial>>

Printed(r) ==
    /\ pcSolve[r] = "copy" /\ copied[r] = MaxElement
    /\ pcSolve' = [pcSolve EXCEPT ![r] = "printed"]
    /\ UNCHANGED <<lock, colonyPc, it, fails, global, copied, copy, mixed, serial>>

Colony(c) == EndSearch(c) \/ MergeEvent(c) \/ Merged(c)
EndSolve(r) == Joined(r) \/ CopyEvent(r) \/ Printed(r)

Terminated == (\A r \in Requests : pcSolve[r] = "printed") /\ UNCHANGED failVars

FailsNext ==
    \/ \E c \in Colonies : AddEvent(c) \/ Colony(c)
    \/ \E r \in Requests : EndSolve(r)
    \/ Terminated

FailsSpec == FailsInit /\ [][FailsNext]_failVars

-----------------------------------------------------------------------------
(* Properties.                                                              *)

\* Every variable has its type, and a lock is held by a thread that merges.
FailsTypeOK ==
    /\ colonyPc \in [Colonies -> {"search", "merge", "done"}]
    /\ it \in [Colonies -> 1 .. MaxElement + 1]
    /\ fails \in [Colonies -> [Events -> 0 .. MaxFails]]
    /\ global \in [Events -> Nat]
    /\ pcSolve \in [Requests -> {"wait", "copy", "printed"}]
    /\ copied \in [Requests -> 0 .. MaxElement]
    /\ copy \in [Requests -> [Events -> Nat]]
    /\ mixed \in [Requests -> BOOLEAN] /\ serial \in [Requests -> [Events -> Nat]]
    /\ \A r \in Parallel : lock[r] = Nobody \/ (lock[r] \in Of(r) /\ colonyPc[lock[r]] = "merge")

\* A log is what the merges of its search make one after the other, each whole,
\* in the order in which they began, however a merge combines two counters: the
\* lock of the search and the join keep its workers apart, and only another
\* request that merges in between can spoil it.
MergesWhole ==
    \A r \in Requests : pcSolve[r] = "printed" /\ ~mixed[r] => copy[r] = serial[r]
=============================================================================
