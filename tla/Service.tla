------------------------------- MODULE Service -------------------------------
(***************************************************************************)
(* What the backend promises to the clients of /solve_routes, whatever its *)
(* handlers, its semaphore and the library do inside.  A request is        *)
(* refused at once or waits for its turn; turns are given in the order in  *)
(* which the requests began to wait, one per request, and no more at a     *)
(* time than there are slots; slots may get lost, and then stay lost; a    *)
(* turn ends with an outcome, and the one answer tells what it was.        *)
(***************************************************************************)
EXTENDS Naturals, Sequences, FiniteSets

CONSTANTS Requests, Slots

VARIABLES
    waiting,    \* the requests that wait for their turn, in order
    inside,     \* the requests whose turn it is
    outcome,    \* what the turn of each came to, "empty" before it has ended
    answer,     \* the status each client was sent, 0 before
    slots       \* the slots that are left

vars == <<waiting, inside, outcome, answer, slots>>

Init ==
    /\ waiting = <<>>
    /\ inside = {}
    /\ outcome = [r \in Requests |-> "empty"]
    /\ answer = [r \in Requests |-> 0]
    /\ slots = Slots

Waits(r) == \E i \in DOMAIN waiting : waiting[i] = r

\* r is neither waiting, nor inside, nor through
Fresh(r) == ~Waits(r) /\ r \notin inside /\ outcome[r] = "empty" /\ answer[r] = 0

Wait(r) ==
    /\ Fresh(r)
    /\ waiting' = Append(waiting, r)
    /\ UNCHANGED <<inside, outcome, answer, slots>>

Refuse(r) ==
    /\ Fresh(r)
    /\ answer' = [answer EXCEPT ![r] = 400]
    /\ UNCHANGED <<waiting, inside, outcome, slots>>

Admit ==
    /\ waiting # <<>>
    /\ Cardinality(inside) < slots
    /\ inside' = inside \cup {Head(waiting)}
    /\ waiting' = Tail(waiting)
    /\ UNCHANGED <<outcome, answer, slots>>

Finish(r) ==
    /\ r \in inside
    /\ inside' = inside \ {r}
    /\ \E o \in {"trips", "error"} : outcome' = [outcome EXCEPT ![r] = o]
    /\ UNCHANGED <<waiting, answer, slots>>

Answer(r) ==
    /\ outcome[r] # "empty"
    /\ answer[r] = 0
    /\ answer' = [answer EXCEPT ![r] = IF outcome[r] = "trips" THEN 200 ELSE 400]
    /\ UNCHANGED <<waiting, inside, outcome, slots>>

LoseSlot ==
    /\ Cardinality(inside) < slots
    /\ slots' = slots - 1
    /\ UNCHANGED <<waiting, inside, outcome, answer>>

Next ==
    \/ Admit
    \/ LoseSlot
    \/ \E r \in Requests : Wait(r) \/ Refuse(r) \/ Finish(r) \/ Answer(r)

Spec == Init /\ [][Next]_vars
=============================================================================
