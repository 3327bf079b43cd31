-------------------------------- MODULE Search --------------------------------
(***************************************************************************)
(* What the parallel search promises its caller.  Each worker knows some   *)
(* solution; the search holds one of its own.  The held solution is only   *)
(* ever replaced by a strictly better one that some worker knows, and the  *)
(* search returns once no worker knows a better one than it holds.         *)
(* A solution is its fitness; 0 stands for "none yet".                     *)
(***************************************************************************)
EXTENDS Naturals

CONSTANTS Workers, Fitness

VARIABLES known, held, returned

vars == <<known, held, returned>>

Init ==
    /\ known = [w \in Workers |-> 0]
    /\ held \in Fitness
    /\ returned = FALSE

\* w learns of a better solution than the one it knows
Find(w) ==
    /\ ~returned
    /\ \E f \in Fitness : f > known[w] /\ known' = [known EXCEPT ![w] = f]
    /\ UNCHANGED <<held, returned>>

\* the search takes over what w knows
Adopt(w) ==
    /\ ~returned
    /\ known[w] > held
    /\ held' = known[w]
    /\ UNCHANGED <<known, returned>>

Return ==
    /\ ~returned
    /\ \A w \in Workers : known[w] <= held
    /\ returned' = TRUE
    /\ UNCHANGED <<known, held>>

Next == (\E w \in Workers : Find(w) \/ Adopt(w)) \/ Return

Spec == Init /\ [][Next]_vars
=============================================================================
