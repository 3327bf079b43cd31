------------------------------- MODULE Solving -------------------------------
(***************************************************************************)
(* The parts that solve a request: the checker that says which vehicle may *)
(* take which task, the bees of one colony, and one source of food from    *)
(* its first routes to the answer that is made of it.  Each has variables  *)
(* of its own, and the other parts' are not its business.                  *)
(***************************************************************************)
EXTENDS Report, Colony, TaskChecker

\* Every variable of every part has its type.
SolvingTypeOK == ReportTypeOK /\ ColonyTypeOK /\ CheckerTypeOK
=============================================================================
