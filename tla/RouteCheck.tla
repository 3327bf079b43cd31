------------------------------ MODULE RouteCheck ------------------------------
(***************************************************************************)
(* Routes, and what checkSingleRoute (truck_solution.cpp 252-351) computes *)
(* for one that its cache does not know, as functions of the route.        *)
(***************************************************************************)
EXTENDS CurrentRouteState, FiniteSets, Functions, SequencesExt

CONSTANTS
    Valid,    \* m_vehicleToTaskValid: vehicle id -> task id -> BOOLEAN
    MaxCost   \* std::numeric_limits<double>::max(), the cost of Stat()

ASSUME ValidAssumption == Valid \in [VehicleIds -> [TaskIds -> BOOLEAN]]
ASSUME CostAssumption  == MaxCost \in Nat

Stat == [cost : Nat, distance : Nat, time : Nat, vipCount : Nat]

\* mutant of NoStat: a route that failed costs nothing
NoStat_Free == [cost |-> 0, distance |-> 0, time |-> 0, vipCount |-> 0]

\* Stat(), returned for every route that fails
NoStat == [cost |-> MaxCost, distance |-> 0, time |-> 0, vipCount |-> 0]

CheckEvents == WalkEvents \cup {NoEvent, "TaskUnLoadBeforeLoad", "ImpossibleTaskToVenchile"}

\* the routes the producer builds: both nodes of some of the tasks, in any order
IsRoute(ns) ==
    /\ IsInjective(ns)
    /\ \A i \in DOMAIN ns : \E j \in DOMAIN ns :
           TaskOf(ns[j]) = TaskOf(ns[i]) /\ ns[j] # ns[i]

Routes == UNION {{ns \in [1 .. 2 * k -> Nodes] : IsRoute(ns)} : k \in 1 .. NumTasks}

\* mutant of UnloadsBeforeLoad: a load anywhere in the route will do
UnloadsBeforeLoad_AnyOrder(ns) ==
    \E j \in DOMAIN ns :
        /\ ~IsTaskStart(ns[j])
        /\ ~ \E i \in DOMAIN ns : ns[i] = ns[j] - 1

\* lines 276-293: some node unloads a task that no earlier node loads
UnloadsBeforeLoad(ns) ==
    \E j \in DOMAIN ns :
        /\ ~IsTaskStart(ns[j])
        /\ ~ \E i \in DOMAIN ns : i < j /\ ns[i] = ns[j] - 1

\* lines 299-308: some task is not for this vehicle
WrongVehicle(v, ns) == \E i \in DOMAIN ns : ~Valid[v][TaskOf(ns[i])]

\* each visited node of a vip task counts, the load and the unload
VipCount(ns) == Cardinality({i \in DOMAIN ns : Task[TaskOf(ns[i])].vip})

-----------------------------------------------------------------------------

\* one turn of the loop 312-345, for a truck that has not failed yet
Visit(v, w, n) ==
    IF IsTaskStart(n)
    THEN LET loaded == ProcessLoad(MoveNextStart(w, n), n)
         IN  [walk |-> loaded, event |-> LoadFailure(loaded, v, n)]
    ELSE IF MoveEndFailure(w) # NoEvent
    THEN [walk |-> w, event |-> MoveEndFailure(w)]
    ELSE LET there   == MoveNextEnd(w, n)
             failure == UnloadFailure(there, v, n)
         IN  [walk  |-> IF failure = NoEvent THEN ProcessUnload(there, n)
                                             ELSE FailedUnload(there, n),
              event |-> failure]

\* the whole loop; what it returns from a failure ends it
Walk(v, ns) ==
    FoldLeft(LAMBDA at, n : IF at.event = NoEvent THEN Visit(v, at.walk, n) ELSE at,
             [walk |-> NewWalk, event |-> NoEvent], ns)

CheckEvent(v, ns) ==
    IF      UnloadsBeforeLoad(ns) THEN "TaskUnLoadBeforeLoad"
    ELSE IF WrongVehicle(v, ns)   THEN "ImpossibleTaskToVenchile"
    ELSE Walk(v, ns).event

StatOfWalk(w, v, ns) == [cost     |-> TotalCostOfRoute(w, v),
                         distance |-> TotalDistance(w),
                         time     |-> TotalTimeSpend(w),
                         vipCount |-> VipCount(ns)]

CheckStat(v, ns) ==
    IF CheckEvent(v, ns) = NoEvent THEN StatOfWalk(Walk(v, ns).walk, v, ns) ELSE NoStat

\* r.solved after the check: the order check comes before line 295 resets it
SolvedAfter(event, solved) ==
    CASE event = NoEvent                -> TRUE
      [] event = "TaskUnLoadBeforeLoad" -> solved
      [] OTHER                          -> FALSE
=============================================================================
