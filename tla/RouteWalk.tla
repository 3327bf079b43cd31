------------------------------ MODULE RouteWalk ------------------------------
(***************************************************************************)
(* One call of TruckSolutionProducer::checkSingleRoute on a route that is  *)
(* not answered from the cache (truck_solution.cpp 267-351), as            *)
(* getResultStats makes it with a statistics vector: the order check, the  *)
(* vehicle check, then one step per member function of CurrentRouteState.  *)
(* The call without the vector runs the same steps and keeps no stats.     *)
(***************************************************************************)
EXTENDS RouteCheck

VARIABLES
    nodes,      \* r.nodes
    vehicleId,  \* r.vehicleId
    solved,     \* r.solved, as the last check of this Route object left it
    pc,
    pos,        \* index in nodes of the node being visited
    walk,       \* the CurrentRouteState
    event,      \* what the call added to m_failsCollector
    result      \* the SingleRouteStatistics it returns

route == <<nodes, vehicleId>>
vars  == <<nodes, vehicleId, solved, pc, pos, walk, event, result>>

PCs == {"order", "vehicle", "node", "load", "unload", "returned"}

Node == nodes[pos]

-----------------------------------------------------------------------------

Init ==
    /\ nodes \in Routes
    /\ vehicleId \in VehicleIds
    /\ solved \in BOOLEAN
    /\ pc = "order"
    /\ pos = 1
    /\ walk = NewWalk
    /\ event = NoEvent
    /\ result = NoStat

Fail(e) ==
    /\ event' = e
    /\ result' = NoStat
    /\ pc' = "returned"

\* mutant of CheckOrder: the flag is reset before the order is checked
CheckOrder_ResetFirst ==
    /\ pc = "order"
    /\ solved' = FALSE
    /\ IF UnloadsBeforeLoad(nodes)
       THEN Fail("TaskUnLoadBeforeLoad")
       ELSE pc' = "vehicle" /\ UNCHANGED <<event, result>>
    /\ UNCHANGED <<route, pos, walk>>

\* a wrong order is reported before r.solved is reset: the flag stays as it was
CheckOrder ==
    /\ pc = "order"
    /\ IF UnloadsBeforeLoad(nodes)
       THEN /\ Fail("TaskUnLoadBeforeLoad")
            /\ UNCHANGED solved
       ELSE /\ solved' = FALSE
            /\ pc' = "vehicle"
            /\ UNCHANGED <<event, result>>
    /\ UNCHANGED <<route, pos, walk>>

CheckVehicle ==
    /\ pc = "vehicle"
    /\ IF WrongVehicle(vehicleId, nodes)
       THEN Fail("ImpossibleTaskToVenchile")
       ELSE pc' = "node" /\ UNCHANGED <<event, result>>
    /\ UNCHANGED <<route, solved, pos, walk>>

VisitStart ==
    /\ pc = "node"
    /\ pos <= Len(nodes)
    /\ IsTaskStart(Node)
    /\ walk' = MoveNextStart(walk, Node)
    /\ pc' = "load"
    /\ UNCHANGED <<route, solved, pos, event, result>>

Load ==
    /\ pc = "load"
    /\ walk' = ProcessLoad(walk, Node)
    /\ LET failure == LoadFailure(walk', vehicleId, Node)
       IN  IF failure # NoEvent
           THEN Fail(failure) /\ UNCHANGED pos
           ELSE /\ pos' = pos + 1
                /\ pc' = "node"
                /\ UNCHANGED <<event, result>>
    /\ UNCHANGED <<route, solved>>

VisitEnd ==
    /\ pc = "node"
    /\ pos <= Len(nodes)
    /\ ~IsTaskStart(Node)
    /\ LET failure == MoveEndFailure(walk)
       IN  IF failure # NoEvent
           THEN Fail(failure) /\ UNCHANGED walk
           ELSE /\ walk' = MoveNextEnd(walk, Node)
                /\ pc' = "unload"
                /\ UNCHANGED <<event, result>>
    /\ UNCHANGED <<route, solved, pos>>

Unload ==
    /\ pc = "unload"
    /\ LET failure == UnloadFailure(walk, vehicleId, Node)
       IN  IF failure # NoEvent
           THEN /\ Fail(failure)
                /\ walk' = FailedUnload(walk, Node)
                /\ UNCHANGED pos
           ELSE /\ walk' = ProcessUnload(walk, Node)
                /\ pos' = pos + 1
                /\ pc' = "node"
                /\ UNCHANGED <<event, result>>
    /\ UNCHANGED <<route, solved>>

Finish ==
    /\ pc = "node"
    /\ pos > Len(nodes)
    /\ solved' = TRUE
    /\ result' = StatOfWalk(walk, vehicleId, nodes)
    /\ pc' = "returned"
    /\ UNCHANGED <<route, pos, walk, event>>

Next == CheckOrder \/ CheckVehicle \/ VisitStart \/ Load \/ VisitEnd \/ Unload \/ Finish

Spec == Init /\ [][Next]_vars

-----------------------------------------------------------------------------

(***************************************************************************)
(* What getResultStats (truck_solution.cpp 171-195) reports of the i-th    *)
(* node from the two entries the walk pushed for it.                       *)
(***************************************************************************)
Arrived(i) == walk.stats[2 * i - 1]
Left(i)    == walk.stats[2 * i]
TaskWithStat(i) == [nodeId         |-> nodes[i],
                    timeStart      |-> Arrived(i).time,
                    timeEnd        |-> Left(i).time,
                    workloadDiff   |-> Left(i).workload - Arrived(i).workload,
                    volumeDiff     |-> Left(i).volume - Arrived(i).volume,
                    distanceDiff   |-> Arrived(i).distance - Left(i).distance,
                    tasksCountDiff |-> Left(i).tasksCount - Arrived(i).tasksCount]

\* the call found the route feasible
Feasible == pc = "returned" /\ event = NoEvent

\* the tasks the truck carries once the first k nodes are served
OnboardAfter(k) ==
    {t \in TaskIds : /\ \E i \in 1 .. k : nodes[i] = 2 * t
                     /\ ~ \E i \in 1 .. k : nodes[i] = 2 * t + 1}
Onboard == OnboardAfter(pos - 1)

Capacity == [t \in TaskIds |-> Task[t].capacity]
Volume   == [t \in TaskIds |-> Task[t].volume]

\* every variable keeps the type of the C++ member it stands for
TypeOK ==
    /\ nodes \in Routes
    /\ vehicleId \in VehicleIds
    /\ solved \in BOOLEAN
    /\ pc \in PCs
    /\ pos \in 1 .. Len(nodes) + 1
    /\ walk \in WalkState
    /\ event \in CheckEvents
    /\ result \in Stat

\* m_taskTaken, m_currentLoad and m_currentVolume are running counters; they
\* always agree with the tasks that were loaded and not unloaded so far
OnboardBookkeeping ==
    pc \in {"node", "unload"} =>
        /\ walk.taskTaken = Cardinality(Onboard)
        /\ walk.currentLoad = SumFunctionOnSet(Capacity, Onboard)
        /\ walk.currentVolume = SumFunctionOnSet(Volume, Onboard)

\* the order check makes the checks of moveNextEnd and processUnload for an
\* empty truck unreachable: these two events are never counted
EmptyTruckNeverDelivers ==
    event \notin {"EmptyTasksDuringUnload", "CantMoveToEndBeforeStart"}

\* the walk, a step at a time, returns what the functions of RouteCheck say,
\* which is what TruckSolution relies on, the flag included
MatchesCheck ==
    [][pc # "returned" /\ pc' = "returned" =>
         /\ event' = CheckEvent(vehicleId, nodes)
         /\ result' = CheckStat(vehicleId, nodes)
         /\ solved' = SolvedAfter(event', solved)]_vars

\* a route declared feasible reports two entries per node (otherwise
\* getResultStats throws at line 164), starts each service inside the node's
\* window, ends it inside the window, and never reports time running back
ReportedTimesFit ==
    Feasible =>
        /\ Len(walk.stats) = 2 * Len(nodes)
        /\ \A i \in DOMAIN nodes :
              /\ TaskWithStat(i).timeStart >= Point(nodes[i]).ts
              /\ TaskWithStat(i).timeEnd <= Point(nodes[i]).te
              /\ TaskWithStat(i).timeStart <= TaskWithStat(i).timeEnd
              /\ i > 1 => TaskWithStat(i - 1).timeEnd <= TaskWithStat(i).timeStart

\* a route declared feasible respects the vehicle at every entry it reports,
\* and in its totals, although length and duration are only compared when the
\* truck unloads and volume, load and count only when it loads
VehicleLimitsHold ==
    Feasible =>
        LET V == Vehicle[vehicleId] IN
        /\ \A k \in DOMAIN walk.stats :
              /\ ~Exceeds(walk.stats[k].workload, V.capacity)
              /\ ~Exceeds(walk.stats[k].volume, V.maxVolume)
              /\ ~Exceeds(walk.stats[k].tasksCount, TripMaxTasks(vehicleId))
        /\ ~Exceeds(result.time, V.tripDuration)
        /\ ~Exceeds(result.distance, V.tripLength)

\* the differences getResultStats reports add up: distances to the length of
\* the route, and workload, volume and task count to nothing left on the truck
ReportAddsUp ==
    Feasible =>
        /\ SumFunction([i \in DOMAIN nodes |-> TaskWithStat(i).distanceDiff]) = result.distance
        /\ SumFunction([i \in DOMAIN nodes |-> TaskWithStat(i).workloadDiff]) = 0
        /\ SumFunction([i \in DOMAIN nodes |-> TaskWithStat(i).volumeDiff]) = 0
        /\ SumFunction([i \in DOMAIN nodes |-> TaskWithStat(i).tasksCountDiff]) = 0

\* What getResultStats reports of a route that can be driven fits: its times
\* keep the windows and the matrix, and its differences the totals.
ReportFits == ReportedTimesFit /\ ReportAddsUp

\* the length reported for a route (solver.cpp 352 logs it as the "osrm
\* distance" of the polyline through the same nodes) is the length of the legs
\* between consecutive nodes
ReportedDistanceFollowsRoute ==
    Feasible =>
        result.distance =
            SumFunction([i \in 2 .. Len(nodes) |-> DestMeters[nodes[i - 1]][nodes[i]]])
=============================================================================
