-------------------------- MODULE CurrentRouteState --------------------------
(***************************************************************************)
(* The truck that drives one route: class rs::CurrentRouteState of         *)
(* libs/route_solver/src/lib/solution/currentroutestate.cpp, as a record   *)
(* and one pure operator per member function.  RouteWalk applies them one  *)
(* step at a time, TruckSolution folds them over a whole route.            *)
(*                                                                         *)
(* Task t owns two nodes of the matrices: 2t, where it is loaded, and      *)
(* 2t+1, where it is unloaded.  Times are whole seconds (std::size_t) and  *)
(* the duration matrix holds tenths of a second, so that adding a duration *)
(* to the clock truncates as the code's "size_t += double" does.           *)
(***************************************************************************)
EXTENDS Integers, Sequences

CONSTANTS
    NumTasks,     \* m_tasks.size()
    NumVehicles,  \* m_vehicles.size()
    Task,         \* m_tasks: task id -> its record
    Vehicle,      \* m_vehicles: vehicle id -> its record
    DestTime,     \* m_destTimeTable, in tenths of a second
    DestMeters    \* m_destTable, in metres

TaskIds    == 0 .. NumTasks - 1
VehicleIds == 0 .. NumVehicles - 1
Nodes      == 0 .. 2 * NumTasks - 1

\* struct TaskPoint: the time window [ts, te] and the service time dur
TaskPoint == [ts : Nat, te : Nat, dur : Nat]

TaskType == [start : TaskPoint, end : TaskPoint,
             capacity : Nat, volume : Nat, vip : BOOLEAN]

\* the members of class Vehicle a route is checked against; 0 is "no limit"
VehicleType == [capacity : Nat, maxVolume : Nat, tripMaxTasks : Nat,
                tripDuration : Nat, tripLength : Nat,
                costOfUsing : Nat, costPerKM : BOOLEAN]

ASSUME FleetAssumption ==
    /\ NumTasks \in Nat \ {0}
    /\ NumVehicles \in Nat \ {0}
    /\ Task \in [TaskIds -> TaskType]
    /\ Vehicle \in [VehicleIds -> VehicleType]

ASSUME MatrixAssumption ==
    /\ DestTime \in [Nodes -> [Nodes -> Nat]]
    /\ DestMeters \in [Nodes -> [Nodes -> Nat]]

TaskOf(n)      == n \div 2
IsTaskStart(n) == n % 2 = 0
Point(n)       == IF IsTaskStart(n) THEN Task[TaskOf(n)].start
                                    ELSE Task[TaskOf(n)].end

\* getTripMaxTasks() narrows the stored 32-bit count to 16 bits
TripMaxTasks(v) == Vehicle[v].tripMaxTasks % 65536

\* "limit != 0 && value > limit"
Exceeds(value, limit) == limit # 0 /\ value > limit

NoNode  == -1
NoEvent == "None"

\* the members of FailEvent that a walk can raise
WalkEvents == {"MissedTimeFrameDuringLoad", "ExceededMaxVolumeDuringLoad",
               "ExceededMaxCapacityDuringLoad", "ExceededMaxTasksDuringLoad",
               "EmptyTasksDuringUnload", "MissedTimeFrameDuringUnload",
               "ExceededTripDuarationDuringUnload",
               "ExceededTripLengthDuringUnload", "CantMoveToEndBeforeStart"}

PointStat == [nodeId : Nodes, time : Nat, workload : Int, volume : Int,
              distance : Nat, tasksCount : Int]

WalkState == [currentTime : Nat, currentDistanceMeters : Nat,
              routeStartTime : Nat, currentLoad : Int, currentVolume : Int,
              taskTaken : Int, currentNode : Nodes \cup {NoNode},
              stats : Seq(PointStat)]

NewWalk == [currentTime |-> 0, currentDistanceMeters |-> 0,
            routeStartTime |-> 0, currentLoad |-> 0, currentVolume |-> 0,
            taskTaken |-> 0, currentNode |-> NoNode, stats |-> <<>>]

PushStats(w, nodeDistance) ==
    [w EXCEPT !.stats = Append(@, [nodeId     |-> w.currentNode,
                                   time       |-> w.currentTime,
                                   workload   |-> w.currentLoad,
                                   volume     |-> w.currentVolume,
                                   distance   |-> nodeDistance,
                                   tasksCount |-> w.taskTaken])]

\* mutant of Drive: the truck does not wait for the window to open
Drive_NoWait(w, n) ==
    [w EXCEPT !.currentTime = @ + DestTime[w.currentNode][n] \div 10,
              !.currentDistanceMeters = @ + DestMeters[w.currentNode][n]]

\* drive from m_currentNode to n, and wait there for the window to open
Drive(w, n) ==
    LET arrival == w.currentTime + DestTime[w.currentNode][n] \div 10
        opening == Point(n).ts
    IN  [w EXCEPT
           !.currentTime = IF arrival < opening THEN opening ELSE arrival,
           !.currentDistanceMeters = @ + DestMeters[w.currentNode][n]]

\* mutant of MoveNextStart: the route's clock starts at the wrong end of the window
MoveNextStart_LateStart(w, n) ==
    IF w.currentNode = NoNode
    THEN PushStats([w EXCEPT !.currentTime    = Point(n).ts,
                             !.routeStartTime = Point(n).te,
                             !.currentNode    = n], 0)
    ELSE PushStats([Drive(w, n) EXCEPT !.currentNode = n],
                   DestMeters[w.currentNode][n])

MoveNextStart(w, n) ==
    IF w.currentNode = NoNode
    THEN PushStats([w EXCEPT !.currentTime    = Point(n).ts,
                             !.routeStartTime = Point(n).ts,
                             !.currentNode    = n], 0)
    ELSE PushStats([Drive(w, n) EXCEPT !.currentNode = n],
                   DestMeters[w.currentNode][n])

ProcessLoad(w, n) ==
    PushStats([w EXCEPT !.currentTime   = @ + Point(n).dur,
                        !.currentLoad   = @ + Task[TaskOf(n)].capacity,
                        !.currentVolume = @ + Task[TaskOf(n)].volume,
                        !.taskTaken     = @ + 1], 0)

\* what processLoad finds wrong once it has loaded, in the order it looks
LoadFailure(w, v, n) ==
    IF      w.currentTime > Point(n).te THEN "MissedTimeFrameDuringLoad"
    ELSE IF Exceeds(w.currentVolume, Vehicle[v].maxVolume)
                                        THEN "ExceededMaxVolumeDuringLoad"
    ELSE IF Exceeds(w.currentLoad, Vehicle[v].capacity)
                                        THEN "ExceededMaxCapacityDuringLoad"
    ELSE IF Exceeds(w.taskTaken, TripMaxTasks(v))
                                        THEN "ExceededMaxTasksDuringLoad"
    ELSE NoEvent

\* moveNextEnd refuses to drive before anything was loaded ...
MoveEndFailure(w) ==
    IF w.taskTaken = 0 \/ w.currentNode = NoNode
    THEN "CantMoveToEndBeforeStart" ELSE NoEvent

\* mutant of MoveNextEnd: the leg is driven but not reported
MoveNextEnd_NoLeg(w, n) == PushStats(Drive(w, n), 0)

\* ... and otherwise drives, without making n the current node
MoveNextEnd(w, n) ==
    PushStats(Drive(w, n), DestMeters[w.currentNode][n])

\* the service time is spent before the limits are looked at
ServeEnd(w, n) == [w EXCEPT !.currentTime = @ + Point(n).dur]

\* mutant of UnloadFailure: the length of the trip is not compared
UnloadFailure_NoLength(w, v, n) ==
    LET now == ServeEnd(w, n).currentTime IN
    IF      w.taskTaken = 0   THEN "EmptyTasksDuringUnload"
    ELSE IF now > Point(n).te THEN "MissedTimeFrameDuringUnload"
    ELSE IF Exceeds(now - w.routeStartTime, Vehicle[v].tripDuration)
                              THEN "ExceededTripDuarationDuringUnload"
    ELSE NoEvent

UnloadFailure(w, v, n) ==
    LET now == ServeEnd(w, n).currentTime IN
    IF      w.taskTaken = 0   THEN "EmptyTasksDuringUnload"
    ELSE IF now > Point(n).te THEN "MissedTimeFrameDuringUnload"
    ELSE IF Exceeds(now - w.routeStartTime, Vehicle[v].tripDuration)
                              THEN "ExceededTripDuarationDuringUnload"
    ELSE IF Exceeds(w.currentDistanceMeters, Vehicle[v].tripLength)
                              THEN "ExceededTripLengthDuringUnload"
    ELSE NoEvent

\* what a failed processUnload leaves: an empty truck returns at once
FailedUnload(w, n) == IF w.taskTaken = 0 THEN w ELSE ServeEnd(w, n)

\* mutant of ProcessUnload: the task is not counted off the truck
ProcessUnload_KeepsTask(w, n) ==
    PushStats([ServeEnd(w, n) EXCEPT
                 !.currentLoad   = @ - Task[TaskOf(n)].capacity,
                 !.currentVolume = @ - Task[TaskOf(n)].volume], 0)

ProcessUnload(w, n) ==
    PushStats([ServeEnd(w, n) EXCEPT
                 !.currentLoad   = @ - Task[TaskOf(n)].capacity,
                 !.currentVolume = @ - Task[TaskOf(n)].volume,
                 !.taskTaken     = @ - 1], 0)

TotalTimeSpend(w) == w.currentTime - w.routeStartTime
TotalDistance(w)  == w.currentDistanceMeters

\* in units of 1/36000: metres / 1000 or seconds / 3600, times costOfUsing
TotalCostOfRoute(w, v) ==
    IF Vehicle[v].costPerKM
    THEN TotalDistance(w) * Vehicle[v].costOfUsing * 36
    ELSE Vehicle[v].costOfUsing * TotalTimeSpend(w) * 10
=============================================================================
