------------------------------- MODULE Report -------------------------------
(***************************************************************************)
(* From the solution that the search returns to the answer that the client *)
(* gets: getResultStats (truck_solution.cpp), the end of Solver::solve     *)
(* (solver.cpp) and the response in processRequest (interface.cpp).  The   *)
(* solution is whatever source TruckSolution reaches.                      *)
(***************************************************************************)
EXTENDS TruckSolution

CONSTANTS
    ExternalVehicle,   \* vehicle id -> the client's id of it
    ExternalTask,      \* task id -> the client's id of it
    IntMax             \* std::numeric_limits<int>::max()

ASSUME ExternalAssumption ==
    /\ DOMAIN ExternalVehicle = VehicleIds
    /\ DOMAIN ExternalTask = TaskIds
    /\ IntMax \in Nat

VARIABLES
    pc,             \* "search", "stats", "assemble", "respond", "done" or "thrown"
    why,            \* what was thrown
    next,           \* the route that the loop is at
    routes,         \* resultWithStats.routes
    results,        \* results.routes
    trips           \* out["trips"]

reportVars == <<vars, pc, why, next, routes, results, trips>>

-----------------------------------------------------------------------------
(* getResultStats *)

\* the statistics that a check of the route leaves
StatsOf(r) ==
    IF UnloadsBeforeLoad(r.nodes) \/ WrongVehicle(r.vehicleId, r.nodes) THEN << >>
    ELSE Walk(r.vehicleId, r.nodes).walk.stats

TaskWithStat(node, p1, p2) ==
    [nodeId         |-> node,
     timeStart      |-> p1.time,
     timeEnd        |-> p2.time,
     workloadDiff   |-> p2.workload - p1.workload,
     volumeDiff     |-> p2.volume - p1.volume,
     distanceDiff   |-> p1.distance - p2.distance,
     tasksCountDiff |-> p2.tasksCount - p1.tasksCount]

\* mutation: the span of a route is that of the last node's service
Span_Last(tasks) == [timeStart |-> tasks[Len(tasks)].timeStart, timeEnd |-> tasks[Len(tasks)].timeEnd]

\* the span starts at IntMax and 0, and every task widens it
Span(tasks) ==
    [timeStart |-> Min({IntMax} \cup {tasks[i].timeStart : i \in DOMAIN tasks}),
     timeEnd   |-> Max({0} \cup {tasks[i].timeEnd : i \in DOMAIN tasks})]

RouteWithStat(r) ==
    LET stats == StatsOf(r)
        tasks == [i \in DOMAIN r.nodes |-> TaskWithStat(r.nodes[i], stats[2 * i - 1], stats[2 * i])]
    IN  [vehicleId |-> r.vehicleId,
         length    |-> CheckStat(r.vehicleId, r.nodes).distance,
         tasks     |-> tasks,
         timeStart |-> Span(tasks).timeStart,
         timeEnd   |-> Span(tasks).timeEnd]

-----------------------------------------------------------------------------
(* Solver::solve *)

\* mutation: an entry has the change at its node alone
Total_Change(changes, k) == changes[k]

\* the total after the first k nodes
Total(changes, k) == FoldLeft(LAMBDA sum, change : sum + change, 0, SubSeq(changes, 1, k))

ResultTask(tasks, k) ==
    [id         |-> ExternalTask[tasks[k].nodeId \div 2],
     action     |-> IF tasks[k].nodeId % 2 = 0 THEN "Load" ELSE "Unload",
     startTime  |-> tasks[k].timeStart,
     stopTime   |-> tasks[k].timeEnd,
     workload   |-> Total([i \in DOMAIN tasks |-> tasks[i].workloadDiff], k),
     volume     |-> Total([i \in DOMAIN tasks |-> tasks[i].volumeDiff], k),
     distance   |-> Total([i \in DOMAIN tasks |-> tasks[i].distanceDiff], k),
     tasksCount |-> Total([i \in DOMAIN tasks |-> tasks[i].tasksCountDiff], k)]

\* mutation: the parameters are not declared anew for each route
RouteParams_Kept(r) ==
    (IF results = << >> THEN << >> ELSE results[Len(results)].polyline)
        \o [i \in DOMAIN r.tasks |-> r.tasks[i].nodeId]

\* the coordinates that OSRM is to draw a route through, a node for each
RouteParams(r) == [i \in DOMAIN r.tasks |-> r.tasks[i].nodeId]

\* mutation: the trip names the vehicle as the solver does
ResultRoute_Internal(r) ==
    [vehicle   |-> r.vehicleId,
     startTime |-> r.timeStart,
     stopTime  |-> r.timeEnd,
     distance  |-> IF r.tasks = << >> THEN 0 ELSE ResultTask(r.tasks, Len(r.tasks)).distance,
     polyline  |-> RouteParams(r),
     tasks     |-> [k \in DOMAIN r.tasks |-> ResultTask(r.tasks, k)]]

\* the geometry that OSRM returns for these coordinates: they stand for it
ResultRoute(r) ==
    [vehicle   |-> ExternalVehicle[r.vehicleId],
     startTime |-> r.timeStart,
     stopTime  |-> r.timeEnd,
     distance  |-> IF r.tasks = << >> THEN 0 ELSE ResultTask(r.tasks, Len(r.tasks)).distance,
     polyline  |-> RouteParams(r),
     tasks     |-> [k \in DOMAIN r.tasks |-> ResultTask(r.tasks, k)]]

-----------------------------------------------------------------------------
(* processRequest *)

Trip(r) ==
    [vehicle |-> r.vehicle, ts |-> r.startTime, te |-> r.stopTime, length |-> r.distance,
     polyline |-> r.polyline,
     tasks |-> [k \in DOMAIN r.tasks |->
         [id |-> r.tasks[k].id, action |-> r.tasks[k].action,
          ts |-> r.tasks[k].startTime, te |-> r.tasks[k].stopTime,
          workload |-> r.tasks[k].workload, volume |-> r.tasks[k].volume,
          distance |-> r.tasks[k].distance, active_tasks |-> r.tasks[k].tasksCount]]]

-----------------------------------------------------------------------------
Throw(what) == pc' = "thrown" /\ why' = what /\ UNCHANGED <<vars, next, routes, results, trips>>

ReportInit ==
    /\ Init
    /\ pc = "search" /\ why = "" /\ next = 1
    /\ routes = << >> /\ results = << >> /\ trips = << >>

Improve ==
    /\ pc = "search"
    /\ Next
    /\ UNCHANGED <<pc, why, next, routes, results, trips>>

\* mutation: a solution with an unsolved route is no solution
AnySolved_All == AllSolved(source.routes)

AnySolved == \E i \in DOMAIN source.routes : source.routes[i].solved

TakeSolution ==
    /\ pc = "search"
    /\ IF AnySolved
       THEN pc' = "stats" /\ UNCHANGED <<vars, why, next, routes, results, trips>>
       ELSE Throw("No solution found!")

\* one route of the solution
ResultStats ==
    /\ pc = "stats" /\ next <= Len(source.routes)
    /\ LET r == source.routes[next]
       IN  IF r.solved /\ Len(StatsOf(r)) # 2 * Len(r.nodes)
           THEN Throw("unexpected times size != nodes size !")
           ELSE /\ routes' = IF r.solved THEN Append(routes, RouteWithStat(r)) ELSE routes
                /\ next' = next + 1
                /\ UNCHANGED <<vars, pc, why, results, trips>>

\* mutation: the loop stays at its route
Assemble_Again ==
    /\ pc = "assemble" /\ next <= Len(routes)
    /\ results' = Append(results, ResultRoute(routes[next]))
    /\ UNCHANGED <<vars, pc, why, next, routes, trips>>

\* one route of the result; OSRM may find no way through it
Assemble ==
    /\ pc = "assemble" /\ next <= Len(routes)
    /\ \/ Throw("Error during table calculation")
       \/ /\ results' = Append(results, ResultRoute(routes[next]))
          /\ next' = next + 1
          /\ UNCHANGED <<vars, pc, why, routes, trips>>

\* one trip of the answer
Respond ==
    /\ pc = "respond" /\ next <= Len(results)
    /\ trips' = Append(trips, Trip(results[next]))
    /\ next' = next + 1
    /\ UNCHANGED <<vars, pc, why, routes, results>>

\* the end of a loop
NextLoop ==
    /\ \/ pc = "stats" /\ next > Len(source.routes) /\ pc' = "assemble"
       \/ pc = "assemble" /\ next > Len(routes) /\ pc' = "respond"
       \/ pc = "respond" /\ next > Len(results) /\ pc' = "done"
    /\ next' = 1
    /\ UNCHANGED <<vars, why, routes, results, trips>>

ReportNext == Improve \/ TakeSolution \/ ResultStats \/ Assemble \/ Respond \/ NextLoop

ReportSpec == ReportInit /\ [][ReportNext]_reportVars

-----------------------------------------------------------------------------
(* Properties of the answer, in the client's terms. *)

ReportTypeOK ==
    /\ TypeOK
    /\ pc \in {"search", "stats", "assemble", "respond", "done", "thrown"}
    /\ next \in 1 .. NumVehicles + 1
    /\ Len(trips) <= Len(results) /\ Len(results) <= Len(routes)
    /\ \A i \in DOMAIN routes : routes[i].length \in Nat /\ routes[i].timeEnd \in Nat

\* A solution with some solved route and others that are not gets an answer,
\* which has trips for the solved ones alone, unless OSRM fails: although the
\* flag may be older than the route's last order, getResultStats always finds
\* the statistics of the whole route.
AnswersWhenSolved ==
    /\ why # "unexpected times size != nodes size !"
    /\ why = "No solution found!" => SolvedIn(source.routes) = {}
    /\ pc = "done" => Len(trips) = Cardinality(SolvedIn(source.routes)) /\ trips # << >>

\* Nothing in the parser keeps a client from giving two tasks one id.
DistinctTasks == \A t, u \in TaskIds : ExternalTask[t] = ExternalTask[u] => t = u

ServedOnce(i, k) ==
    LET id == trips[i].tasks[k].id
    IN  \E n, m \in DOMAIN trips[i].tasks :
            /\ n < m /\ trips[i].tasks[n].id = id /\ trips[i].tasks[m].id = id
            /\ trips[i].tasks[n].action = "Load" /\ trips[i].tasks[m].action = "Unload"
            /\ \A j \in DOMAIN trips : \A l \in DOMAIN trips[j].tasks :
                  trips[j].tasks[l].id = id => j = i /\ l \in {n, m}
            /\ \E v \in VehicleIds, t \in TaskIds :
                  ExternalVehicle[v] = trips[i].vehicle /\ ExternalTask[t] = id /\ Valid[v][t]

\* A task of the client is in one trip at most, and there it is loaded once and
\* unloaded once, later, by a vehicle that may take it.
ServedByOneTrip == DistinctTasks =>
    \A i \in DOMAIN trips : \A k \in DOMAIN trips[i].tasks : ServedOnce(i, k)

\* the tasks that the first k entries of trip i name with this action
Seen(i, k, action) ==
    {t \in TaskIds : \E n \in 1 .. k :
        trips[i].tasks[n].id = ExternalTask[t] /\ trips[i].tasks[n].action = action}

OnBoard(i, k) ==
    LET aboard == Seen(i, k, "Load") \ Seen(i, k, "Unload")
    IN  /\ trips[i].tasks[k].active_tasks = Cardinality(aboard)
        /\ trips[i].tasks[k].workload = SumFunctionOnSet([t \in TaskIds |-> Task[t].capacity], aboard)
        /\ trips[i].tasks[k].volume = SumFunctionOnSet([t \in TaskIds |-> Task[t].volume], aboard)

\* What an entry of a trip says is on board is what the entries up to it have
\* loaded and not unloaded.
OnBoardAsReported == DistinctTasks =>
    \A i \in DOMAIN trips : \A k \in DOMAIN trips[i].tasks : OnBoard(i, k)

\* A trip begins when its first task does and ends when its last one does, as
\* long as times are below IntMax; its length is that of the checked route.
TripSpansTasks ==
    \A i \in DOMAIN trips :
        LET tasks == trips[i].tasks
        IN  /\ tasks[1].ts < IntMax => trips[i].ts = tasks[1].ts
            /\ trips[i].te = tasks[Len(tasks)].te
            /\ trips[i].length = routes[i].length

\* The line that a client draws goes through the points of the trip's own
\* tasks, in the order in which they are served.
LineThroughTasks ==
    \A i \in DOMAIN trips :
        /\ Len(trips[i].polyline) = Len(trips[i].tasks)
        /\ \A k \in DOMAIN trips[i].tasks :
              LET node == trips[i].polyline[k]
              IN  /\ ExternalTask[node \div 2] = trips[i].tasks[k].id
                  /\ (node % 2 = 0) = (trips[i].tasks[k].action = "Load")

\* The answer that solve copies together from four vectors is the routes of the
\* solution: one trip for each solved route, with its own tasks, times, length
\* and line.
TripsAreRoutes ==
    /\ AnswersWhenSolved
    /\ ServedByOneTrip
    /\ OnBoardAsReported
    /\ TripSpansTasks
    /\ LineThroughTasks
=============================================================================
