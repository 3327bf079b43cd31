----------------------------- MODULE TaskChecker -----------------------------
(***************************************************************************)
(* The constructor of VehicleTaskChecker (vehicle_to_task_checker.cpp):    *)
(* which vehicle may take which task.  One step per zone finds the tasks   *)
(* inside it, then one step per vehicle fills its row of the matrix that   *)
(* checkSingleRoute consults (Valid in RouteCheck).  Local ids are the     *)
(* positions the parser gave the objects, counted from 0; zones are        *)
(* referred to by external ids, which nothing makes unique or known.       *)
(***************************************************************************)
EXTENDS WindingNumber

CONSTANTS
    ZoneInputs,     \* the inputs: functions from local ids to zones,
    TaskInputs,     \* to tasks,
    VehicleInputs,  \* and to vehicles
    Memory          \* the points that may be read past the end of a vector

\* local ids are positions, and loads and sizes are numbers
Positions(f) == IsFiniteSet(DOMAIN f) /\ DOMAIN f = 0 .. Cardinality(DOMAIN f) - 1

ASSUME CheckerAssumption ==
    /\ \A f \in ZoneInputs \cup VehicleInputs : Positions(f)
    /\ \A vs \in VehicleInputs : \A v \in DOMAIN vs :
          {vs[v].capacity, vs[v].width, vs[v].length, vs[v].height} \subseteq Int
    /\ \A ts \in TaskInputs : \A t \in DOMAIN ts : {ts[t].capacity, ts[t].volume} \subseteq Int

VARIABLES
    zones, tasks, vehicles,  \* the arguments
    externalIdToLocal,       \* std::map, as a function on the ids it holds
    zoneAndTask,             \* std::map, likewise: the tasks inside each zone
    possibility,             \* m_possibilityVehicleToTask
    nextZone, nextVehicle    \* the loop counters

inputs == <<zones, tasks, vehicles>>
checkerVars == <<inputs, externalIdToLocal, zoneAndTask, possibility, nextZone, nextVehicle>>

CheckerInit ==
    /\ zones \in ZoneInputs
    /\ tasks \in TaskInputs
    /\ vehicles \in VehicleInputs
    /\ externalIdToLocal = <<>>
    /\ zoneAndTask = <<>>
    /\ possibility = [v \in DOMAIN vehicles |-> [t \in DOMAIN tasks |-> 0]]
    /\ nextZone = 0
    /\ nextVehicle = 0

-----------------------------------------------------------------------------
(* Zones *)

InCircle(P, zone) ==
    LET dx == P.x - zone.center.x
        dy == P.y - zone.center.y
    IN  dx * dx + dy * dy < zone.radius * zone.radius

\* the outcomes of asking whether P is in the zone
InZone(P, zone) ==
    IF zone.type = "Circle" THEN {InCircle(P, zone)}
    ELSE {wn_PnPoly(P, zone.points, beyond) # 0 : beyond \in Memory}

\* both ends of the task are asked for
IsTaskInZone(task, zone) ==
    {start /\ end : start \in InZone(task.start, zone), end \in InZone(task.end, zone)}

\* a map's entry for a key, new or not
Put(map, key, value) == [k \in DOMAIN map \cup {key} |-> IF k = key THEN value ELSE map[k]]

IndexZone ==
    /\ nextZone \in DOMAIN zones
    /\ externalIdToLocal' = Put(externalIdToLocal, zones[nextZone].externalId, nextZone)
    /\ \E found \in SUBSET DOMAIN tasks :
          /\ \A t \in DOMAIN tasks :
                (t \in found) \in IsTaskInZone(tasks[t], zones[nextZone])
          /\ zoneAndTask' = Put(zoneAndTask, nextZone, found)
    /\ nextZone' = nextZone + 1
    /\ UNCHANGED <<inputs, possibility, nextVehicle>>

-----------------------------------------------------------------------------
(* Vehicles *)

\* mutant of CanTakeTask: the capacity is not compared
CanTakeTask_AnyCapacity(v, t) ==
    /\ t.types \subseteq v.types
    /\ v.width * v.length * v.height >= t.volume
    /\ v.width >= t.maxSize \/ v.height >= t.maxSize

\* Vehicle::canTakeTask
CanTakeTask(v, t) ==
    /\ t.types \subseteq v.types
    /\ v.capacity >= t.capacity
    /\ v.width * v.length * v.height >= t.volume
    /\ v.width >= t.maxSize \/ v.height >= t.maxSize

\* mutant of Lookup: an id the map does not hold is taken for a local one
Lookup_AsLocal(ids, id) == IF id \in DOMAIN ids THEN ids[id] ELSE id

\* the map's operator[]: an id it does not hold is inserted with local id 0
Lookup(ids, id) == IF id \in DOMAIN ids THEN ids[id] ELSE 0
Looked(ids, asked) == [id \in DOMAIN ids \cup asked |-> Lookup(ids, id)]

TasksOfZone(z) == IF z \in DOMAIN zoneAndTask THEN zoneAndTask[z] ELSE {}

\* no work zones: every task; otherwise the tasks of any of them.  The third
\* branch, for restricted zones, repeats the condition of the second and is dead:
\* nothing reads restrictedZones
Reachable(v) ==
    IF v.workZones = {} THEN DOMAIN tasks
    ELSE UNION {TasksOfZone(Lookup(externalIdToLocal, id)) : id \in v.workZones}

FillRow ==
    /\ nextZone \notin DOMAIN zones
    /\ nextVehicle \in DOMAIN vehicles
    /\ LET v == vehicles[nextVehicle] IN
         /\ possibility' = [possibility EXCEPT ![nextVehicle] =
               [t \in DOMAIN tasks |-> IF t \in Reachable(v) /\ CanTakeTask(v, tasks[t])
                                       THEN 1 ELSE 0]]
         /\ externalIdToLocal' = Looked(externalIdToLocal, v.workZones)
    /\ nextVehicle' = nextVehicle + 1
    /\ UNCHANGED <<inputs, zoneAndTask, nextZone>>

CheckerNext == IndexZone \/ FillRow

CheckerSpec == CheckerInit /\ [][CheckerNext]_checkerVars

-----------------------------------------------------------------------------

\* the types of the members and the locals
CheckerTypeOK ==
    /\ nextZone \in DOMAIN zones \cup {Cardinality(DOMAIN zones)}
    /\ nextVehicle \in DOMAIN vehicles \cup {Cardinality(DOMAIN vehicles)}
    /\ possibility \in [DOMAIN vehicles -> [DOMAIN tasks -> {0, 1}]]
    /\ \A z \in DOMAIN zoneAndTask : zoneAndTask[z] \subseteq DOMAIN tasks
    /\ \A id \in DOMAIN externalIdToLocal :
          externalIdToLocal[id] \in {0} \cup DOMAIN zones

Polygon(z) == zones[z].type = "Polygon"
Ends(t)    == {tasks[t].start, tasks[t].end}

\* the task is inside the zone, by the definition of a polygon's inside
TrulyIn(t, z) == \A P \in Ends(t) : Inside(P, zones[z].points)

GeneralTask(t, z) == \A P \in Ends(t) : General(P, zones[z].points)

\* whatever is read past the last vertex does not cross the ray from P
Undisturbed(P, V) == \A beyond \in Memory : Turn(P, V[Len(V)], beyond) = 0

\* a task is listed under a polygon exactly when both of its ends are inside,
\* in whatever sense the vertices run round and whatever the shape, as long as
\* the edge that is read past the end of the vector does not count
PolygonsRight ==
    \A z \in DOMAIN zoneAndTask : Polygon(z) =>
        \A t \in DOMAIN tasks :
            /\ GeneralTask(t, z)
            /\ \A P \in Ends(t) : Undisturbed(P, zones[z].points)
            => (t \in zoneAndTask[z] <=> TrulyIn(t, z))

\* what the matrix says of a vehicle depends on its own zones alone, not on the
\* vehicles before it, whose lookups add entries to the map that all share: of
\* several zones of one external id the last one counts, of a zone nobody
\* defined the first one
LastZone(id) ==
    LET named == {z \in DOMAIN zones : zones[z].externalId = id}
    IN  IF named = {} THEN 0 ELSE Max(named)

RowsIndependent ==
    \A v \in DOMAIN vehicles : v < nextVehicle =>
        \A t \in DOMAIN tasks :
            possibility[v][t] = 1 <=>
                /\ CanTakeTask(vehicles[v], tasks[t])
                /\ \/ vehicles[v].workZones = {}
                   \/ \E id \in vehicles[v].workZones :
                         t \in TasksOfZone(LastZone(id))

\* a task the checker lets a vehicle take never alone exceeds the limits that
\* processLoad compares on the way, where 0 stands for no limit
AllowedTaskFits ==
    \A v \in DOMAIN vehicles, t \in DOMAIN tasks :
        possibility[v][t] = 1 =>
            LET V == vehicles[v]
                volume == V.width * V.length * V.height
            IN  /\ ~(V.capacity # 0 /\ tasks[t].capacity > V.capacity)
                /\ ~(volume # 0 /\ tasks[t].volume > volume)

\* The matrix says of each vehicle what its own zones and limits say.
MatrixRight == PolygonsRight /\ RowsIndependent /\ AllowedTaskFits

\* the branch for restricted zones takes the tasks of each of them out of the row,
\* "m_possibilityVehicleToTask(v.getId(), taskId) = 0" (63-71): a vehicle that
\* may work anywhere but in its restricted zones is given no task inside one
RestrictedZonesAvoided ==
    \A v \in DOMAIN vehicles : v < nextVehicle /\ vehicles[v].workZones = {} =>
        \A id \in vehicles[v].restrictedZones, t \in DOMAIN tasks :
            id \in DOMAIN externalIdToLocal /\ t \in TasksOfZone(LastZone(id))
            => possibility[v][t] = 0

\* "wn = the winding number (=0 only when P is outside)", for "V[n+1] with
\* V[n]=V[0]" (winding_number.hpp 29-30)
ZeroOnlyOutside ==
    \A z \in DOMAIN zoneAndTask : Polygon(z) =>
        \A t \in DOMAIN tasks :
            GeneralTask(t, z) /\ TrulyIn(t, z) => t \in zoneAndTask[z]
=============================================================================
