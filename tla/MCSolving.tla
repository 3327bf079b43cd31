------------------------------ MODULE MCSolving ------------------------------
(***************************************************************************)
(* How a request is solved: which vehicle may take which task; one food    *)
(* source of a colony, from a random solution to the answer that is made   *)
(* of it; and the round of a colony's bees over all of its sources, where  *)
(* a solution is only its fitness.  Each of the three is checked on data   *)
(* of its own: a behaviour is one of one part, while the others rest.      *)
(***************************************************************************)
EXTENDS Solving, MCTruckSolution

VARIABLE part    \* which part moves

\* what clients call the tasks and vehicles of MCTruckSolution
MCExternalVehicle == [v \in VehicleIds |-> 10 - v]
MCExternalTask == [t \in TaskIds |-> 20 - t]

-----------------------------------------------------------------------------
(* A polygon and a circle: every triangle of a small grid with a corner in  *)
(* the origin, in both senses, and two quadrilaterals that are not convex;  *)
(* closed as the parser closes them.  Two vehicles, zones that are shared,  *)
(* unknown or named twice.                                                  *)

Pt(a, b) == [x |-> a, y |-> b]
Grid     == {Pt(a, b) : a, b \in {0, 2, 4}} \ {Pt(0, 0)}

Polygons == {<<Pt(0, 0), A, B, Pt(0, 0)>> : <<A, B>> \in {ab \in Grid \X Grid :
                                              ab[1].x * ab[2].y # ab[1].y * ab[2].x}}
    \cup {<<Pt(0, 0), Pt(4, 0), Pt(2, 2), Pt(0, 4), Pt(0, 0)>>,
          <<Pt(0, 4), Pt(2, 1), Pt(4, 4), Pt(2, 2), Pt(0, 4)>>}

Area(id, points) == [type |-> "Polygon", externalId |-> id, points |-> points]
Disc(id) == [type |-> "Circle", externalId |-> id, center |-> Pt(3, 3), radius |-> 3]

MCZoneInputs == {0 :> Area(7, points) @@ 1 :> Disc(id) : points \in Polygons, id \in {7, 8}}

Job(start, end, capacity, volume, types) ==
    [start |-> start, end |-> end, capacity |-> capacity, volume |-> volume,
     maxSize |-> 1, types |-> types]
MCTaskInputs == {0 :> Job(Pt(a, b), Pt(2, 3), 1, 8, {}) @@ 1 :> Job(Pt(1, 2), Pt(3, 1), 2, 1, types) :
                    a, b \in {1, 3, 4}, types \in {{}, {1}}}

Van(workZones, restrictedZones, capacity) ==
    [workZones |-> workZones, restrictedZones |-> restrictedZones,
     capacity |-> capacity, width |-> 2, length |-> 2, height |-> 2, types |-> {}]
MCVehicleInputs == {0 :> Van(v, {}, 2) @@ 1 :> Van(wr[1], wr[2], 1) :
                        v \in {{9}, {7, 9}},
                        wr \in {<<{}, {}>>, <<{}, {8}>>, <<{7}, {8}>>, <<{8}, {}>>, <<{9}, {}>>}}

\* zeroed memory, and vertices that another zone may have left there
MCMemory == {Pt(0, 0), Pt(0 - 5, 9), Pt(9, 3)}

-----------------------------------------------------------------------------

\* a search that has found nothing, a colony that has stopped, and a checker of
\* nothing
SourceRests ==
    /\ source = [routes |-> << >>, stat |-> RoutesCheckResult({}, << >>)] /\ cache = {}
    /\ pc = "thrown" /\ why = "No solution found!" /\ next = 1
    /\ routes = << >> /\ results = << >> /\ trips = << >>
ColonyRests ==
    /\ parallel = FALSE /\ solutions = [i \in Seats |-> New(1)] /\ bestSolution = 1
    /\ seekers = << >> /\ phase = "stopped" /\ bee = 1 /\ syncBest = 1
    /\ our_is_best = FALSE /\ seeded = FALSE
CheckerRests ==
    /\ zones = << >> /\ tasks = << >> /\ vehicles = << >>
    /\ externalIdToLocal = << >> /\ zoneAndTask = << >> /\ possibility = << >>
    /\ nextZone = 0 /\ nextVehicle = 0

solvingVars == <<part, reportVars, colonyVars, checkerVars>>

SolvingInit ==
    \/ part = "source" /\ ReportInit /\ ColonyRests /\ CheckerRests
    \/ part = "colony" /\ ColonyInit /\ SourceRests /\ CheckerRests
    \/ part = "checker" /\ CheckerInit /\ SourceRests /\ ColonyRests

\* an answer is ready, or there is none, or the last row is filled
Over ==
    /\ \/ part = "source" /\ pc \in {"done", "thrown"}
       \/ part = "checker" /\ nextVehicle = Cardinality(DOMAIN vehicles)
    /\ UNCHANGED solvingVars

SolvingNext ==
    \/ part = "source" /\ ReportNext /\ UNCHANGED <<part, colonyVars, checkerVars>>
    \/ part = "colony" /\ ColonyNext /\ UNCHANGED <<part, reportVars, checkerVars>>
    \/ part = "checker" /\ CheckerNext /\ UNCHANGED <<part, reportVars, colonyVars>>
    \/ Over

SolvingSpec == SolvingInit /\ [][SolvingNext]_solvingVars

=============================================================================
