----------------------------- MODULE TruckSolution -----------------------------
(***************************************************************************)
(* class TruckSolutionProducer (truck_solution.cpp) and what a colony does *)
(* with one of its food sources: draw a random solution, look for a better *)
(* neighbour, keep it when it is strictly better.  The routes are walked   *)
(* by RouteCheck; the cache of feasible routes lives as long as the        *)
(* producer, across the solutions it draws.                                *)
(*                                                                         *)
(* A fitness 1/totalCost + solved/T + vip/T is kept as the record of its   *)
(* three terms and compared exactly, by cross-multiplication.              *)
(***************************************************************************)
EXTENDS RouteCheck

CONSTANTS
    CostUnit,  \* the units of TotalCostOfRoute in a cost of 1.0
    PartialSolutionResultEnabled

ASSUME ProducerAssumption ==
    /\ CostUnit \in Nat \ {0}
    /\ PartialSolutionResultEnabled \in BOOLEAN

VARIABLES
    source,  \* the solution of one food source: its routes and its stat
    cache    \* m_routes_cache

vars == <<source, cache>>

\* struct Route
RouteType == [vehicleId : VehicleIds, nodes : Routes, solved : BOOLEAN]

\* checkSingleRoute without its cache, tabulated once for all routes
Outcomes == {[vehicleId |-> v, nodes |-> ns,
              event |-> CheckEvent(v, ns), stat |-> CheckStat(v, ns)] :
                v \in VehicleIds, ns \in Routes}
OutcomeOf(r) == CHOOSE o \in Outcomes : o.nodes = r.nodes /\ o.vehicleId = r.vehicleId

TasksOf(r) == {TaskOf(r.nodes[i]) : i \in DOMAIN r.nodes}

-----------------------------------------------------------------------------
(* calculateFitnessOfRoutes *)

\* mutant of Key: the hash and the equality of Route leave the vehicle out
Key_NoVehicle(r) == <<0, r.nodes>>

\* struct Route's equality, which the cache uses, ignores solved
Key(r) == <<r.vehicleId, r.nodes>>

Cached(c, r) == \E e \in c : e.key = Key(r)

\* a route found in the cache is returned as it came in, flag included
FlagAfterCheck(c, r) ==
    IF Cached(c, r) THEN r.solved ELSE SolvedAfter(OutcomeOf(r).event, r.solved)

StatAfterCheck(c, r) ==
    IF Cached(c, r) THEN (CHOOSE e \in c : e.key = Key(r)).stat
                    ELSE OutcomeOf(r).stat

Flagged(c, rs) == [i \in DOMAIN rs |-> [rs[i] EXCEPT !.solved = FlagAfterCheck(c, rs[i])]]
SolvedIn(rs)   == {i \in DOMAIN rs : rs[i].solved}
AllSolved(rs)  == \A i \in DOMAIN rs : rs[i].solved

\* mutant of RoutesCheckResult: solved means that no task of the problem is left
RoutesCheckResult_AllTasks(c, rs) ==
    LET flagged == Flagged(c, rs)
        solved  == SolvedIn(flagged)
    IN  [cost      |-> CostUnit + SumFunction([i \in solved |-> StatAfterCheck(c, rs[i]).cost]),
         tasks     |-> SumFunction([i \in solved |-> Len(rs[i].nodes) \div 2]),
         vip       |-> SumFunction([i \in solved |-> StatAfterCheck(c, rs[i]).vipCount]),
         allSolved |-> SumFunction([i \in solved |-> Len(rs[i].nodes) \div 2]) = NumTasks]

RoutesCheckResult(c, rs) ==
    LET flagged == Flagged(c, rs)
        solved  == SolvedIn(flagged)
    IN  [cost      |-> CostUnit + SumFunction([i \in solved |-> StatAfterCheck(c, rs[i]).cost]),
         tasks     |-> SumFunction([i \in solved |-> Len(rs[i].nodes) \div 2]),
         vip       |-> SumFunction([i \in solved |-> StatAfterCheck(c, rs[i]).vipCount]),
         allSolved |-> AllSolved(flagged)]

Checked(c, rs) == [routes |-> Flagged(c, rs), stat |-> RoutesCheckResult(c, rs)]

\* every route that was walked to its end is inserted
CacheAfter(c, rs) ==
    c \cup {[key |-> Key(rs[i]), stat |-> StatAfterCheck(c, rs[i])] :
              i \in {j \in DOMAIN rs : /\ ~Cached(c, rs[j])
                                       /\ OutcomeOf(rs[j]).event = NoEvent}}

\* 1/cost of a against 1/cost of b, and tasks plus vip over T, over one
\* denominator; a cost that holds a Stat() leaves nothing of the first term
Share(c)      == IF c >= MaxCost THEN 0 ELSE CostUnit
Bonus(stat)   == stat.tasks + stat.vip
Fitter(a, b)  ==
    Share(a.cost) * NumTasks * b.cost + Bonus(a) * a.cost * b.cost
      > Share(b.cost) * NumTasks * a.cost + Bonus(b) * a.cost * b.cost

-----------------------------------------------------------------------------
(* generateRandomImpl and produceNeighborhoodImpl *)

Deals == UNION {[1 .. n -> [vehicleId : VehicleIds, nodes : Routes]] : n \in 1 .. NumVehicles}

OwnVehicles(rs) == \A i, j \in DOMAIN rs : i # j => rs[i].vehicleId # rs[j].vehicleId
OwnTasks(rs)    == \A i, j \in DOMAIN rs : i # j => TasksOf(rs[i]) \cap TasksOf(rs[j]) = {}
AllTasks(rs)    == UNION {TasksOf(rs[i]) : i \in DOMAIN rs} = TaskIds

\* a new Route is not solved
Fresh(rs) == [i \in DOMAIN rs |-> [vehicleId |-> rs[i].vehicleId,
                                  nodes     |-> rs[i].nodes,
                                  solved    |-> FALSE]]

\* mutant of RandomRoutes: the same task is dealt out twice
RandomRoutes_SharedTasks == {Fresh(rs) : rs \in {d \in Deals : OwnVehicles(d)}}

\* a number of vehicles, some or all of the tasks dealt out to them, the idle
\* vehicles removed, and the nodes of each route shuffled
RandomRoutes ==
    LET dealt == {d \in Deals : /\ OwnVehicles(d)
                                /\ OwnTasks(d)
                                /\ ~PartialSolutionResultEnabled => AllTasks(d)}
    IN  {Fresh(d) : d \in dealt}

Swapped(ns, k) == [ns EXCEPT ![k] = ns[Len(ns) + 1 - k], ![Len(ns) + 1 - k] = ns[k]]
Shuffles(ns)   == {ms \in [DOMAIN ns -> Range(ns)] : IsInjective(ms)}

\* the first route that is not solved
ShuffleIndex(rs) ==
    CHOOSE i \in DOMAIN rs : ~rs[i].solved /\ \A j \in 1 .. i - 1 : rs[j].solved

\* a solved solution has two nodes of any route swapped, its mirror images; the
\* other has its first unsolved route shuffled
Neighbourhood(sol) ==
    IF sol.stat.allSolved
    THEN UNION {{[sol.routes EXCEPT ![i].nodes = Swapped(@, k)] :
                    k \in DOMAIN sol.routes[i].nodes} : i \in DOMAIN sol.routes}
    ELSE LET i == ShuffleIndex(sol.routes)
         IN  {[sol.routes EXCEPT ![i].nodes = ns] : ns \in Shuffles(sol.routes[i].nodes)}

Init ==
    \E rs \in RandomRoutes :
        /\ source = Checked({}, rs)
        /\ cache = CacheAfter({}, rs)

\* abandonment or restart: the source is drawn anew
GenerateRandom ==
    \E rs \in RandomRoutes :
        /\ source' = Checked(cache, rs)
        /\ cache' = CacheAfter(cache, rs)

\* a bee looks at a neighbour of the source and keeps the better of the two
ProduceNeighborhood ==
    \E rs \in Neighbourhood(source) :
        /\ source' = IF Fitter(RoutesCheckResult(cache, rs), source.stat)
                     THEN Checked(cache, rs) ELSE source
        /\ cache' = CacheAfter(cache, rs)

Next == GenerateRandom \/ ProduceNeighborhood

Spec == Init /\ [][Next]_vars

-----------------------------------------------------------------------------

\* the members of TruckSolution and of the producer
TypeOK ==
    /\ \A i \in DOMAIN source.routes : source.routes[i] \in RouteType
    /\ source.stat \in [cost : Nat, tasks : 0 .. NumTasks, vip : 0 .. 2 * NumTasks,
                        allSolved : BOOLEAN]
    /\ \A e \in cache : e.stat \in Stat

\* a route that is flagged solved can be driven: although the order check and
\* the cache leave the flag of an earlier order of the nodes in place, a source
\* with such a flag is never fitter than the one it would replace
AcceptedRoutesSound ==
    \A i \in SolvedIn(source.routes) :
        OutcomeOf(source.routes[i]).event = NoEvent

\* no task is served twice and no vehicle drives two routes, however many
\* neighbours are taken
EachTaskServedOnce ==
    \A i, j \in DOMAIN source.routes :
        i # j => /\ source.routes[i].vehicleId # source.routes[j].vehicleId
                 /\ TasksOf(source.routes[i]) \cap TasksOf(source.routes[j]) = {}

\* a source that is not all solved has an unsolved route to shuffle: the search
\* of line 115 never runs past the last route
AlwaysARouteToShuffle ==
    ~source.stat.allSolved => SolvedIn(source.routes) # DOMAIN source.routes

\* However many neighbours are taken, the routes of a source share nothing, can
\* be driven if they are flagged, and leave one to shuffle if some task is left.
RoutesSound == EachTaskServedOnce /\ AcceptedRoutesSound /\ AlwaysARouteToShuffle

\* what is cached for a route is what walking it would give, so that the totals
\* a fitness is computed from do not depend on what was tried before
CacheTransparent ==
    \A i \in DOMAIN source.routes :
        LET r == source.routes[i]
        IN  Cached(cache, r) => StatAfterCheck(cache, r) = OutcomeOf(r).stat

\* "maximazing tasks solved" (line 244): a neighbour is never taken that
\* solves fewer tasks than the source
NeighbourKeepsTasks ==
    [][ProduceNeighborhood => source'.stat.tasks >= source.stat.tasks]_vars

\* "Not all tasks solved" (solver.cpp 245) is logged of a solution that is not
\* allSolved: one of its routes, then, cannot be driven
UnsolvedIsInfeasible ==
    ~source.stat.allSolved =>
        \E i \in DOMAIN source.routes : OutcomeOf(source.routes[i]).event # NoEvent
=============================================================================
