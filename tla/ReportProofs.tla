---------------------------- MODULE ReportProofs ----------------------------
(***************************************************************************)
(* Theorems about TruckSolution and Report, for every fleet, every set of  *)
(* tasks and all matrices.                                                 *)
(*                                                                         *)
(* The invariant says of a source that its routes share no vehicle and no  *)
(* task, that its totals are those of the routes that are flagged, and     *)
(* that a flagged route can be driven; of the cache, that it holds what a  *)
(* walk would give.  The flag may outlive the order of the nodes that      *)
(* earned it, but then the totals hold the cost of Stat(), which is never  *)
(* fitter than the source that is looked at.                               *)
(*                                                                         *)
(* Of the report it says that each of its vectors is, as far as it has     *)
(* been filled, the one before it, element for element, and the first is   *)
(* the flagged routes.  These can be driven, so that a walk of them has    *)
(* left all its entries (GoodWalk): the totals of their differences are    *)
(* what the truck has on board, and the times in them are in order.        *)
(***************************************************************************)
EXTENDS Report, RouteCheckProofs

-----------------------------------------------------------------------------
(* A route and its check *)

EventOf(r) == CheckEvent(r.vehicleId, r.nodes)
StatOf(r)  == CheckStat(r.vehicleId, r.nodes)

LEMMA OutcomeIs ==
  ASSUME NEW r \in RouteType
  PROVE  OutcomeOf(r).event = EventOf(r) /\ OutcomeOf(r).stat = StatOf(r)
<1> DEFINE o == OutcomeOf(r)
           mine == [vehicleId |-> r.vehicleId, nodes |-> r.nodes,
                    event |-> EventOf(r), stat |-> StatOf(r)]
<1>1. r.vehicleId \in VehicleIds /\ r.nodes \in Routes
  BY DEF RouteType
<1>2. mine \in Outcomes /\ mine.nodes = r.nodes /\ mine.vehicleId = r.vehicleId
  BY <1>1 DEF Outcomes, EventOf, StatOf
<1>3. o \in Outcomes /\ o.nodes = r.nodes /\ o.vehicleId = r.vehicleId
  BY <1>2 DEF OutcomeOf
<1>4. \A p \in Outcomes : /\ p.event = CheckEvent(p.vehicleId, p.nodes)
                          /\ p.stat = CheckStat(p.vehicleId, p.nodes)
  BY DEF Outcomes
<1> HIDE DEF o
<1>5. o.event = EventOf(r) /\ o.stat = StatOf(r)
  BY <1>3, <1>4 DEF EventOf, StatOf
<1> QED
  BY <1>5 DEF o

\* what is computed for a route is a Stat
LEMMA CheckStatType ==
  ASSUME NEW v \in VehicleIds, NEW ns \in Routes
  PROVE  CheckStat(v, ns) \in Stat
<1>1. CASE CheckEvent(v, ns) = NoEvent
  <2>1. ns \in Seq(Nodes) /\ Len(ns) \in 0 .. Len(ns)
    BY NodesOfRoute
  <2>2. Walk(v, ns) \in States
    BY <2>1, AfterStep
  <2>3. Walk(v, ns).walk \in WalkState /\ Clock(Walk(v, ns).walk)
    BY <2>2 DEF States
  <2> QED
    BY <1>1, <2>3, StatType DEF CheckStat
<1>2. CASE CheckEvent(v, ns) # NoEvent
  BY <1>2, CostAssumption DEF CheckStat, NoStat, Stat
<1> QED
  BY <1>1, <1>2

LEMMA StatOfType == ASSUME NEW r \in RouteType PROVE StatOf(r) \in Stat
  BY CheckStatType DEF RouteType, StatOf

\* a route that cannot be driven costs MaxCost and has no vip nodes
LEMMA StatOfFailed ==
  ASSUME NEW r, EventOf(r) # NoEvent
  PROVE  StatOf(r).cost = MaxCost /\ StatOf(r).vipCount = 0
  BY DEF EventOf, StatOf, CheckStat, NoStat

-----------------------------------------------------------------------------
(* The cache *)

\* every entry is the stat of a route that can be driven
CacheSound(c) ==
    \A e \in c : \E v \in VehicleIds, ns \in Routes :
        /\ e.key = <<v, ns>>
        /\ e.stat = CheckStat(v, ns)
        /\ CheckEvent(v, ns) = NoEvent

LEMMA CachedIs ==
  ASSUME NEW c, CacheSound(c), NEW r, NEW e \in c, e.key = Key(r)
  PROVE  e.stat = StatOf(r) /\ EventOf(r) = NoEvent
<1>1. PICK v \in VehicleIds, ns \in Routes :
         e.key = <<v, ns>> /\ e.stat = CheckStat(v, ns) /\ CheckEvent(v, ns) = NoEvent
  BY DEF CacheSound
<1>2. v = r.vehicleId /\ ns = r.nodes
  BY <1>1 DEF Key
<1> QED
  BY <1>1, <1>2 DEF EventOf, StatOf

\* a check gives the same stat with the cache and without
LEMMA StatIs ==
  ASSUME NEW c, CacheSound(c), NEW r \in RouteType
  PROVE  StatAfterCheck(c, r) = StatOf(r)
<1>1. CASE Cached(c, r)
  <2> DEFINE e == CHOOSE f \in c : f.key = Key(r)
  <2>1. e \in c /\ e.key = Key(r)
    BY <1>1 DEF Cached
  <2> HIDE DEF e
  <2>2. e.stat = StatOf(r)
    BY <2>1, CachedIs
  <2> QED
    BY <1>1, <2>2 DEF StatAfterCheck, e
<1>2. CASE ~Cached(c, r)
  BY <1>2, OutcomeIs DEF StatAfterCheck
<1> QED
  BY <1>1, <1>2

\* a check leaves a flag on a route that can be driven, or where it found one
\* on a route that is in the wrong order
LEMMA FlagIs ==
  ASSUME NEW c, CacheSound(c), NEW r \in RouteType, NEW flag, flag = FlagAfterCheck(c, r)
  PROVE  /\ flag \in BOOLEAN
         /\ flag /\ EventOf(r) # NoEvent => r.solved
         /\ EventOf(r) = NoEvent /\ r.solved => flag
<1>1. r.solved \in BOOLEAN
  BY DEF RouteType
<1>2. CASE Cached(c, r)
  <2>1. EventOf(r) = NoEvent
    BY <1>2, CachedIs DEF Cached
  <2> QED
    BY <1>1, <1>2, <2>1 DEF FlagAfterCheck
<1>3. CASE ~Cached(c, r)
  <2>1. flag = SolvedAfter(EventOf(r), r.solved)
    BY <1>3, OutcomeIs DEF FlagAfterCheck
  <2>2. NoEvent # "TaskUnLoadBeforeLoad"
    BY DEF NoEvent
  <2> QED
    BY <1>1, <2>1, <2>2 DEF SolvedAfter
<1> QED
  BY <1>2, <1>3

LEMMA CacheStaysSound ==
  ASSUME NEW c, CacheSound(c), NEW rs, \A i \in DOMAIN rs : rs[i] \in RouteType
  PROVE  CacheSound(CacheAfter(c, rs))
<1> SUFFICES ASSUME NEW e \in CacheAfter(c, rs)
             PROVE  \E v \in VehicleIds, ns \in Routes :
                       /\ e.key = <<v, ns>>
                       /\ e.stat = CheckStat(v, ns)
                       /\ CheckEvent(v, ns) = NoEvent
  BY DEF CacheSound
<1>1. CASE e \in c
  BY <1>1 DEF CacheSound
<1>2. CASE e \notin c
  <2>1. PICK i \in DOMAIN rs : /\ OutcomeOf(rs[i]).event = NoEvent
                               /\ e = [key |-> Key(rs[i]), stat |-> StatAfterCheck(c, rs[i])]
    BY <1>2 DEF CacheAfter
  <2>2. rs[i] \in RouteType
    OBVIOUS
  <2>3. EventOf(rs[i]) = NoEvent /\ e.stat = StatOf(rs[i]) /\ e.key = Key(rs[i])
    BY <2>1, <2>2, OutcomeIs, StatIs
  <2>4. rs[i].vehicleId \in VehicleIds /\ rs[i].nodes \in Routes
    BY <2>2 DEF RouteType
  <2> QED
    BY <2>3, <2>4 DEF EventOf, StatOf, Key
<1> QED
  BY <1>1, <1>2

-----------------------------------------------------------------------------
(* The routes of a solution *)

\* routes that share no vehicle and no task
Deal(rs) ==
    /\ \E n \in 1 .. NumVehicles : rs \in [1 .. n -> RouteType]
    /\ OwnVehicles(rs)
    /\ OwnTasks(rs)

LEMMA DealDomain ==
  ASSUME NEW rs, Deal(rs)
  PROVE  /\ \E n \in 1 .. NumVehicles : DOMAIN rs = 1 .. n
         /\ DOMAIN rs \subseteq Nat
         /\ IsFiniteSet(DOMAIN rs)
         /\ \A i \in DOMAIN rs : rs[i] \in RouteType
<1>1. PICK n \in 1 .. NumVehicles : rs \in [1 .. n -> RouteType]
  BY DEF Deal
<1>2. n \in Int /\ DOMAIN rs = 1 .. n
  BY <1>1, FleetAssumption
<1> QED
  BY <1>1, <1>2, FS_Interval

\* Two lists of routes with the same vehicles and, in each route, no other tasks.
LEMMA DealKept ==
  ASSUME NEW rs, Deal(rs), NEW ss, DOMAIN ss = DOMAIN rs, ss = [i \in DOMAIN ss |-> ss[i]],
         \A i \in DOMAIN rs : /\ ss[i] \in RouteType
                              /\ ss[i].vehicleId = rs[i].vehicleId
                              /\ TasksOf(ss[i]) \subseteq TasksOf(rs[i])
  PROVE  Deal(ss)
<1>1. PICK n \in 1 .. NumVehicles : rs \in [1 .. n -> RouteType]
  BY DEF Deal
<1>2. ss \in [1 .. n -> RouteType]
  BY <1>1
<1>3. OwnVehicles(ss)
  BY DEF Deal, OwnVehicles
<1>4. OwnTasks(ss)
  BY DEF Deal, OwnTasks
<1> QED
  BY <1>2, <1>3, <1>4 DEF Deal

\* a random solution is one, and none of its routes is flagged
LEMMA RandomIsDeal ==
  ASSUME NEW rs \in RandomRoutes
  PROVE  /\ Deal(rs)
         /\ \A i \in DOMAIN rs : ~rs[i].solved
<1>1. PICK d \in Deals : OwnVehicles(d) /\ OwnTasks(d) /\ rs = Fresh(d)
  BY DEF RandomRoutes
<1>2. PICK n \in 1 .. NumVehicles : d \in [1 .. n -> [vehicleId : VehicleIds, nodes : Routes]]
  BY DEF Deals
<1>3. /\ DOMAIN rs = 1 .. n /\ DOMAIN d = 1 .. n
      /\ \A i \in 1 .. n : rs[i] = [vehicleId |-> d[i].vehicleId, nodes |-> d[i].nodes,
                                    solved |-> FALSE]
  BY <1>1, <1>2 DEF Fresh
<1>4. \A i \in 1 .. n : rs[i] \in RouteType /\ ~rs[i].solved
  <2> SUFFICES ASSUME NEW i \in 1 .. n PROVE rs[i] \in RouteType /\ ~rs[i].solved
    OBVIOUS
  <2>1. d[i].vehicleId \in VehicleIds /\ d[i].nodes \in Routes
    BY <1>2
  <2>2. rs[i] = [vehicleId |-> d[i].vehicleId, nodes |-> d[i].nodes, solved |-> FALSE]
    BY <1>3
  <2> QED
    BY <2>1, <2>2 DEF RouteType
<1>5. rs \in [1 .. n -> RouteType]
  BY <1>1, <1>2, <1>3, <1>4 DEF Fresh
<1>6. \A i \in 1 .. n : /\ rs[i].vehicleId = d[i].vehicleId
                        /\ TasksOf(rs[i]) = TasksOf(d[i])
  BY <1>3 DEF TasksOf
<1>7. OwnVehicles(rs)
  BY <1>1, <1>3, <1>6 DEF OwnVehicles
<1>8. OwnTasks(rs)
  BY <1>1, <1>3, <1>6 DEF OwnTasks
<1> QED
  BY <1>3, <1>4, <1>5, <1>7, <1>8 DEF Deal

\* a route of the same nodes
SameNodes(ms, ns) ==
    DOMAIN ms = DOMAIN ns /\ {ms[i] : i \in DOMAIN ns} = {ns[i] : i \in DOMAIN ns}

\* any order of the nodes of a route is one
LEMMA RouteAgain ==
  ASSUME NEW ns \in Routes, NEW ms \in [DOMAIN ns -> Nodes], IsInjective(ms),
         SameNodes(ms, ns)
  PROVE  ms \in Routes /\ Len(ms) = Len(ns)
<1>1. PICK k \in 1 .. NumTasks : ns \in [1 .. 2 * k -> Nodes] /\ IsRoute(ns)
  BY DEF Routes
<1>2. ms \in [1 .. 2 * k -> Nodes] /\ DOMAIN ms = DOMAIN ns
  BY <1>1
<1>3. \A i \in DOMAIN ms : \E j \in DOMAIN ms : TaskOf(ms[j]) = TaskOf(ms[i]) /\ ms[j] # ms[i]
  <2> SUFFICES ASSUME NEW i \in DOMAIN ms
               PROVE  \E j \in DOMAIN ms : TaskOf(ms[j]) = TaskOf(ms[i]) /\ ms[j] # ms[i]
    OBVIOUS
  <2>1. PICK p \in DOMAIN ns : ns[p] = ms[i]
    BY <1>2 DEF SameNodes
  <2>2. PICK q \in DOMAIN ns : TaskOf(ns[q]) = TaskOf(ns[p]) /\ ns[q] # ns[p]
    BY <1>1 DEF IsRoute
  <2>3. PICK j \in DOMAIN ms : ms[j] = ns[q]
    BY <1>2 DEF SameNodes
  <2> QED
    BY <2>1, <2>2, <2>3
<1>4. IsRoute(ms)
  BY <1>3 DEF IsRoute
<1>5. 2 * k \in Nat
  BY FleetAssumption
<1>6. Len(ms) = 2 * k /\ Len(ns) = 2 * k
  BY <1>1, <1>2, <1>5
<1> QED
  BY <1>2, <1>4, <1>6 DEF Routes

\* two nodes change places
LEMMA SwappedIs ==
  ASSUME NEW ns \in Routes, NEW k \in DOMAIN ns, NEW ms, ms = Swapped(ns, k)
  PROVE  ms \in Routes /\ Len(ms) = Len(ns) /\ SameNodes(ms, ns)
<1> DEFINE m == Len(ns) + 1 - k
<1>0. ns \in Seq(Nodes) /\ DOMAIN ns = 1 .. Len(ns) /\ Len(ns) \in Nat
  BY NodesOfRoute
<1>1. m \in DOMAIN ns
  BY <1>0
<1>2. \A i, j \in DOMAIN ns : ns[i] = ns[j] => i = j
  BY <1>0, NodesOfRoute
<1>3. ms = [ns EXCEPT ![k] = ns[m], ![m] = ns[k]]
  BY DEF Swapped
<1> HIDE DEF m
<1>4. /\ DOMAIN ms = DOMAIN ns
      /\ \A i \in DOMAIN ns : ms[i] = IF i = m THEN ns[k] ELSE IF i = k THEN ns[m] ELSE ns[i]
      /\ ms = [i \in DOMAIN ns |-> ms[i]]
  BY <1>0, <1>1, <1>3
<1>5. \A i \in DOMAIN ns : ns[i] \in Nodes
  BY <1>0
<1>6. ms \in [DOMAIN ns -> Nodes]
  BY <1>1, <1>4, <1>5
<1>7. IsInjective(ms)
  BY <1>1, <1>2, <1>4 DEF IsInjective
<1>8. SameNodes(ms, ns)
  <2>1. \A i \in DOMAIN ns : \E j \in DOMAIN ns : ms[i] = ns[j]
    BY <1>1, <1>4
  <2>2. \A i \in DOMAIN ns : \E j \in DOMAIN ns : ns[i] = ms[j]
    BY <1>1, <1>4
  <2>3. {ms[i] : i \in DOMAIN ns} = {ns[i] : i \in DOMAIN ns}
    BY <2>1, <2>2
  <2> QED
    BY <1>4, <2>3 DEF SameNodes
<1> QED
  BY <1>6, <1>7, <1>8, RouteAgain

\* all nodes change places: an injection of the nodes into themselves leaves
\* none out
LEMMA ShuffledIs ==
  ASSUME NEW ns \in Routes, NEW ms \in Shuffles(ns)
  PROVE  ms \in Routes /\ Len(ms) = Len(ns) /\ SameNodes(ms, ns)
<1> DEFINE D == DOMAIN ns
           R == {ns[i] : i \in D}
<1>0. ns \in Seq(Nodes) /\ D = 1 .. Len(ns) /\ Len(ns) \in Nat
  BY NodesOfRoute
<1>1. \A i, j \in D : ns[i] = ns[j] => i = j
  BY <1>0, NodesOfRoute
<1>2. ms \in [D -> R] /\ IsInjective(ms)
  BY DEF Shuffles, Range
<1>3. IsFiniteSet(D)
  BY <1>0, FS_Interval
<1> DEFINE f == [i \in D |-> ns[i]]
<1>4. f \in Surjection(D, R) /\ f \in Injection(D, R)
  BY <1>1 DEF Surjection, Injection, IsInjective
<1>5. IsFiniteSet(R) /\ Cardinality(R) = Cardinality(D)
  BY <1>3, <1>4, FS_Surjection
<1>6. ms \in Injection(D, R)
  BY <1>2 DEF Injection
<1>7. ms \in Surjection(D, R)
  BY <1>5, <1>6, FS_Injection
<1>8. {ms[i] : i \in D} = R
  BY <1>2, <1>7 DEF Surjection
<1>9. ms \in [D -> Nodes]
  BY <1>0, <1>2
<1>10. SameNodes(ms, ns)
  BY <1>2, <1>8 DEF SameNodes
<1> QED
  BY <1>2, <1>9, <1>10, RouteAgain

\* one route of a solution gets its nodes in another order
Reordered(rs, i, ns) == [rs EXCEPT ![i].nodes = ns]

LEMMA Renoded ==
  ASSUME NEW rs, Deal(rs), NEW i \in DOMAIN rs, NEW ns \in Routes,
         SameNodes(ns, rs[i].nodes),
         NEW ss, ss = Reordered(rs, i, ns)
  PROVE  /\ Deal(ss)
         /\ DOMAIN ss = DOMAIN rs
         /\ ss[i].nodes = ns /\ ss[i].solved = rs[i].solved
         /\ \A j \in DOMAIN rs : j # i => ss[j] = rs[j]
<1>0. \A j \in DOMAIN rs : rs[j] \in RouteType
  BY DealDomain
<1>1. /\ DOMAIN ss = DOMAIN rs
      /\ \A j \in DOMAIN rs : ss[j] = IF j = i THEN [rs[i] EXCEPT !.nodes = ns] ELSE rs[j]
      /\ ss = [j \in DOMAIN ss |-> ss[j]]
  BY DEF Reordered
<1>2. ss[i] = [vehicleId |-> rs[i].vehicleId, nodes |-> ns, solved |-> rs[i].solved]
  BY <1>0, <1>1 DEF RouteType
<1>3. ss[i] \in RouteType
  BY <1>0, <1>2 DEF RouteType
<1>4. TasksOf(ss[i]) = TasksOf(rs[i])
  <2> DEFINE old == rs[i].nodes
  <2>1. TasksOf(ss[i]) = {TaskOf(n) : n \in {ns[k] : k \in DOMAIN old}}
    BY <1>2 DEF TasksOf, SameNodes
  <2>2. TasksOf(rs[i]) = {TaskOf(n) : n \in {old[k] : k \in DOMAIN old}}
    BY DEF TasksOf
  <2> QED
    BY <2>1, <2>2 DEF SameNodes
<1>5. ASSUME NEW j \in DOMAIN rs
      PROVE  /\ ss[j] \in RouteType
             /\ ss[j].vehicleId = rs[j].vehicleId
             /\ TasksOf(ss[j]) \subseteq TasksOf(rs[j])
  <2>1. CASE j = i
    <3>1. ss[i].vehicleId = rs[i].vehicleId
      BY <1>2
    <3> QED
      BY <1>3, <1>4, <2>1, <3>1
  <2>2. CASE j # i
    <3>1. ss[j] = rs[j]
      BY <1>1, <2>2
    <3> QED
      BY <1>0, <3>1
  <2> QED
    BY <2>1, <2>2
<1>6. Deal(ss)
  BY <1>1, <1>5, DealKept
<1> QED
  BY <1>1, <1>2, <1>6

-----------------------------------------------------------------------------
(* The totals of a solution *)

Totals(rs) ==
    [cost      |-> CostUnit + SumFunction([i \in SolvedIn(rs) |-> StatOf(rs[i]).cost]),
     tasks     |-> SumFunction([i \in SolvedIn(rs) |-> Len(rs[i].nodes) \div 2]),
     vip       |-> SumFunction([i \in SolvedIn(rs) |-> StatOf(rs[i]).vipCount]),
     allSolved |-> AllSolved(rs)]

\* a check gives the routes flags, and the totals of those flagged
LEMMA CheckedIs ==
  ASSUME NEW c, CacheSound(c), NEW rs, Deal(rs), NEW fs, fs = Flagged(c, rs)
  PROVE  /\ Deal(fs)
         /\ DOMAIN fs = DOMAIN rs
         /\ \A i \in DOMAIN rs : /\ fs[i].nodes = rs[i].nodes
                                 /\ EventOf(fs[i]) = EventOf(rs[i])
                                 /\ StatOf(fs[i]) = StatOf(rs[i])
                                 /\ fs[i].solved = FlagAfterCheck(c, rs[i])
         /\ RoutesCheckResult(c, rs) = Totals(fs)
         /\ Checked(c, rs) = [routes |-> fs, stat |-> Totals(fs)]
<1>0. \A i \in DOMAIN rs : rs[i] \in RouteType
  BY DealDomain
<1>1. fs = [i \in DOMAIN rs |-> [rs[i] EXCEPT !.solved = FlagAfterCheck(c, rs[i])]]
  BY DEF Flagged
<1>2. ASSUME NEW i \in DOMAIN rs
      PROVE  /\ fs[i] \in RouteType
             /\ fs[i].vehicleId = rs[i].vehicleId /\ fs[i].nodes = rs[i].nodes
             /\ fs[i].solved = FlagAfterCheck(c, rs[i])
  <2>1. FlagAfterCheck(c, rs[i]) \in BOOLEAN
    BY <1>0, FlagIs
  <2>2. fs[i] = [rs[i] EXCEPT !.solved = FlagAfterCheck(c, rs[i])]
    BY <1>1
  <2>3. rs[i] \in RouteType
    BY <1>0
  <2> QED
    BY <2>1, <2>2, <2>3 DEF RouteType
<1>3. ASSUME NEW i \in DOMAIN rs
      PROVE  /\ EventOf(fs[i]) = EventOf(rs[i])
             /\ StatOf(fs[i]) = StatOf(rs[i])
             /\ TasksOf(fs[i]) \subseteq TasksOf(rs[i])
  BY <1>2 DEF EventOf, StatOf, TasksOf
<1>4. DOMAIN fs = DOMAIN rs /\ fs = [i \in DOMAIN fs |-> fs[i]]
  BY <1>1
<1>5. Deal(fs)
  BY <1>2, <1>3, <1>4, DealKept
<1>6. \A i \in SolvedIn(fs) : i \in DOMAIN rs
  BY <1>4 DEF SolvedIn
<1>7. /\ [i \in SolvedIn(fs) |-> StatAfterCheck(c, rs[i]).cost]
           = [i \in SolvedIn(fs) |-> StatOf(fs[i]).cost]
      /\ [i \in SolvedIn(fs) |-> Len(rs[i].nodes) \div 2]
           = [i \in SolvedIn(fs) |-> Len(fs[i].nodes) \div 2]
      /\ [i \in SolvedIn(fs) |-> StatAfterCheck(c, rs[i]).vipCount]
           = [i \in SolvedIn(fs) |-> StatOf(fs[i]).vipCount]
  <2>1. \A i \in SolvedIn(fs) : /\ StatAfterCheck(c, rs[i]) = StatOf(fs[i])
                                /\ rs[i].nodes = fs[i].nodes
    BY <1>0, <1>2, <1>3, <1>6, StatIs
  <2> QED
    BY <2>1
<1>8. RoutesCheckResult(c, rs) =
        [cost      |-> CostUnit + SumFunction([i \in SolvedIn(fs) |-> StatAfterCheck(c, rs[i]).cost]),
         tasks     |-> SumFunction([i \in SolvedIn(fs) |-> Len(rs[i].nodes) \div 2]),
         vip       |-> SumFunction([i \in SolvedIn(fs) |-> StatAfterCheck(c, rs[i]).vipCount]),
         allSolved |-> AllSolved(fs)]
  BY Zenon DEF RoutesCheckResult
<1>9. RoutesCheckResult(c, rs) = Totals(fs)
  BY <1>7, <1>8, Zenon DEF Totals
<1>10. Checked(c, rs) = [routes |-> fs, stat |-> Totals(fs)]
  BY <1>9 DEF Checked
<1> QED
  BY <1>2, <1>3, <1>4, <1>5, <1>9, <1>10

\* the terms of the totals
LEMMA Terms ==
  ASSUME NEW rs, Deal(rs)
  PROVE  /\ IsFiniteSet(SolvedIn(rs)) /\ SolvedIn(rs) \in SUBSET DOMAIN rs
         /\ \A i \in DOMAIN rs : /\ StatOf(rs[i]).cost \in Nat
                                 /\ StatOf(rs[i]).vipCount \in Nat
                                 /\ Len(rs[i].nodes) \div 2 \in Nat
<1>1. IsFiniteSet(DOMAIN rs) /\ \A i \in DOMAIN rs : rs[i] \in RouteType
  BY DealDomain
<1>2. IsFiniteSet(SolvedIn(rs)) /\ SolvedIn(rs) \in SUBSET DOMAIN rs
  BY <1>1, FS_Subset DEF SolvedIn
<1>3. ASSUME NEW i \in DOMAIN rs
      PROVE  Len(rs[i].nodes) \div 2 \in Nat
  <2>1. rs[i].nodes \in Routes
    BY <1>1 DEF RouteType
  <2>2. Len(rs[i].nodes) \in Nat
    BY <2>1, NodesOfRoute
  <2>3. \A n \in Nat : n \div 2 \in Nat
    OBVIOUS
  <2> QED
    BY <2>2, <2>3, Zenon
<1>4. \A i \in DOMAIN rs : StatOf(rs[i]).cost \in Nat /\ StatOf(rs[i]).vipCount \in Nat
  BY <1>1, StatOfType DEF Stat
<1> QED
  BY <1>2, <1>3, <1>4

\* they are numbers, the cost of which is not 0
LEMMA TotalsNat ==
  ASSUME NEW rs, Deal(rs), NEW s, s = Totals(rs)
  PROVE  /\ s.cost \in Nat \ {0} /\ s.tasks \in Nat /\ s.vip \in Nat
         /\ s.allSolved \in BOOLEAN
<1> DEFINE cost == [i \in SolvedIn(rs) |-> StatOf(rs[i]).cost]
           tasks == [i \in SolvedIn(rs) |-> Len(rs[i].nodes) \div 2]
           vip == [i \in SolvedIn(rs) |-> StatOf(rs[i]).vipCount]
<1>1. \A i \in SolvedIn(rs) : cost[i] \in Nat /\ tasks[i] \in Nat /\ vip[i] \in Nat
  BY Terms
<1>2. IsFiniteSet(SolvedIn(rs))
  BY Terms
<1>3. DOMAIN cost = SolvedIn(rs) /\ DOMAIN tasks = SolvedIn(rs) /\ DOMAIN vip = SolvedIn(rs)
  OBVIOUS
<1>4. s.cost = CostUnit + SumFunction(cost) /\ s.tasks = SumFunction(tasks)
      /\ s.vip = SumFunction(vip) /\ s.allSolved = AllSolved(rs)
  BY DEF Totals
<1> HIDE DEF cost, tasks, vip
<1>5. SumFunction(cost) \in Nat /\ SumFunction(tasks) \in Nat /\ SumFunction(vip) \in Nat
  BY <1>1, <1>2, <1>3, SumNat DEF SumFunction
<1>6. s.allSolved \in BOOLEAN
  BY <1>4 DEF AllSolved
<1> QED
  BY <1>4, <1>5, <1>6, ProducerAssumption

\* what can be driven at less cost than MaxCost is not passed over for a
\* solution that holds a Stat() and solves no more
LEMMA NotFitter ==
  ASSUME NEW a, NEW b,
         a.cost \in Nat, a.tasks \in Nat, a.vip \in Nat,
         b.cost \in Nat, b.tasks \in Nat, b.vip \in Nat,
         a.cost >= MaxCost, a.tasks <= b.tasks, a.vip <= b.vip
  PROVE  ~Fitter(a, b)
<1> DEFINE ac == a.cost
           bc == b.cost
           A  == Bonus(a)
           B  == Bonus(b)
           rest == Share(bc) * NumTasks * ac
<1>0. CostUnit \in Nat /\ NumTasks \in Nat
  BY ProducerAssumption, FleetAssumption
<1>1. A \in Nat /\ B \in Nat /\ A <= B
  BY DEF Bonus
<1>2. Share(ac) = 0
  BY DEF Share
<1>3. Share(bc) \in Nat
  BY <1>0 DEF Share
<1>4. ac \in Nat /\ bc \in Nat
  OBVIOUS
<1>5. Fitter(a, b) <=> Share(ac) * NumTasks * bc + A * ac * bc > rest + B * ac * bc
  BY DEF Fitter
<1> HIDE DEF ac, bc, A, B
<1>6. rest \in Nat
  <2>1. Share(bc) * NumTasks \in Nat
    BY <1>0, <1>3
  <2> QED
    BY <1>4, <2>1
<1> HIDE DEF rest
<1>7. \A x, y, z \in Nat : x <= y => x * z <= y * z /\ x * z \in Nat /\ y * z \in Nat
  OBVIOUS
<1>8. A * ac <= B * ac /\ A * ac \in Nat /\ B * ac \in Nat
  BY <1>1, <1>4, <1>7
<1>9. A * ac * bc <= B * ac * bc /\ A * ac * bc \in Nat /\ B * ac * bc \in Nat
  BY <1>4, <1>7, <1>8
<1>10. Share(ac) * NumTasks * bc = 0
  BY <1>0, <1>2, <1>4
<1> QED
  BY <1>5, <1>6, <1>9, <1>10

\* a neighbour of a solution that is all solved, one route of which has lost its
\* order and kept its flag, is not fitter than the solution
LEMMA StaleNotFitter ==
  ASSUME NEW rs, Deal(rs), AllSolved(rs), NEW fs, Deal(fs), DOMAIN fs = DOMAIN rs,
         \A j \in DOMAIN rs : Len(fs[j].nodes) = Len(rs[j].nodes),
         \A j \in DOMAIN rs : EventOf(fs[j]) = NoEvent => StatOf(fs[j]) = StatOf(rs[j]),
         NEW i \in DOMAIN rs, fs[i].solved, EventOf(fs[i]) # NoEvent
  PROVE  ~Fitter(Totals(fs), Totals(rs))
<1> DEFINE D == DOMAIN rs
           F == SolvedIn(fs)
           fcost  == [j \in F |-> StatOf(fs[j]).cost]
           ftasks == [j \in F |-> Len(fs[j].nodes) \div 2]
           fvip   == [j \in F |-> StatOf(fs[j]).vipCount]
           rtasks == [j \in D |-> Len(rs[j].nodes) \div 2]
           rvip   == [j \in D |-> StatOf(rs[j]).vipCount]
           t == Totals(fs)
           s == Totals(rs)
<1>1. /\ SolvedIn(rs) = D /\ i \in F
  BY DEF SolvedIn, AllSolved
<1>2. /\ IsFiniteSet(F) /\ F \in SUBSET D /\ IsFiniteSet(D)
      /\ \A j \in D : /\ StatOf(fs[j]).cost \in Nat /\ StatOf(fs[j]).vipCount \in Nat
                      /\ StatOf(rs[j]).vipCount \in Nat
                      /\ Len(fs[j].nodes) \div 2 \in Nat /\ Len(rs[j].nodes) \div 2 \in Nat
  <2>1. IsFiniteSet(D)
    BY DealDomain
  <2> QED
    BY <2>1, Terms
<1>3. /\ \A j \in D : rtasks[j] \in Nat /\ rvip[j] \in Nat
      /\ \A j \in F : fcost[j] \in Nat /\ ftasks[j] \in Nat /\ fvip[j] \in Nat
  BY <1>2
<1>4. ASSUME NEW j \in F
      PROVE  ftasks[j] <= rtasks[j] /\ fvip[j] <= rvip[j]
  <2>0. j \in D
    BY <1>2
  <2>1. ftasks[j] = rtasks[j] /\ rtasks[j] \in Nat
    BY <1>3, <2>0
  <2>2. fvip[j] = StatOf(fs[j]).vipCount /\ rvip[j] = StatOf(rs[j]).vipCount
    BY <2>0
  <2>3. CASE EventOf(fs[j]) = NoEvent
    <3>1. fvip[j] = rvip[j] /\ rvip[j] \in Nat
      BY <1>3, <2>0, <2>2, <2>3
    <3> HIDE DEF fvip, rvip, ftasks, rtasks
    <3> QED
      BY <2>1, <3>1
  <2>4. CASE EventOf(fs[j]) # NoEvent
    <3>1. fvip[j] = 0 /\ rvip[j] \in Nat
      BY <1>3, <2>0, <2>2, <2>4, StatOfFailed
    <3> HIDE DEF fvip, rvip, ftasks, rtasks
    <3> QED
      BY <2>1, <3>1
  <2> QED
    BY <2>3, <2>4
<1>5. /\ t.cost = CostUnit + SumFunctionOnSet(fcost, F)
      /\ t.tasks = SumFunctionOnSet(ftasks, F) /\ t.vip = SumFunctionOnSet(fvip, F)
      /\ s.tasks = SumFunctionOnSet(rtasks, D) /\ s.vip = SumFunctionOnSet(rvip, D)
  <2>1. /\ DOMAIN fcost = F /\ DOMAIN ftasks = F /\ DOMAIN fvip = F
        /\ DOMAIN rtasks = D /\ DOMAIN rvip = D
    OBVIOUS
  <2>2. /\ t.cost = CostUnit + SumFunction(fcost)
        /\ t.tasks = SumFunction(ftasks) /\ t.vip = SumFunction(fvip)
    BY DEF Totals
  <2>3. s.tasks = SumFunction(rtasks) /\ s.vip = SumFunction(rvip)
    BY <1>1 DEF Totals
  <2> HIDE DEF fcost, ftasks, fvip, rtasks, rvip, t, s
  <2> QED
    BY <2>1, <2>2, <2>3 DEF SumFunction
<1>6. fcost[i] = MaxCost
  BY <1>1, StatOfFailed
<1>7. /\ t.cost \in Nat /\ t.tasks \in Nat /\ t.vip \in Nat
      /\ s.cost \in Nat /\ s.tasks \in Nat /\ s.vip \in Nat
  BY TotalsNat
<1> HIDE DEF fcost, ftasks, fvip, rtasks, rvip, t, s, D, F
<1>8. t.tasks <= s.tasks
  <2>1. \A j \in F : ftasks[j] \in Int /\ ftasks[j] <= rtasks[j]
    BY <1>3, <1>4
  <2>2. SumFunctionOnSet(ftasks, F) <= SumFunctionOnSet(rtasks, D)
    BY <1>2, <1>3, <2>1, SumLess
  <2> QED
    BY <1>5, <2>2
<1>9. t.vip <= s.vip
  <2>1. \A j \in F : fvip[j] \in Int /\ fvip[j] <= rvip[j]
    BY <1>3, <1>4
  <2>2. SumFunctionOnSet(fvip, F) <= SumFunctionOnSet(rvip, D)
    BY <1>2, <1>3, <2>1, SumLess
  <2> QED
    BY <1>5, <2>2
<1>10. t.cost >= MaxCost
  <2> DEFINE rest == SumFunctionOnSet(fcost, F \ {i})
  <2>1. \A j \in F : fcost[j] \in Int
    BY <1>3
  <2>2. SumFunctionOnSet(fcost, F) = fcost[i] + rest
    BY <1>1, <1>2, <2>1, SumRemove
  <2>3. IsFiniteSet(F \ {i}) /\ \A j \in F \ {i} : fcost[j] \in Nat
    BY <1>2, <1>3, FS_RemoveElement
  <2>4. rest \in Nat
    BY <2>3, SumNat
  <2> HIDE DEF rest
  <2> QED
    BY <1>5, <1>6, <2>2, <2>4, CostAssumption, ProducerAssumption
<1>11. ~Fitter(t, s)
  BY <1>7, <1>8, <1>9, <1>10, NotFitter
<1> QED
  BY <1>11 DEF t, s

-----------------------------------------------------------------------------
(* The invariant *)

\* a flagged route can be driven
Drivable(rs) == \A i \in SolvedIn(rs) : EventOf(rs[i]) = NoEvent

SourceInv(s) ==
    /\ Deal(s.routes)
    /\ s.stat = Totals(s.routes)
    /\ Drivable(s.routes)

Inv == SourceInv(source) /\ CacheSound(cache)

\* the check of routes that have no flag
LEMMA FreshChecked ==
  ASSUME NEW c, CacheSound(c), NEW rs \in RandomRoutes
  PROVE  SourceInv(Checked(c, rs)) /\ CacheSound(CacheAfter(c, rs))
<1> DEFINE fs == Flagged(c, rs)
<1>1. Deal(rs) /\ \A i \in DOMAIN rs : ~rs[i].solved /\ rs[i] \in RouteType
  BY RandomIsDeal, DealDomain
<1>2. /\ Deal(fs) /\ DOMAIN fs = DOMAIN rs
      /\ \A i \in DOMAIN rs : /\ EventOf(fs[i]) = EventOf(rs[i])
                              /\ fs[i].solved = FlagAfterCheck(c, rs[i])
      /\ Checked(c, rs) = [routes |-> fs, stat |-> Totals(fs)]
  BY <1>1, CheckedIs
<1>3. Drivable(fs)
  BY <1>1, <1>2, FlagIs DEF Drivable, SolvedIn
<1>4. CacheSound(CacheAfter(c, rs))
  BY <1>1, CacheStaysSound
<1> HIDE DEF fs
<1> QED
  BY <1>2, <1>3, <1>4 DEF SourceInv

\* a solution with an unsolved route has a first one
LEMMA FirstUnsolved ==
  ASSUME NEW rs, Deal(rs), ~AllSolved(rs)
  PROVE  ShuffleIndex(rs) \in DOMAIN rs /\ ~rs[ShuffleIndex(rs)].solved
<1> DEFINE U == {i \in DOMAIN rs : ~rs[i].solved}
<1>1. PICK n \in 1 .. NumVehicles : DOMAIN rs = 1 .. n
  BY DealDomain
<1>2. U \subseteq Nat /\ U # {}
  BY DealDomain DEF AllSolved
<1>3. PICK i \in U : \A k \in U : i <= k
  BY <1>2, Least
<1>4. \A j \in 1 .. i - 1 : rs[j].solved
  BY <1>1, <1>3
<1>5. \E k \in DOMAIN rs : ~rs[k].solved /\ \A j \in 1 .. k - 1 : rs[j].solved
  BY <1>3, <1>4
<1> QED
  BY <1>5 DEF ShuffleIndex

\* what a neighbour changes: the order of the nodes of one route, which is not
\* flagged unless all routes are
LEMMA NeighbourIs ==
  ASSUME NEW sol, SourceInv(sol), NEW rs \in Neighbourhood(sol)
  PROVE  /\ Deal(rs)
         /\ DOMAIN rs = DOMAIN sol.routes
         /\ \A j \in DOMAIN rs : Len(rs[j].nodes) = Len(sol.routes[j].nodes)
         /\ \E i \in DOMAIN rs :
               /\ \A j \in DOMAIN rs : j # i => rs[j] = sol.routes[j]
               /\ rs[i].solved => AllSolved(sol.routes)
<1> DEFINE old == sol.routes
<1>0. Deal(old) /\ sol.stat.allSolved = AllSolved(old) /\ \A i \in DOMAIN old : old[i] \in RouteType
  BY DealDomain DEF SourceInv, Totals
<1>1. \A i \in DOMAIN old : old[i].nodes \in Routes
  BY <1>0 DEF RouteType
<1> SUFFICES \E i \in DOMAIN old : \E ns \in Routes :
               /\ Len(ns) = Len(old[i].nodes) /\ SameNodes(ns, old[i].nodes)
               /\ rs = Reordered(old, i, ns)
               /\ old[i].solved => AllSolved(old)
  <2> PICK i \in DOMAIN old, ns \in Routes :
               /\ Len(ns) = Len(old[i].nodes) /\ SameNodes(ns, old[i].nodes)
               /\ rs = Reordered(old, i, ns)
               /\ old[i].solved => AllSolved(old)
    OBVIOUS
  <2> HIDE DEF old
  <2>1. /\ Deal(rs) /\ DOMAIN rs = DOMAIN old
        /\ rs[i].nodes = ns /\ rs[i].solved = old[i].solved
        /\ \A j \in DOMAIN old : j # i => rs[j] = old[j]
    <3>1. Deal(old)
      BY <1>0
    <3> QED
      BY <3>1, Renoded
  <2>2. \A j \in DOMAIN rs : Len(rs[j].nodes) = Len(old[j].nodes)
    BY <2>1
  <2>3. rs[i].solved => AllSolved(old)
    BY <2>1
  <2> QED
    BY <2>1, <2>2, <2>3 DEF old
<1>2. CASE AllSolved(old)
  <2>0. PICK i \in DOMAIN old : \E k \in DOMAIN old[i].nodes :
           rs = [old EXCEPT ![i].nodes = Swapped(@, k)]
    BY <1>0, <1>2 DEF Neighbourhood
  <2>1. PICK k \in DOMAIN old[i].nodes : rs = [old EXCEPT ![i].nodes = Swapped(@, k)]
    BY <2>0
  <2> DEFINE ns == Swapped(old[i].nodes, k)
  <2>2. rs = Reordered(old, i, ns)
    BY <2>1 DEF Reordered
  <2>3. ns \in Routes /\ Len(ns) = Len(old[i].nodes) /\ SameNodes(ns, old[i].nodes)
    <3>1. old[i].nodes \in Routes /\ ns = Swapped(old[i].nodes, k)
      BY <1>1
    <3> HIDE DEF ns, old
    <3> QED
      BY <3>1, SwappedIs
  <2> HIDE DEF ns
  <2> QED
    BY <1>2, <2>2, <2>3
<1>3. CASE ~AllSolved(old)
  <2> DEFINE first == ShuffleIndex(old)
  <2>1. PICK ns \in Shuffles(old[first].nodes) : rs = Reordered(old, first, ns)
    BY <1>0, <1>3 DEF Neighbourhood, Reordered
  <2>2. first \in DOMAIN old /\ ~old[first].solved
    BY <1>0, <1>3, FirstUnsolved
  <2> HIDE DEF first
  <2>3. ns \in Routes /\ Len(ns) = Len(old[first].nodes) /\ SameNodes(ns, old[first].nodes)
    BY <1>1, <2>2, ShuffledIs
  <2> QED
    BY <2>1, <2>2, <2>3
<1> QED
  BY <1>2, <1>3

\* a bee keeps a neighbour only if its flags are true
LEMMA NeighbourChecked ==
  ASSUME NEW c, CacheSound(c), NEW sol, SourceInv(sol), NEW rs \in Neighbourhood(sol)
  PROVE  /\ CacheSound(CacheAfter(c, rs))
         /\ Fitter(RoutesCheckResult(c, rs), sol.stat) => SourceInv(Checked(c, rs))
<1> DEFINE old == sol.routes
           fs  == Flagged(c, rs)
<1>0. Deal(old) /\ sol.stat = Totals(old) /\ Drivable(old)
  BY DEF SourceInv
<1>1. /\ Deal(rs) /\ DOMAIN rs = DOMAIN old
      /\ \A j \in DOMAIN rs : Len(rs[j].nodes) = Len(old[j].nodes)
  BY NeighbourIs
<1>2. PICK i \in DOMAIN rs : /\ \A j \in DOMAIN rs : j # i => rs[j] = old[j]
                             /\ rs[i].solved => AllSolved(old)
  BY NeighbourIs
<1>3. /\ Deal(fs) /\ DOMAIN fs = DOMAIN rs
      /\ \A j \in DOMAIN rs : /\ fs[j].nodes = rs[j].nodes
                              /\ EventOf(fs[j]) = EventOf(rs[j])
                              /\ StatOf(fs[j]) = StatOf(rs[j])
                              /\ fs[j].solved = FlagAfterCheck(c, rs[j])
      /\ RoutesCheckResult(c, rs) = Totals(fs)
      /\ Checked(c, rs) = [routes |-> fs, stat |-> Totals(fs)]
  BY <1>1, CheckedIs
<1>4. \A j \in DOMAIN rs : rs[j] \in RouteType
  BY <1>1, DealDomain
<1>5. CacheSound(CacheAfter(c, rs))
  BY <1>4, CacheStaysSound
<1> HIDE DEF old, fs
<1>6. ASSUME NEW j \in DOMAIN rs, fs[j].solved, EventOf(fs[j]) # NoEvent
      PROVE  j = i /\ AllSolved(old)
  <2>1. rs[j].solved
    BY <1>3, <1>4, <1>6, FlagIs
  <2>2. CASE j # i
    <3>1. rs[j] = old[j] /\ j \in SolvedIn(old)
      BY <1>1, <1>2, <2>1, <2>2 DEF SolvedIn
    <3>2. EventOf(rs[j]) = NoEvent
      BY <1>0, <3>1 DEF Drivable
    <3> QED
      BY <1>3, <1>6, <3>2
  <2> QED
    BY <1>2, <2>1, <2>2
<1>7. CASE fs[i].solved /\ EventOf(fs[i]) # NoEvent
  <2>1. AllSolved(old)
    BY <1>6, <1>7
  <2>2. \A j \in DOMAIN old : Len(fs[j].nodes) = Len(old[j].nodes)
    BY <1>1, <1>3
  <2>3. \A j \in DOMAIN old : EventOf(fs[j]) = NoEvent => StatOf(fs[j]) = StatOf(old[j])
    BY <1>1, <1>2, <1>3, <1>7
  <2>4. DOMAIN fs = DOMAIN old /\ i \in DOMAIN old
    BY <1>1, <1>3
  <2>5. ~Fitter(Totals(fs), Totals(old))
    BY <1>0, <1>3, <1>7, <2>1, <2>2, <2>3, <2>4, StaleNotFitter
  <2> QED
    BY <1>0, <1>3, <1>5, <2>5
<1>8. CASE ~(fs[i].solved /\ EventOf(fs[i]) # NoEvent)
  <2>1. Drivable(fs)
    BY <1>3, <1>6, <1>8 DEF Drivable, SolvedIn
  <2>2. SourceInv(Checked(c, rs))
    BY <1>3, <2>1 DEF SourceInv
  <2> QED
    BY <1>5, <2>2
<1> QED
  BY <1>7, <1>8

LEMMA InitInv == Init => Inv
<1> SUFFICES ASSUME Init PROVE Inv
  OBVIOUS
<1>1. PICK rs \in RandomRoutes : source = Checked({}, rs) /\ cache = CacheAfter({}, rs)
  BY DEF Init
<1>2. CacheSound({})
  BY DEF CacheSound
<1> QED
  BY <1>1, <1>2, FreshChecked DEF Inv

LEMMA NextInv == Inv /\ [Next]_vars => Inv'
<1> SUFFICES ASSUME Inv, [Next]_vars PROVE Inv'
  OBVIOUS
<1>1. CASE GenerateRandom
  <2>1. PICK rs \in RandomRoutes : /\ source' = Checked(cache, rs)
                                   /\ cache' = CacheAfter(cache, rs)
    BY <1>1 DEF GenerateRandom
  <2>2. SourceInv(source') /\ CacheSound(cache')
    BY <2>1, FreshChecked DEF Inv
  <2> QED
    BY <2>2 DEF Inv
<1>2. CASE ProduceNeighborhood
  <2>1. PICK rs \in Neighbourhood(source) :
           /\ source' = IF Fitter(RoutesCheckResult(cache, rs), source.stat)
                        THEN Checked(cache, rs) ELSE source
           /\ cache' = CacheAfter(cache, rs)
    BY <1>2 DEF ProduceNeighborhood
  <2>2. SourceInv(source') /\ CacheSound(cache')
    BY <2>1, NeighbourChecked DEF Inv
  <2> QED
    BY <2>2 DEF Inv
<1>3. CASE UNCHANGED vars
  BY <1>3 DEF vars, Inv
<1> QED
  BY <1>1, <1>2, <1>3 DEF Next

\* The invariant holds in every state, whatever is drawn and whatever
\* neighbours are looked at.
THEOREM InvCorrect == Spec => []Inv
  BY InitInv, NextInv, PTL DEF Spec

-----------------------------------------------------------------------------
(* The theorems *)

\* a route has at most two nodes for each of its tasks
LEMMA RouteSize ==
  ASSUME NEW r \in RouteType
  PROVE  /\ TasksOf(r) \subseteq TaskIds
         /\ IsFiniteSet(TasksOf(r))
         /\ Len(r.nodes) \div 2 <= Cardinality(TasksOf(r))
         /\ StatOf(r).vipCount <= 2 * Cardinality(TasksOf(r))
<1> DEFINE ns == r.nodes
           T == TasksOf(r)
           f == [i \in DOMAIN ns |-> <<ns[i] % 2, TaskOf(ns[i])>>]
<1>0. ns \in Routes
  BY DEF RouteType
<1>1. ns \in Seq(Nodes) /\ DOMAIN ns = 1 .. Len(ns) /\ Len(ns) \in Nat
  BY <1>0, NodesOfRoute
<1>2. \A i, j \in DOMAIN ns : ns[i] = ns[j] => i = j
  BY <1>0, <1>1, NodesOfRoute
<1>3. \A i \in DOMAIN ns : ns[i] \in Nodes
  BY <1>1
<1>4. T \subseteq TaskIds
  BY <1>3, NodeTask DEF TasksOf
<1>5. IsFiniteSet(TaskIds)
  BY FleetAssumption, FS_Interval DEF TaskIds
<1>6. IsFiniteSet(T) /\ Cardinality(T) \in Nat
  BY <1>4, <1>5, FS_Subset, FS_CardinalityType
<1>7. IsFiniteSet({0, 1}) /\ Cardinality({0, 1}) = 2
  <2>1. {0, 1} = 0 .. 1
    OBVIOUS
  <2>2. 0 \in Int /\ 1 \in Int /\ ~(0 > 1) /\ 1 - 0 + 1 = 2
    OBVIOUS
  <2>3. IsFiniteSet(0 .. 1) /\ Cardinality(0 .. 1) = 2
    BY <2>2, FS_Interval
  <2> QED
    BY <2>1, <2>3
<1>8. f \in Injection(DOMAIN ns, {0, 1} \X T)
  <2>1. \A n \in Nodes : n % 2 \in {0, 1} /\ n = 2 * TaskOf(n) + (n % 2)
    BY FleetAssumption DEF Nodes, TaskOf
  <2>2. f \in [DOMAIN ns -> {0, 1} \X T]
    BY <1>3, <2>1 DEF TasksOf
  <2>3. ASSUME NEW i \in DOMAIN ns, NEW j \in DOMAIN ns, f[i] = f[j]
        PROVE  i = j
    <3>1. ns[i] % 2 = ns[j] % 2 /\ TaskOf(ns[i]) = TaskOf(ns[j])
      BY <2>3
    <3>2. ns[i] = ns[j]
      BY <1>3, <2>1, <3>1
    <3> QED
      BY <1>2, <3>2
  <2> HIDE DEF f
  <2> QED
    BY <2>2, <2>3 DEF Injection, IsInjective
<1>9. Len(ns) <= 2 * Cardinality(T)
  <2> HIDE DEF f, T, ns
  <2>1. /\ IsFiniteSet({0, 1} \X T)
        /\ Cardinality({0, 1} \X T) = 2 * Cardinality(T)
    BY <1>6, <1>7, FS_Product
  <2>2. Cardinality(DOMAIN ns) <= Cardinality({0, 1} \X T)
    BY <1>8, <2>1, FS_Injection
  <2>3. Cardinality(DOMAIN ns) = Len(ns)
    BY <1>1, FS_Interval
  <2> QED
    BY <2>1, <2>2, <2>3
<1>10. Len(ns) \div 2 <= Cardinality(T)
  <2>1. \A a, b \in Nat : a <= 2 * b => a \div 2 <= b
    OBVIOUS
  <2> HIDE DEF T, ns
  <2> QED
    BY <1>1, <1>6, <1>9, <2>1
<1>11. StatOf(r).vipCount <= Len(ns)
  <2>1. CASE EventOf(r) # NoEvent
    BY <1>1, <2>1, StatOfFailed
  <2>2. CASE EventOf(r) = NoEvent
    <3>1. StatOf(r).vipCount = VipCount(ns)
      BY <2>2 DEF StatOf, EventOf, CheckStat, StatOfWalk
    <3>2. IsFiniteSet(DOMAIN ns) /\ Cardinality(DOMAIN ns) = Len(ns)
      BY <1>1, FS_Interval
    <3>3. VipCount(ns) <= Cardinality(DOMAIN ns)
      BY <3>2, FS_Subset DEF VipCount
    <3> QED
      BY <3>1, <3>2, <3>3
  <2> QED
    BY <2>1, <2>2
<1>12. StatOf(r).vipCount \in Nat
  BY StatOfType DEF Stat
<1>13. StatOf(r).vipCount <= 2 * Cardinality(T)
  <2> HIDE DEF T, ns
  <2> QED
    BY <1>1, <1>6, <1>9, <1>11, <1>12
<1> QED
  BY <1>4, <1>6, <1>10, <1>13

\* no more tasks than there are, and two vip nodes for each
LEMMA TotalsBound ==
  ASSUME NEW rs, Deal(rs), NEW s, s = Totals(rs)
  PROVE  s.tasks <= NumTasks /\ s.vip <= 2 * NumTasks
<1> DEFINE S == SolvedIn(rs)
           tasks == [i \in S |-> Len(rs[i].nodes) \div 2]
           vip   == [i \in S |-> StatOf(rs[i]).vipCount]
           X     == [i \in S |-> TasksOf(rs[i])]
           all   == UNION {X[i] : i \in S}
<1>1. /\ IsFiniteSet(S)
      /\ \A i \in S : /\ i \in DOMAIN rs /\ rs[i] \in RouteType
                      /\ tasks[i] \in Nat /\ vip[i] \in Nat
  BY Terms, DealDomain
<1>2. \A i \in S : /\ X[i] \subseteq TaskIds /\ IsFiniteSet(X[i])
                   /\ tasks[i] <= Cardinality(X[i])
                   /\ vip[i] <= 2 * Cardinality(X[i])
  BY <1>1, RouteSize
<1>3. \A i, j \in S : i # j => X[i] \cap X[j] = {}
  BY <1>1 DEF Deal, OwnTasks
<1>4. s.tasks = SumFunction(tasks) /\ s.vip = SumFunction(vip)
      /\ DOMAIN tasks = S /\ DOMAIN vip = S
  BY DEF Totals
<1>5. s.tasks = SumFunctionOnSet(tasks, S) /\ s.vip = SumFunctionOnSet(vip, S)
  <2> HIDE DEF tasks, vip, S
  <2> QED
    BY <1>4 DEF SumFunction
<1>6. all \in SUBSET TaskIds
  BY <1>2
<1>7. IsFiniteSet(TaskIds) /\ Cardinality(TaskIds) = NumTasks
  <2>1. NumTasks \in Nat \ {0} /\ 0 \in Int /\ NumTasks - 1 \in Int
    BY FleetAssumption
  <2> QED
    BY <2>1, FS_Interval DEF TaskIds
<1>8. Cardinality(all) <= NumTasks /\ IsFiniteSet(all)
  <2> HIDE DEF all
  <2> QED
    BY <1>6, <1>7, FS_Subset
<1>9. Cardinality(all) \in Nat /\ NumTasks \in Nat
  BY <1>8, FS_CardinalityType, FleetAssumption
<1> HIDE DEF tasks, vip, X, S
<1>10. SumFunctionOnSet(tasks, S) <= 1 * Cardinality(all)
  <2>1. \A i \in S : IsFiniteSet(X[i]) /\ tasks[i] \in Int /\ tasks[i] <= 1 * Cardinality(X[i])
    BY <1>1, <1>2, FS_CardinalityType
  <2> QED
    BY <1>1, <1>3, <2>1, SumDisjoint
<1>11. SumFunctionOnSet(vip, S) <= 2 * Cardinality(all)
  <2>1. \A i \in S : IsFiniteSet(X[i]) /\ vip[i] \in Int /\ vip[i] <= 2 * Cardinality(X[i])
    BY <1>1, <1>2
  <2> QED
    BY <1>1, <1>3, <2>1, SumDisjoint
<1>12. SumFunctionOnSet(tasks, S) \in Int /\ SumFunctionOnSet(vip, S) \in Int
  BY <1>1, SumType
<1> HIDE DEF all
<1> QED
  BY <1>5, <1>8, <1>9, <1>10, <1>11, <1>12

\* the types of a source and of the cache
LEMMA SolutionTypes == Inv => TypeOK
<1> SUFFICES ASSUME Inv PROVE TypeOK
  OBVIOUS
<1> DEFINE s == source.stat
<1>1. Deal(source.routes) /\ s = Totals(source.routes) /\ CacheSound(cache)
  BY DEF Inv, SourceInv
<1>2. \A i \in DOMAIN source.routes : source.routes[i] \in RouteType
  BY <1>1, DealDomain
<1>3. /\ s.cost \in Nat /\ s.tasks \in Nat /\ s.vip \in Nat /\ s.allSolved \in BOOLEAN
      /\ s.tasks <= NumTasks /\ s.vip <= 2 * NumTasks
  BY <1>1, TotalsNat, TotalsBound
<1>4. s = [cost |-> s.cost, tasks |-> s.tasks, vip |-> s.vip, allSolved |-> s.allSolved]
  BY <1>1 DEF Totals
<1> HIDE DEF s
<1>5. s.tasks \in 0 .. NumTasks /\ s.vip \in 0 .. 2 * NumTasks
  BY <1>3, FleetAssumption
<1>6. s \in [cost : Nat, tasks : 0 .. NumTasks, vip : 0 .. 2 * NumTasks, allSolved : BOOLEAN]
  BY <1>3, <1>4, <1>5
<1>7. \A e \in cache : e.stat \in Stat
  BY <1>1, CheckStatType DEF CacheSound
<1> QED
  BY <1>2, <1>6, <1>7 DEF TypeOK, s

\* Every solution that a source can hold has routes of the problem's vehicles
\* and tasks, and its stat counts no more tasks than there are.
THEOREM SolutionTypeCorrect == Spec => []TypeOK
BY SolutionTypes, InvCorrect, PTL

\* A flagged route of a source can be driven, the routes share nothing, and
\* there is one to shuffle if not all are solved.
THEOREM RoutesCorrect == Spec => []RoutesSound
<1>1. Inv => RoutesSound
  <2> SUFFICES ASSUME Inv PROVE RoutesSound
    OBVIOUS
  <2>1. /\ Deal(source.routes) /\ source.stat = Totals(source.routes)
        /\ Drivable(source.routes)
    BY DEF Inv, SourceInv
  <2>2. EachTaskServedOnce
    BY <2>1 DEF Deal, OwnVehicles, OwnTasks, EachTaskServedOnce
  <2>3. AcceptedRoutesSound
    <3>1. \A i \in SolvedIn(source.routes) : source.routes[i] \in RouteType
      BY <2>1, DealDomain DEF SolvedIn
    <3> QED
      BY <2>1, <3>1, OutcomeIs DEF AcceptedRoutesSound, Drivable
  <2>4. AlwaysARouteToShuffle
    BY <2>1 DEF AlwaysARouteToShuffle, Totals, AllSolved, SolvedIn
  <2> QED
    BY <2>2, <2>3, <2>4 DEF RoutesSound
<1> QED
  BY <1>1, InvCorrect, PTL

\* The cache says of a route what walking it would.
THEOREM CacheCorrect == Spec => []CacheTransparent
<1>1. Inv => CacheTransparent
  <2> SUFFICES ASSUME Inv PROVE CacheTransparent
    OBVIOUS
  <2>1. \A i \in DOMAIN source.routes : source.routes[i] \in RouteType
    BY DealDomain DEF Inv, SourceInv
  <2> QED
    BY <2>1, StatIs, OutcomeIs DEF CacheTransparent, Inv
<1> QED
  BY <1>1, InvCorrect, PTL

-----------------------------------------------------------------------------
(* The totals that solve makes of the differences.                          *)

\* the changes c, one by one, of a number that was 0 and has become g[k] after k
Accounts(c, g, n) ==
    /\ n \in Nat /\ c = [i \in 1 .. n |-> c[i]]
    /\ g[0] = 0 /\ \A i \in 0 .. n : g[i] \in Int
    /\ \A i \in 1 .. n : c[i] = g[i] - g[i - 1]

\* the iteration that FoldLeft chooses for a sum
IsSum(h, q) ==
    h = [T \in SUBSET DOMAIN q |-> IF T = {} THEN 0 ELSE h[T \ {Max(T)}] + q[Max(T)]]

SumLoop(q) == CHOOSE h : IsSum(h, q)

Adding == [a \in Int |-> [b \in Int |-> a + b]]

LEMMA AddingType == Adding \in [Int -> [Int -> Int]] /\ \A a, b \in Int : Adding[a][b] = a + b
  BY DEF Adding

LEMMA TotalIsSum ==
  ASSUME NEW c, NEW k, NEW q, q = SubSeq(c, 1, k)
  PROVE  Total(c, k) = SumLoop(q)[DOMAIN q]
  BY Zenon DEF Total, FoldLeft, MapThenFoldSet, SumLoop, IsSum

LEMMA SumFolds ==
  ASSUME NEW q \in Seq(Int)
  PROVE  FoldsLeft(SumLoop(q), 0, Adding, q, Int)
<1>0. DOMAIN q = 1 .. Len(q) /\ Len(q) \in Nat /\ 0 \in Int /\ \A i \in DOMAIN q : q[i] \in Int
  OBVIOUS
<1>3. \A T \in SUBSET DOMAIN q : T # {} => Max(T) \in DOMAIN q
  BY <1>0, MaxPicks
<1>4. PICK f \in [SUBSET DOMAIN q -> Int] : IsLeftFold(f, 0, Adding, q)
  BY <1>0, AddingType, LeftExists, Zenon
<1>5. \A T \in SUBSET DOMAIN q : T # {} =>
         Adding[f[T \ {Max(T)}]][q[Max(T)]] = f[T \ {Max(T)}] + q[Max(T)]
  <2> SUFFICES ASSUME NEW T \in SUBSET DOMAIN q, T # {}
               PROVE  Adding[f[T \ {Max(T)}]][q[Max(T)]] = f[T \ {Max(T)}] + q[Max(T)]
    OBVIOUS
  <2>1. f[T \ {Max(T)}] \in Int /\ q[Max(T)] \in Int
    BY <1>0, <1>3
  <2> QED
    BY <2>1, AddingType
<1>6. IsSum(f, q)
  BY <1>4, <1>5 DEF IsLeftFold, IsSum
<1> DEFINE h == SumLoop(q)
<1>7. IsSum(h, q)
  BY <1>6, Zenon DEF SumLoop
<1> HIDE DEF h
<1>8. \A T \in SUBSET DOMAIN q :
         h[T] = IF T = {} THEN 0 ELSE h[T \ {Max(T)}] + q[Max(T)]
  BY <1>7 DEF IsSum
<1>9. StepsLeft(h, 0, Adding, q, Int)
  BY <1>0, <1>3, <1>8, AddingType DEF StepsLeft
<1> QED
  BY <1>0, <1>9, AddingType, LeftStep, Zenon DEF h

LEMMA TotalIs ==
  ASSUME NEW c, NEW g, NEW n, Accounts(c, g, n), NEW k \in 0 .. n
  PROVE  Total(c, k) = g[k]
<1> DEFINE q == SubSeq(c, 1, k)
           h == SumLoop(q)
           S == {j \in Nat : j <= k => h[1 .. j] = g[j]}
<1>1. n \in Nat /\ c \in Seq(Int) /\ Len(c) = n /\ k \in Nat /\ k <= n
  <2>1. \A i \in 1 .. n : i \in 0 .. n /\ i - 1 \in 0 .. n
    BY DEF Accounts
  <2>2. \A i \in 1 .. n : c[i] \in Int
    BY <2>1 DEF Accounts
  <2>3. n \in Nat /\ c \in [1 .. n -> Int]
    BY <2>2 DEF Accounts
  <2> QED
    BY <2>3
<1>2. q \in Seq(Int) /\ Len(q) = k /\ \A i \in 1 .. k : q[i] = c[i]
  <2>1. \A m \in 0 .. Len(c) : /\ SubSeq(c, 1, m) \in Seq(Int) /\ Len(SubSeq(c, 1, m)) = m
                               /\ \A i \in 1 .. m : SubSeq(c, 1, m)[i] = c[i]
    BY <1>1
  <2>2. k \in 0 .. Len(c)
    BY <1>1
  <2> QED
    BY <2>1, <2>2
<1>3. DOMAIN q = 1 .. k
  BY <1>2
<1>4. Total(c, k) = h[1 .. k]
  BY <1>3, TotalIsSum
<1> HIDE DEF q
<1>5. FoldsLeft(h, 0, Adding, q, Int)
  BY <1>2, SumFolds
<1> HIDE DEF h
<1>6. /\ \A j \in 0 .. k : g[j] \in Int
      /\ \A j \in 1 .. k : c[j] = g[j] - g[j - 1]
      /\ g[0] = 0
  BY <1>1 DEF Accounts
<1>7. 0 \in S
  <2>1. h[1 .. 0] = 0
    BY <1>5 DEF FoldsLeft
  <2> QED
    BY <1>6, <2>1
<1>8. \A j \in Nat : j \in S => j + 1 \in S
  <2> SUFFICES ASSUME NEW j \in Nat, j \in S, j + 1 <= k PROVE h[1 .. j + 1] = g[j + 1]
    OBVIOUS
  <2>1. j \in 0 .. k - 1 /\ j \in 0 .. k /\ j + 1 \in 1 .. k /\ j + 1 \in 0 .. k /\ (j + 1) - 1 = j
    BY <1>1
  <2>2. h[1 .. j + 1] = Adding[h[1 .. j]][q[j + 1]]
    BY <1>2, <1>5, <2>1 DEF FoldsLeft
  <2>3. h[1 .. j] = g[j]
    BY <2>1
  <2>4. q[j + 1] = g[j + 1] - g[j] /\ g[j] \in Int /\ g[j + 1] \in Int
    BY <1>2, <1>6, <2>1
  <2>5. Adding[h[1 .. j]][q[j + 1]] = g[j] + (g[j + 1] - g[j])
    <3>1. h[1 .. j] \in Int /\ q[j + 1] \in Int
      BY <2>3, <2>4
    <3>2. Adding[h[1 .. j]][q[j + 1]] = h[1 .. j] + q[j + 1]
      BY <3>1, AddingType
    <3> QED
      BY <2>3, <2>4, <3>2
  <2> QED
    BY <2>2, <2>4, <2>5
<1>9. Nat \subseteq S
  <2> HIDE DEF S
  <2> QED
    BY <1>7, <1>8, Induction
<1> QED
  BY <1>1, <1>4, <1>9

-----------------------------------------------------------------------------
(* The entries that getResultStats makes of a route that can be driven.     *)

\* the entry e of node n, which made the truck a to b
EntryOf(e, n, a, b) ==
    /\ e.nodeId = n
    /\ e.workloadDiff = b.currentLoad - a.currentLoad
    /\ e.volumeDiff = b.currentVolume - a.currentVolume
    /\ e.distanceDiff = b.currentDistanceMeters - a.currentDistanceMeters
    /\ e.tasksCountDiff = b.taskTaken - a.taskTaken
    /\ e.timeStart \in Nat /\ e.timeEnd \in Nat /\ e.timeStart <= e.timeEnd

\* the entries, for a truck that was ws[i] behind the i-th node
Tabulated(tk, ns, ws) ==
    /\ DOMAIN tk = 1 .. Len(ns)
    /\ \A i \in 1 .. Len(ns) : /\ EntryOf(tk[i], ns[i], ws[i - 1], ws[i])
                               /\ i > 1 => tk[i - 1].timeEnd <= tk[i].timeStart

LEMMA TasksTabulated ==
  ASSUME NEW r \in RouteType, CheckEvent(r.vehicleId, r.nodes) = NoEvent,
         NEW ws, ws = Trucks(r.vehicleId, r.nodes)
  PROVE  /\ StatsOf(r) = Walk(r.vehicleId, r.nodes).walk.stats
         /\ Len(StatsOf(r)) = 2 * Len(r.nodes)
         /\ Tabulated(RouteWithStat(r).tasks, r.nodes, ws)
<1> DEFINE ns == r.nodes
           st == Walk(r.vehicleId, ns).walk.stats
           tk == RouteWithStat(r).tasks
<1>1. r.vehicleId \in VehicleIds /\ ns \in Routes
  BY DEF RouteType
<1>2. ns \in Seq(Nodes) /\ DOMAIN ns = 1 .. Len(ns) /\ Len(ns) \in Nat
  BY <1>1, NodesOfRoute
<1>3. StatsOf(r) = st
  BY DEF CheckEvent, NoEvent, StatsOf
<1>4. Statistics(st, ws, Len(ns))
  BY <1>1, GoodWalk
<1>5. tk = [i \in DOMAIN ns |-> TaskWithStat(ns[i], st[2 * i - 1], st[2 * i])]
  BY <1>3, Zenon DEF RouteWithStat
<1> HIDE DEF st, tk, ns
<1>6. st \in Seq(PointStat) /\ Len(st) = 2 * Len(ns)
  BY <1>4 DEF Statistics
<1>7. ASSUME NEW i \in 1 .. Len(ns)
      PROVE  /\ EntryOf(tk[i], ns[i], ws[i - 1], ws[i])
             /\ i > 1 => tk[i - 1].timeEnd <= tk[i].timeStart
  <2>1. tk[i] = TaskWithStat(ns[i], st[2 * i - 1], st[2 * i])
    BY <1>2, <1>5
  <2>2. i > 1 => i - 1 \in DOMAIN ns /\ 2 * (i - 1) = 2 * i - 2
    BY <1>2
  <2>3. i > 1 => tk[i - 1] = TaskWithStat(ns[i - 1], st[2 * (i - 1) - 1], st[2 * (i - 1)])
    BY <1>2, <1>5, <2>2
  <2>4. Written(st, i, ws[i - 1], ws[i])
    BY <1>4 DEF Statistics
  <2>5. st[2 * i - 1] \in PointStat /\ st[2 * i] \in PointStat
    <3>1. 2 * i \in 1 .. Len(st) /\ 2 * i - 1 \in 1 .. Len(st)
      BY <1>2, <1>6
    <3> QED
      BY <1>6, <3>1
  <2>6. st[2 * i - 1].time \in Nat /\ st[2 * i].time \in Nat
    BY <2>5 DEF PointStat
  <2>7. i > 1 => tk[i - 1].timeEnd <= tk[i].timeStart
    BY <2>1, <2>2, <2>3, <2>4 DEF TaskWithStat, Written
  <2> QED
    BY <2>1, <2>4, <2>6, <2>7 DEF EntryOf, Written, TaskWithStat
<1>8. Tabulated(tk, ns, ws)
  <2>1. DOMAIN tk = 1 .. Len(ns)
    BY <1>2, <1>5
  <2> QED
    BY <1>7, <2>1 DEF Tabulated
<1>9. Len(StatsOf(r)) = 2 * Len(ns)
  BY <1>3, <1>6
<1> QED
  BY <1>3, <1>8, <1>9 DEF ns, st, tk

Timed(e) == e.timeStart \in Nat /\ e.timeEnd \in Nat /\ e.timeStart <= e.timeEnd
NotLater(x, y) == x.timeStart <= y.timeStart /\ x.timeEnd <= y.timeEnd

LEMMA LaterStill ==
  ASSUME NEW x, NEW y, NEW z, Timed(x), Timed(y), Timed(z), NotLater(x, y), y.timeEnd <= z.timeStart
  PROVE  NotLater(x, z)
  BY DEF Timed, NotLater

\* later entries are not of earlier times
LEMMA TimesInOrder ==
  ASSUME NEW ns \in Routes, NEW ws, NEW tk, Tabulated(tk, ns, ws), NEW k \in 1 .. Len(ns),
         NEW i \in 1 .. k
  PROVE  tk[i].timeStart <= tk[k].timeStart /\ tk[i].timeEnd <= tk[k].timeEnd
<1> DEFINE Later(j) == tk[i].timeStart <= tk[i + j].timeStart /\ tk[i].timeEnd <= tk[i + j].timeEnd
           S == {j \in Nat : i + j <= Len(ns) => Later(j)}
<1>1. Len(ns) \in Nat
  BY NodesOfRoute
<1>2. \A m \in 1 .. Len(ns) : /\ tk[m].timeStart \in Nat /\ tk[m].timeEnd \in Nat
                              /\ tk[m].timeStart <= tk[m].timeEnd
                              /\ m > 1 => tk[m - 1].timeEnd <= tk[m].timeStart
  BY DEF Tabulated, EntryOf
<1>3. 0 \in S
  BY <1>1, <1>2
<1>4. \A j \in Nat : j \in S => j + 1 \in S
  <2> SUFFICES ASSUME NEW j \in Nat, i + j <= Len(ns) => Later(j), i + (j + 1) <= Len(ns)
               PROVE  Later(j + 1)
    OBVIOUS
  <2> DEFINE m == i + (j + 1)
             q == i + j
  <2>1. m \in 1 .. Len(ns) /\ m - 1 = q /\ q \in 1 .. Len(ns) /\ m > 1 /\ i \in 1 .. Len(ns)
    BY <1>1
  <2>2. tk[i].timeStart <= tk[q].timeStart /\ tk[i].timeEnd <= tk[q].timeEnd
    BY <1>1
  <2> HIDE DEF m, q
  <2>3. /\ tk[m].timeStart \in Nat /\ tk[m].timeEnd \in Nat /\ tk[m].timeStart <= tk[m].timeEnd
        /\ tk[m - 1].timeEnd <= tk[m].timeStart
    BY <1>2, <2>1
  <2>4. /\ tk[q].timeStart \in Nat /\ tk[q].timeEnd \in Nat
        /\ tk[q].timeStart <= tk[q].timeEnd
        /\ tk[i].timeStart \in Nat /\ tk[i].timeEnd \in Nat
    BY <1>2, <2>1
  <2>5. tk[q].timeEnd <= tk[m].timeStart
    BY <2>1, <2>3
  <2>6. Timed(tk[i]) /\ Timed(tk[q]) /\ Timed(tk[m])
    BY <2>3, <2>4, <2>1, <1>2 DEF Timed
  <2>7. NotLater(tk[i], tk[q])
    BY <2>2 DEF NotLater
  <2>8. NotLater(tk[i], tk[m])
    BY <2>5, <2>6, <2>7, LaterStill, Zenon
  <2> QED
    BY <2>8 DEF m, NotLater
<1>5. Nat \subseteq S
  <2> HIDE DEF S
  <2> QED
    BY <1>3, <1>4, Induction
<1>6. k - i \in Nat /\ i + (k - i) = k /\ k <= Len(ns)
  BY <1>1
<1>7. k - i \in S
  BY <1>5, <1>6
<1> HIDE DEF Later
<1>8. Later(k - i)
  BY <1>6, <1>7
<1> QED
  BY <1>6, <1>8 DEF Later

LEMMA RouteNotEmpty == ASSUME NEW ns \in Routes PROVE Len(ns) \in Nat \ {0}
<1>1. PICK k \in 1 .. NumTasks : ns \in [1 .. 2 * k -> Nodes]
  BY DEF Routes
<1>2. 2 * k \in Nat \ {0}
  BY FleetAssumption
<1> QED
  BY <1>1, <1>2

LEMMA MinIs ==
  ASSUME NEW S, S \subseteq Int, NEW m \in S, \A y \in S : m =< y
  PROVE  Min(S) = m
<1>1. \A x \in S : (\A y \in S : x =< y) => x = m
  OBVIOUS
<1> QED
  BY <1>1 DEF Min

LEMMA MaxIs ==
  ASSUME NEW S, S \subseteq Int, NEW m \in S, \A y \in S : m >= y
  PROVE  Max(S) = m
<1>1. \A x \in S : (\A y \in S : x >= y) => x = m
  OBVIOUS
<1> QED
  BY <1>1 DEF Max

\* the span of the entries is from the first to the last
LEMMA SpanIs ==
  ASSUME NEW ns \in Routes, NEW ws, NEW tk, Tabulated(tk, ns, ws)
  PROVE  /\ tk[1].timeStart < IntMax => Span(tk).timeStart = tk[1].timeStart
         /\ Span(tk).timeEnd = tk[Len(ns)].timeEnd
<1> DEFINE n == Len(ns)
           Starts == {IntMax} \cup {tk[i].timeStart : i \in DOMAIN tk}
           Ends == {0} \cup {tk[i].timeEnd : i \in DOMAIN tk}
<1>1. n \in Nat /\ 1 \in 1 .. n /\ n \in 1 .. n /\ DOMAIN tk = 1 .. n
  BY RouteNotEmpty DEF Tabulated
<1>2. \A m \in 1 .. n : tk[m].timeStart \in Nat /\ tk[m].timeEnd \in Nat
  BY DEF Tabulated, EntryOf
<1>3. \A i \in 1 .. n : tk[1].timeStart <= tk[i].timeStart /\ tk[i].timeEnd <= tk[n].timeEnd
  <2> SUFFICES ASSUME NEW i \in 1 .. n
               PROVE  tk[1].timeStart <= tk[i].timeStart /\ tk[i].timeEnd <= tk[n].timeEnd
    OBVIOUS
  <2>1. 1 \in 1 .. i /\ i \in 1 .. n
    BY <1>1
  <2> QED
    BY <1>1, <2>1, TimesInOrder
<1> HIDE DEF n
<1>4. ASSUME tk[1].timeStart < IntMax PROVE Min(Starts) = tk[1].timeStart
  <2>1. tk[1].timeStart \in Starts /\ \A y \in Starts : tk[1].timeStart =< y
    BY <1>1, <1>2, <1>3, <1>4, ExternalAssumption
  <2>2. Starts \subseteq Int
    BY <1>1, <1>2, ExternalAssumption
  <2> HIDE DEF Starts
  <2> QED
    BY <2>1, <2>2, MinIs, Zenon
<1>5. Max(Ends) = tk[n].timeEnd
  <2>1. tk[n].timeEnd \in Ends /\ \A y \in Ends : tk[n].timeEnd >= y
    BY <1>1, <1>2, <1>3
  <2>2. Ends \subseteq Int
    BY <1>1, <1>2
  <2> HIDE DEF Ends
  <2> QED
    BY <2>1, <2>2, MaxIs, Zenon
<1> QED
  BY <1>4, <1>5 DEF Span, n

-----------------------------------------------------------------------------
(* The totals behind each entry are what the truck has then.                *)

LEMMA TotalsAre ==
  ASSUME NEW ns \in Routes, NEW ws, NEW tk, Tabulated(tk, ns, ws), ws[0] = NewWalk,
         \A i \in 0 .. Len(ns) : ws[i] \in WalkState, NEW k \in 1 .. Len(ns)
  PROVE  /\ ResultTask(tk, k).workload = ws[k].currentLoad
         /\ ResultTask(tk, k).volume = ws[k].currentVolume
         /\ ResultTask(tk, k).distance = ws[k].currentDistanceMeters
         /\ ResultTask(tk, k).tasksCount = ws[k].taskTaken
<1> DEFINE n == Len(ns)
<1>1. n \in Nat /\ DOMAIN tk = 1 .. n /\ k \in 0 .. n
  BY NodesOfRoute DEF Tabulated
<1>2. \A i \in 0 .. n : /\ ws[i].currentLoad \in Int /\ ws[i].currentVolume \in Int
                        /\ ws[i].currentDistanceMeters \in Int /\ ws[i].taskTaken \in Int
  BY FieldTypes
<1>3. /\ ws[0].currentLoad = 0 /\ ws[0].currentVolume = 0
      /\ ws[0].currentDistanceMeters = 0 /\ ws[0].taskTaken = 0
  BY DEF NewWalk
<1>4. \A i \in 1 .. n : EntryOf(tk[i], ns[i], ws[i - 1], ws[i])
  BY DEF Tabulated
<1> HIDE DEF n
<1>5. \A i \in 1 .. n : i \in 0 .. n /\ i - 1 \in 0 .. n
  BY <1>1
<1>6. Total([i \in DOMAIN tk |-> tk[i].workloadDiff], k) = ws[k].currentLoad
  <2> DEFINE g == [i \in 0 .. n |-> ws[i].currentLoad]
             c == [i \in DOMAIN tk |-> tk[i].workloadDiff]
  <2>1. \A i \in 0 .. n : g[i] \in Int
    BY <1>2
  <2>2. c = [i \in 1 .. n |-> c[i]] /\ \A i \in 1 .. n : c[i] = g[i] - g[i - 1]
    BY <1>1, <1>4, <1>5 DEF EntryOf
  <2>3. g[0] = 0
    BY <1>1, <1>3
  <2> HIDE DEF c, g
  <2>4. Accounts(c, g, n)
    BY <1>1, <2>1, <2>2, <2>3 DEF Accounts
  <2>5. Total(c, k) = g[k]
    BY <1>1, <2>4, TotalIs, Zenon
  <2> QED
    BY <1>1, <2>5 DEF c, g
<1>7. Total([i \in DOMAIN tk |-> tk[i].volumeDiff], k) = ws[k].currentVolume
  <2> DEFINE g == [i \in 0 .. n |-> ws[i].currentVolume]
             c == [i \in DOMAIN tk |-> tk[i].volumeDiff]
  <2>1. \A i \in 0 .. n : g[i] \in Int
    BY <1>2
  <2>2. c = [i \in 1 .. n |-> c[i]] /\ \A i \in 1 .. n : c[i] = g[i] - g[i - 1]
    BY <1>1, <1>4, <1>5 DEF EntryOf
  <2>3. g[0] = 0
    BY <1>1, <1>3
  <2> HIDE DEF c, g
  <2>4. Accounts(c, g, n)
    BY <1>1, <2>1, <2>2, <2>3 DEF Accounts
  <2>5. Total(c, k) = g[k]
    BY <1>1, <2>4, TotalIs, Zenon
  <2> QED
    BY <1>1, <2>5 DEF c, g
<1>8. Total([i \in DOMAIN tk |-> tk[i].distanceDiff], k) = ws[k].currentDistanceMeters
  <2> DEFINE g == [i \in 0 .. n |-> ws[i].currentDistanceMeters]
             c == [i \in DOMAIN tk |-> tk[i].distanceDiff]
  <2>1. \A i \in 0 .. n : g[i] \in Int
    BY <1>2
  <2>2. c = [i \in 1 .. n |-> c[i]] /\ \A i \in 1 .. n : c[i] = g[i] - g[i - 1]
    BY <1>1, <1>4, <1>5 DEF EntryOf
  <2>3. g[0] = 0
    BY <1>1, <1>3
  <2> HIDE DEF c, g
  <2>4. Accounts(c, g, n)
    BY <1>1, <2>1, <2>2, <2>3 DEF Accounts
  <2>5. Total(c, k) = g[k]
    BY <1>1, <2>4, TotalIs, Zenon
  <2> QED
    BY <1>1, <2>5 DEF c, g
<1>9. Total([i \in DOMAIN tk |-> tk[i].tasksCountDiff], k) = ws[k].taskTaken
  <2> DEFINE g == [i \in 0 .. n |-> ws[i].taskTaken]
             c == [i \in DOMAIN tk |-> tk[i].tasksCountDiff]
  <2>1. \A i \in 0 .. n : g[i] \in Int
    BY <1>2
  <2>2. c = [i \in 1 .. n |-> c[i]] /\ \A i \in 1 .. n : c[i] = g[i] - g[i - 1]
    BY <1>1, <1>4, <1>5 DEF EntryOf
  <2>3. g[0] = 0
    BY <1>1, <1>3
  <2> HIDE DEF c, g
  <2>4. Accounts(c, g, n)
    BY <1>1, <2>1, <2>2, <2>3 DEF Accounts
  <2>5. Total(c, k) = g[k]
    BY <1>1, <2>4, TotalIs, Zenon
  <2> QED
    BY <1>1, <2>5 DEF c, g
<1> QED
  BY <1>6, <1>7, <1>8, <1>9 DEF ResultTask

-----------------------------------------------------------------------------
(* What a trip tells of its route.                                          *)

\* s is a list of n elements
Listed(s, n) == n \in Nat /\ s = [i \in 1 .. n |-> s[i]]

LEMMA ListedLen == ASSUME NEW s, NEW n, Listed(s, n) PROVE DOMAIN s = 1 .. n /\ Len(s) = n
<1> DEFINE S == {s[i] : i \in 1 .. n}
<1>1. n \in Nat /\ s \in [1 .. n -> S]
  BY DEF Listed
<1> HIDE DEF S
<1> QED
  BY <1>1

\* t is that list and one more element e
OneMore(t, s, n, e) == Listed(t, n + 1) /\ t[n + 1] = e /\ \A i \in 1 .. n : t[i] = s[i]

LEMMA ListedMore ==
  ASSUME NEW s, NEW n, Listed(s, n), NEW e, NEW t, t = Append(s, e)
  PROVE  OneMore(t, s, n, e)
<1> DEFINE S == {s[i] : i \in 1 .. n} \cup {e}
<1>1. n \in Nat /\ s \in [1 .. n -> S] /\ e \in S
  BY DEF Listed
<1> HIDE DEF S
<1>2. s \in Seq(S) /\ Len(s) = n
  BY <1>1
<1>3. /\ t \in Seq(S) /\ Len(t) = n + 1
      /\ t[n + 1] = e /\ \A i \in 1 .. n : t[i] = s[i]
  BY <1>1, <1>2
<1>4. t \in [1 .. n + 1 -> S]
  <2>1. \A q \in Seq(S) : q \in [1 .. Len(q) -> S]
    OBVIOUS
  <2> QED
    BY <1>3, <2>1
<1> QED
  BY <1>1, <1>3, <1>4 DEF Listed, OneMore

\* the k-th entry of a trip is of the k-th node, and has what is on board then
EntryTells(e, ns, k) ==
    /\ e.id = ExternalTask[TaskOf(ns[k])]
    /\ e.action = IF IsTaskStart(ns[k]) THEN "Load" ELSE "Unload"
    /\ e.active_tasks = Cardinality(Aboard(ns, k))
    /\ e.workload = SumFunctionOnSet(CapacityOf, Aboard(ns, k))
    /\ e.volume = SumFunctionOnSet(VolumeOf, Aboard(ns, k))

\* the trip has the vehicle, the nodes, the span and the length of the route r
Tells(tr, r) ==
    LET n == Len(r.nodes)
    IN  /\ tr.vehicle = ExternalVehicle[r.vehicleId]
        /\ Listed(tr.tasks, n)
        /\ \A k \in 1 .. n : EntryTells(tr.tasks[k], r.nodes, k)
        /\ tr.tasks[1].ts < IntMax => tr.ts = tr.tasks[1].ts
        /\ tr.te = tr.tasks[n].te
        /\ tr.length = RouteWithStat(r).length
        /\ Listed(tr.polyline, n) /\ \A k \in 1 .. n : tr.polyline[k] = r.nodes[k]

TripOf(r) == Trip(ResultRoute(RouteWithStat(r)))

LEMMA TripTells ==
  ASSUME NEW r \in RouteType, CheckEvent(r.vehicleId, r.nodes) = NoEvent
  PROVE  Tells(TripOf(r), r)
<1> DEFINE v == r.vehicleId
           ns == r.nodes
           n == Len(ns)
           ws == Trucks(v, ns)
           rt == RouteWithStat(r)
           tk == rt.tasks
           rr == ResultRoute(rt)
           tr == TripOf(r)
<1>1. v \in VehicleIds /\ ns \in Routes
  BY DEF RouteType
<1>2. n \in Nat /\ 1 \in 1 .. n /\ n \in 1 .. n
  BY <1>1, RouteNotEmpty
<1>3. Tabulated(tk, ns, ws)
  BY TasksTabulated
<1>4. /\ ws[0] = NewWalk /\ \A k \in 0 .. n : ws[k] \in WalkState
      /\ ws[n] = Walk(v, ns).walk
      /\ \A k \in 0 .. n : Carries(ws[k], Aboard(ns, k))
  BY <1>1, GoodWalk
<1>5. /\ rt.vehicleId = v /\ rt.length = CheckStat(v, ns).distance
      /\ rt.timeStart = Span(tk).timeStart /\ rt.timeEnd = Span(tk).timeEnd
  BY DEF RouteWithStat
<1>6. CheckStat(v, ns).distance = ws[n].currentDistanceMeters
  BY <1>4 DEF CheckStat, StatOfWalk, TotalDistance
<1> HIDE DEF ws, rt, v, ns, n
<1>7. DOMAIN tk = 1 .. n
  BY <1>3 DEF Tabulated, n
<1>8. tk # << >>
  BY <1>2, <1>7
<1>9. /\ rr.vehicle = ExternalVehicle[v]
      /\ rr.startTime = Span(tk).timeStart /\ rr.stopTime = Span(tk).timeEnd
      /\ rr.distance = ResultTask(tk, Len(tk)).distance
      /\ rr.polyline = [i \in 1 .. n |-> tk[i].nodeId]
      /\ rr.tasks = [k \in 1 .. n |-> ResultTask(tk, k)]
  BY <1>5, <1>7, <1>8 DEF ResultRoute, RouteParams
<1>10. tr = Trip(rr)
  BY DEF TripOf, rt
<1> HIDE DEF rr, tr, tk
<1>11. /\ tr.vehicle = rr.vehicle /\ tr.ts = rr.startTime /\ tr.te = rr.stopTime
       /\ tr.length = rr.distance /\ tr.polyline = rr.polyline
       /\ DOMAIN tr.tasks = 1 .. n /\ tr.tasks = [k \in 1 .. n |-> tr.tasks[k]]
       /\ \A k \in 1 .. n : /\ tr.tasks[k].id = ResultTask(tk, k).id
                            /\ tr.tasks[k].action = ResultTask(tk, k).action
                            /\ tr.tasks[k].ts = ResultTask(tk, k).startTime
                            /\ tr.tasks[k].te = ResultTask(tk, k).stopTime
                            /\ tr.tasks[k].workload = ResultTask(tk, k).workload
                            /\ tr.tasks[k].volume = ResultTask(tk, k).volume
                            /\ tr.tasks[k].active_tasks = ResultTask(tk, k).tasksCount
  BY <1>9, <1>10 DEF Trip
<1>12. Len(tk) = n
  <2>1. tk = [i \in 1 .. n |-> tk[i]]
    BY <1>7 DEF tk, rt, RouteWithStat
  <2> QED
    BY <1>2, <2>1, ListedLen DEF Listed
<1>13. \A k \in 1 .. n : /\ ResultTask(tk, k).id = ExternalTask[ns[k] \div 2]
                         /\ ResultTask(tk, k).action = IF ns[k] % 2 = 0 THEN "Load" ELSE "Unload"
                         /\ ResultTask(tk, k).startTime = tk[k].timeStart
                         /\ ResultTask(tk, k).stopTime = tk[k].timeEnd
                         /\ tk[k].nodeId = ns[k]
  BY <1>3 DEF ResultTask, Tabulated, EntryOf, n
<1>14. \A k \in 1 .. n : /\ ResultTask(tk, k).workload = ws[k].currentLoad
                         /\ ResultTask(tk, k).volume = ws[k].currentVolume
                         /\ ResultTask(tk, k).distance = ws[k].currentDistanceMeters
                         /\ ResultTask(tk, k).tasksCount = ws[k].taskTaken
  BY <1>1, <1>3, <1>4, TotalsAre DEF n
<1>15. \A k \in 1 .. n : EntryTells(tr.tasks[k], ns, k)
  <2> SUFFICES ASSUME NEW k \in 1 .. n PROVE EntryTells(tr.tasks[k], ns, k)
    OBVIOUS
  <2>1. Carries(ws[k], Aboard(ns, k))
    BY <1>2, <1>4
  <2> QED
    BY <1>11, <1>13, <1>14, <2>1 DEF EntryTells, Carries, TaskOf, IsTaskStart
<1>16. /\ tk[1].timeStart < IntMax => Span(tk).timeStart = tk[1].timeStart
       /\ Span(tk).timeEnd = tk[n].timeEnd
  BY <1>1, <1>3, SpanIs DEF n
<1>17. /\ tr.tasks[1].ts < IntMax => tr.ts = tr.tasks[1].ts
       /\ tr.te = tr.tasks[n].te
  BY <1>2, <1>9, <1>11, <1>13, <1>16
<1>18. tr.length = rt.length
  BY <1>2, <1>5, <1>6, <1>9, <1>11, <1>12, <1>14
<1>19. tr.vehicle = ExternalVehicle[v] /\ Listed(tr.tasks, n)
  BY <1>2, <1>9, <1>11 DEF Listed
<1>20. Listed(tr.polyline, n) /\ \A k \in 1 .. n : tr.polyline[k] = ns[k]
  BY <1>2, <1>9, <1>11, <1>13 DEF Listed
<1> QED
  BY <1>15, <1>17, <1>18, <1>19, <1>20 DEF Tells, tr, ns, n, v, rt

-----------------------------------------------------------------------------
(* The invariant of the report.                                             *)

\* sel lists the solved ones of the routes rs before the m-th
Picked(sel, rs, m) ==
    /\ \A k \in 1 .. Len(sel) : sel[k] \in SolvedIn(rs) /\ sel[k] < m
    /\ \A k, l \in 1 .. Len(sel) : sel[k] = sel[l] => k = l
    /\ \A i \in SolvedIn(rs) : i < m => \E k \in 1 .. Len(sel) : sel[k] = i

\* and rts has their statistics
Stating(sel, rts, rs, m) ==
    /\ Listed(sel, Len(sel)) /\ Picked(sel, rs, m)
    /\ Listed(rts, Len(sel))
    /\ \A k \in 1 .. Len(sel) : rts[k] = RouteWithStat(rs[sel[k]])
Stated(rts, rs, m) == \E sel : Stating(sel, rts, rs, m)

\* res has the results of the first n of them, and trs their trips
Assembled(res, rts, n) == Listed(res, n) /\ \A k \in 1 .. n : res[k] = ResultRoute(rts[k])
Responded(trs, res, n) == Listed(trs, n) /\ \A k \in 1 .. n : trs[k] = Trip(res[k])

Past == Len(source.routes) + 1

InSearch   == pc = "search" /\ why = "" /\ next = 1 /\ routes = << >> /\ results = << >> /\ trips = << >>
InStats    == /\ pc = "stats" /\ why = "" /\ SolvedIn(source.routes) # {}
              /\ next \in 1 .. Past /\ Stated(routes, source.routes, next) /\ results = << >> /\ trips = << >>
InAssemble == /\ pc = "assemble" /\ why = "" /\ SolvedIn(source.routes) # {} /\ Stated(routes, source.routes, Past)
              /\ next \in 1 .. Len(routes) + 1 /\ Assembled(results, routes, next - 1) /\ trips = << >>
InRespond  == /\ pc = "respond" /\ why = "" /\ SolvedIn(source.routes) # {} /\ Stated(routes, source.routes, Past)
              /\ Assembled(results, routes, Len(routes))
              /\ next \in 1 .. Len(routes) + 1 /\ Responded(trips, results, next - 1)
IsDone     == /\ pc = "done" /\ why = "" /\ SolvedIn(source.routes) # {} /\ Stated(routes, source.routes, Past)
              /\ Assembled(results, routes, Len(routes)) /\ Responded(trips, results, Len(routes)) /\ next = 1
IsThrown   == /\ pc = "thrown" /\ trips = << >>
              /\ \/ why = "No solution found!" /\ SolvedIn(source.routes) = {}
                 \/ why = "Error during table calculation"

ReportInv ==
    /\ Inv
    /\ InSearch \/ InStats \/ InAssemble \/ InRespond \/ IsDone \/ IsThrown

LEMMA ListedNone == Listed(<< >>, 0)
  BY DEF Listed

LEMMA SourceLen ==
  ASSUME Inv
  PROVE  /\ Len(source.routes) \in 1 .. NumVehicles /\ DOMAIN source.routes = 1 .. Len(source.routes)
         /\ \A i \in DOMAIN source.routes : source.routes[i] \in RouteType
<1>1. PICK n \in 1 .. NumVehicles : source.routes \in [1 .. n -> RouteType]
  BY DEF Inv, SourceInv, Deal
<1>2. n \in Nat
  BY <1>1, FleetAssumption
<1> QED
  BY <1>1, <1>2

\* a solved route that the loop comes to has all its statistics
LEMMA SolvedHasStats ==
  ASSUME Inv, NEW i \in SolvedIn(source.routes), NEW r, r = source.routes[i]
  PROVE  /\ r \in RouteType /\ CheckEvent(r.vehicleId, r.nodes) = NoEvent
         /\ Len(StatsOf(r)) = 2 * Len(r.nodes)
<1>1. r \in RouteType
  BY SourceLen DEF SolvedIn
<1>2. CheckEvent(r.vehicleId, r.nodes) = NoEvent
  BY DEF Inv, SourceInv, Drivable, EventOf
<1> QED
  BY <1>1, <1>2, TasksTabulated

LEMMA InitReport == ReportInit => ReportInv
  BY InitInv DEF ReportInit, ReportInv, InSearch

LEMMA StatedNone ==
  ASSUME NEW rs, DOMAIN rs \subseteq Nat \ {0}
  PROVE  Stated(<< >>, rs, 1)
<1> DEFINE sel == << >>
<1>1. Len(sel) = 0 /\ Listed(sel, Len(sel))
  BY ListedNone
<1>2. Picked(sel, rs, 1)
  BY <1>1 DEF Picked, SolvedIn
<1>3. Stating(sel, << >>, rs, 1)
  BY <1>1, <1>2 DEF Stating
<1> QED
  BY <1>3 DEF Stated

LEMMA StatedMore ==
  ASSUME NEW rs, DOMAIN rs \subseteq Nat, NEW m \in DOMAIN rs, NEW rts, Stated(rts, rs, m),
         NEW more, more = IF rs[m].solved THEN Append(rts, RouteWithStat(rs[m])) ELSE rts
  PROVE  Stated(more, rs, m + 1)
<1>1. PICK sel : Stating(sel, rts, rs, m)
  BY DEF Stated
<1> DEFINE n == Len(sel)
<1>2. /\ n \in Nat /\ Listed(sel, n) /\ Picked(sel, rs, m) /\ Listed(rts, n)
      /\ \A k \in 1 .. n : rts[k] = RouteWithStat(rs[sel[k]])
  BY <1>1 DEF Stating, Listed
<1>3. \A i \in SolvedIn(rs) : i \in Nat /\ i \in DOMAIN rs /\ rs[i].solved
  BY DEF SolvedIn
<1>4. CASE ~rs[m].solved
  <2>1. Picked(sel, rs, m + 1)
    BY <1>2, <1>3, <1>4 DEF Picked
  <2>2. Stating(sel, rts, rs, m + 1)
    BY <1>2, <2>1 DEF Stating
  <2> QED
    BY <1>4, <2>2 DEF Stated
<1>5. CASE rs[m].solved
  <2> DEFINE e == RouteWithStat(rs[m])
             new == Append(sel, m)
  <2>1. more = Append(rts, e)
    BY <1>5
  <2>1a. new = Append(sel, m)
    OBVIOUS
  <2> HIDE DEF n, e, new
  <2>2. OneMore(more, rts, n, e)
    BY <1>2, <2>1, ListedMore, Zenon
  <2>3. OneMore(new, sel, n, m)
    BY <1>2, <2>1a, ListedMore, Zenon
  <2>3a. /\ Listed(more, n + 1) /\ more[n + 1] = e /\ \A k \in 1 .. n : more[k] = rts[k]
        /\ Listed(new, n + 1) /\ new[n + 1] = m /\ \A k \in 1 .. n : new[k] = sel[k]
    BY <2>2, <2>3 DEF OneMore
  <2>4. Len(new) = n + 1
    BY <2>3a, ListedLen
  <2>5. \A k \in 1 .. n + 1 : k \in 1 .. n \/ k = n + 1
    BY <1>2
  <2>6. m \in SolvedIn(rs) /\ m \in Nat
    BY <1>5 DEF SolvedIn
  <2>7. \A k \in 1 .. n : sel[k] \in SolvedIn(rs) /\ sel[k] < m
    BY <1>2 DEF Picked, n
  <2>8. \A k \in 1 .. n + 1 : new[k] \in SolvedIn(rs) /\ new[k] < m + 1
    BY <1>3, <2>3a, <2>5, <2>6, <2>7
  <2>9. \A k, l \in 1 .. n + 1 : new[k] = new[l] => k = l
    <3>1. \A k \in 1 .. n : new[k] # m
      BY <1>3, <2>3a, <2>6, <2>7
    <3>2. \A k, l \in 1 .. n : new[k] = new[l] => k = l
      BY <1>2, <2>3a DEF Picked, n
    <3> QED
      BY <2>3a, <2>5, <3>1, <3>2
  <2>10. \A i \in SolvedIn(rs) : i < m + 1 => \E k \in 1 .. n + 1 : new[k] = i
    <3> SUFFICES ASSUME NEW i \in SolvedIn(rs), i < m + 1 PROVE \E k \in 1 .. n + 1 : new[k] = i
      OBVIOUS
    <3>1. CASE i = m
      <4>1. n + 1 \in 1 .. n + 1
        BY <1>2
      <4> QED
        BY <2>3a, <3>1, <4>1
    <3>2. CASE i # m
      <4>1. i < m
        BY <1>3, <2>6, <3>2
      <4>2. PICK k \in 1 .. n : sel[k] = i
        BY <1>2, <4>1 DEF Picked, n
      <4>3. k \in 1 .. n + 1
        BY <1>2
      <4> QED
        BY <2>3a, <4>2, <4>3
    <3> QED
      BY <3>1, <3>2
  <2>11. Picked(new, rs, m + 1)
    BY <2>4, <2>8, <2>9, <2>10 DEF Picked
  <2>12. \A k \in 1 .. n + 1 : more[k] = RouteWithStat(rs[new[k]])
    BY <1>2, <2>3a, <2>5 DEF e
  <2>13. Stating(new, more, rs, m + 1)
    BY <2>3a, <2>4, <2>11, <2>12 DEF Stating
  <2> QED
    BY <2>13 DEF Stated
<1> QED
  BY <1>4, <1>5

LEMMA AssembledNone == ASSUME NEW rts PROVE Assembled(<< >>, rts, 0)
  BY ListedNone DEF Assembled

LEMMA AssembledMore ==
  ASSUME NEW res, NEW rts, NEW n, Assembled(res, rts, n)
  PROVE  Assembled(Append(res, ResultRoute(rts[n + 1])), rts, n + 1)
<1> DEFINE e == ResultRoute(rts[n + 1])
           t == Append(res, e)
<1>0. t = Append(res, e)
  OBVIOUS
<1>1. Listed(res, n) /\ n \in Nat /\ \A k \in 1 .. n : res[k] = ResultRoute(rts[k])
  BY DEF Assembled, Listed
<1> HIDE DEF e, t
<1>2. OneMore(t, res, n, e)
  BY <1>0, <1>1, ListedMore, Zenon
<1>3. \A k \in 1 .. n + 1 : k \in 1 .. n \/ k = n + 1
  BY <1>1
<1> QED
  BY <1>1, <1>2, <1>3 DEF Assembled, OneMore, e, t

LEMMA RespondedNone == ASSUME NEW res PROVE Responded(<< >>, res, 0)
  BY ListedNone DEF Responded

LEMMA RespondedMore ==
  ASSUME NEW trs, NEW res, NEW n, Responded(trs, res, n)
  PROVE  Responded(Append(trs, Trip(res[n + 1])), res, n + 1)
<1> DEFINE e == Trip(res[n + 1])
           t == Append(trs, e)
<1>0. t = Append(trs, e)
  OBVIOUS
<1>1. Listed(trs, n) /\ n \in Nat /\ \A k \in 1 .. n : trs[k] = Trip(res[k])
  BY DEF Responded, Listed
<1> HIDE DEF e, t
<1>2. OneMore(t, trs, n, e)
  BY <1>0, <1>1, ListedMore, Zenon
<1>3. \A k \in 1 .. n + 1 : k \in 1 .. n \/ k = n + 1
  BY <1>1
<1> QED
  BY <1>1, <1>2, <1>3 DEF Responded, OneMore, e, t
LEMMA NoneYet == 1 - 1 = 0
  OBVIOUS

\* the index of a loop over n elements, before its end and at its end
LEMMA Within ==
  ASSUME NEW n \in Nat, NEW i \in 1 .. n + 1, i <= n
  PROVE  i \in 1 .. n /\ i \in Nat /\ (i - 1) + 1 = i /\ (i + 1) - 1 = i /\ i + 1 \in 1 .. n + 1
  OBVIOUS

LEMMA AtEnd ==
  ASSUME NEW n \in Nat, NEW i \in 1 .. n + 1, i > n
  PROVE  i = n + 1 /\ i - 1 = n /\ 1 \in 1 .. n + 1
  OBVIOUS

LEMMA NextReport == ReportInv /\ [ReportNext]_reportVars => ReportInv'
<1> SUFFICES ASSUME ReportInv, [ReportNext]_reportVars PROVE ReportInv'
  OBVIOUS
<1>0. Inv /\ (InSearch \/ InStats \/ InAssemble \/ InRespond \/ IsDone \/ IsThrown)
  BY DEF ReportInv
<1> DEFINE rs == source.routes
<1>1. /\ Len(rs) \in Nat \ {0} /\ DOMAIN rs = 1 .. Len(rs) /\ Past = Len(rs) + 1
      /\ DOMAIN rs \subseteq Nat \ {0}
  BY <1>0, SourceLen, FleetAssumption DEF Past
<1>2. ASSUME UNCHANGED vars PROVE Inv' /\ rs' = rs /\ Past' = Past
  <2>1. Inv'
    BY <1>0, <1>2, NextInv
  <2> QED
    BY <1>2, <2>1 DEF vars, Past
<1>3. ASSUME Stated(routes, rs, Past) PROVE Len(routes) \in Nat
  <2>1. PICK sel : Stating(sel, routes, rs, Past)
    BY <1>3 DEF Stated
  <2>2. Listed(routes, Len(sel))
    BY <2>1 DEF Stating
  <2>3. Len(sel) \in Nat
    BY <2>2 DEF Listed
  <2> QED
    BY <2>2, <2>3, ListedLen
<1>4. CASE Improve
  <2>1. InSearch
    BY <1>0, <1>4 DEF Improve, InSearch, InStats, InAssemble, InRespond, IsDone, IsThrown
  <2>2. Inv'
    BY <1>0, <1>4, NextInv DEF Improve
  <2>3. InSearch'
    BY <1>4, <2>1 DEF Improve, InSearch
  <2> QED
    BY <2>2, <2>3 DEF ReportInv
<1>5. CASE TakeSolution
  <2>1. InSearch
    BY <1>0, <1>5 DEF TakeSolution, InSearch, InStats, InAssemble, InRespond, IsDone, IsThrown
  <2>2. UNCHANGED <<vars, next, routes, results, trips>>
    BY <1>5 DEF TakeSolution, Throw
  <2>3. Inv' /\ rs' = rs /\ Past' = Past
    BY <1>2, <2>2
  <2>4. CASE AnySolved
    <3>1. pc' = "stats" /\ why' = why
      BY <1>5, <2>4 DEF TakeSolution
    <3>2. SolvedIn(rs) # {}
      BY <2>4 DEF AnySolved, SolvedIn
    <3>3. Stated(<< >>, rs, 1)
      BY <1>1, StatedNone
    <3>4. 1 \in 1 .. Past
      BY <1>1
    <3>5. next' = 1 /\ routes' = << >> /\ results' = << >> /\ trips' = << >> /\ why' = ""
      BY <2>1, <2>2, <3>1 DEF InSearch
    <3>6. InStats'
      BY <2>3, <3>1, <3>2, <3>3, <3>4, <3>5 DEF InStats
    <3> QED
      BY <2>3, <3>6 DEF ReportInv
  <2>5. CASE ~AnySolved
    <3>1. pc' = "thrown" /\ why' = "No solution found!"
      BY <1>5, <2>5 DEF TakeSolution, Throw
    <3>2. SolvedIn(rs) = {}
      BY <2>5 DEF AnySolved, SolvedIn
    <3>3. IsThrown'
      BY <2>1, <2>2, <2>3, <3>1, <3>2 DEF InSearch, IsThrown
    <3> QED
      BY <2>3, <3>3 DEF ReportInv
  <2> QED
    BY <2>4, <2>5
<1>6. CASE ResultStats
  <2> DEFINE r == rs[next]
  <2>1. InStats
    BY <1>0, <1>6 DEF ResultStats, InSearch, InStats, InAssemble, InRespond, IsDone, IsThrown
  <2>2. next \in DOMAIN rs /\ next \in Nat /\ next + 1 \in 1 .. Past
    <3>1. next \in 1 .. Len(rs) + 1 /\ next <= Len(rs) /\ Len(rs) \in Nat
      BY <1>1, <1>6, <2>1 DEF ResultStats, InStats
    <3> HIDE DEF rs
    <3> QED
      BY <1>1, <3>1, Within
  <2>3. ~(r.solved /\ Len(StatsOf(r)) # 2 * Len(r.nodes))
    <3>1. r.solved => next \in SolvedIn(rs)
      BY <2>2 DEF SolvedIn
    <3> QED
      BY <1>0, <3>1, SolvedHasStats
  <2>4. /\ routes' = IF r.solved THEN Append(routes, RouteWithStat(r)) ELSE routes
        /\ next' = next + 1 /\ UNCHANGED <<vars, pc, why, results, trips>>
    BY <1>6, <2>3 DEF ResultStats
  <2>5. Inv' /\ rs' = rs /\ Past' = Past
    BY <1>2, <2>4
  <2>6. Stated(routes', rs, next + 1)
    <3>1. Stated(routes, rs, next) /\ DOMAIN rs \subseteq Nat
      BY <1>1, <2>1 DEF InStats
    <3> HIDE DEF rs
    <3> QED
      BY <2>2, <2>4, <3>1, StatedMore
  <2>8. InStats'
    BY <2>1, <2>2, <2>4, <2>5, <2>6 DEF InStats
  <2> QED
    BY <2>5, <2>8 DEF ReportInv
<1>7. CASE Assemble
  <2>1. InAssemble
    BY <1>0, <1>7 DEF Assemble, InSearch, InStats, InAssemble, InRespond, IsDone, IsThrown
  <2>2. UNCHANGED <<vars, routes, trips>>
    BY <1>7 DEF Assemble, Throw
  <2>3. Inv' /\ rs' = rs /\ Past' = Past
    BY <1>2, <2>2
  <2>4. CASE Throw("Error during table calculation")
    <3>1. IsThrown'
      BY <2>1, <2>2, <2>4 DEF Throw, InAssemble, IsThrown
    <3> QED
      BY <2>3, <3>1 DEF ReportInv
  <2>5. CASE /\ results' = Append(results, ResultRoute(routes[next]))
             /\ next' = next + 1
             /\ UNCHANGED <<vars, pc, why, routes, trips>>
    <3>1. Len(routes) \in Nat
      BY <1>3, <2>1 DEF InAssemble
    <3>2. next \in Nat /\ next <= Len(routes) /\ (next - 1) + 1 = next /\ next + 1 \in 1 .. Len(routes) + 1
          /\ (next + 1) - 1 = next
      <4>1. next \in 1 .. Len(routes) + 1 /\ next <= Len(routes)
        BY <1>7, <2>1 DEF Assemble, InAssemble
      <4> QED
        BY <3>1, <4>1, Within
    <3>3. Assembled(results, routes, next - 1)
      BY <2>1 DEF InAssemble
    <3>4. Assembled(results', routes, next)
      BY <2>5, <3>2, <3>3, AssembledMore
    <3>5. InAssemble'
      BY <2>1, <2>3, <2>5, <3>2, <3>4 DEF InAssemble
    <3> QED
      BY <2>3, <3>5 DEF ReportInv
  <2> QED
    BY <1>7, <2>4, <2>5 DEF Assemble
<1>8. CASE Respond
  <2>1. InRespond
    BY <1>0, <1>8 DEF Respond, InSearch, InStats, InAssemble, InRespond, IsDone, IsThrown
  <2>2. trips' = Append(trips, Trip(results[next])) /\ next' = next + 1
        /\ UNCHANGED <<vars, pc, why, routes, results>>
    BY <1>8 DEF Respond
  <2>3. Inv' /\ rs' = rs /\ Past' = Past
    BY <1>2, <2>2
  <2>4. Len(routes) \in Nat
    BY <1>3, <2>1 DEF InRespond
  <2>5. Len(results) = Len(routes)
    BY <2>1, ListedLen DEF InRespond, Assembled
  <2>6. next \in Nat /\ next <= Len(routes) /\ (next - 1) + 1 = next /\ next + 1 \in 1 .. Len(routes) + 1
        /\ (next + 1) - 1 = next
    <3>1. next \in 1 .. Len(routes) + 1 /\ next <= Len(routes)
      BY <1>8, <2>1, <2>5 DEF Respond, InRespond
    <3> QED
      BY <2>4, <3>1, Within
  <2>7. Responded(trips, results, next - 1)
    BY <2>1 DEF InRespond
  <2>8. Responded(trips', results, next)
    BY <2>2, <2>6, <2>7, RespondedMore
  <2>9. InRespond'
    BY <2>1, <2>2, <2>3, <2>6, <2>8 DEF InRespond
  <2> QED
    BY <2>3, <2>9 DEF ReportInv
<1>9. CASE NextLoop
  <2>1. next' = 1 /\ UNCHANGED <<vars, why, routes, results, trips>>
    BY <1>9 DEF NextLoop
  <2>2. Inv' /\ rs' = rs /\ Past' = Past
    BY <1>2, <2>1
  <2>3. CASE pc = "stats" /\ next > Len(source.routes) /\ pc' = "assemble"
    <3>1. InStats
      BY <1>0, <2>3 DEF InSearch, InStats, InAssemble, InRespond, IsDone, IsThrown
    <3>2. next = Past
      <4>1. next \in 1 .. Len(rs) + 1 /\ next > Len(rs) /\ Len(rs) \in Nat
        BY <1>1, <2>3, <3>1 DEF InStats
      <4> HIDE DEF rs
      <4> QED
        BY <1>1, <4>1, AtEnd
    <3>3. Stated(routes, rs, Past)
      BY <3>1, <3>2 DEF InStats
    <3>4. 1 \in 1 .. Len(routes) + 1
      BY <1>3, <3>3
    <3>5. Assembled(results, routes, 1 - 1)
      BY <3>1, AssembledNone, NoneYet DEF InStats
    <3>6. InAssemble'
      BY <2>1, <2>2, <2>3, <3>1, <3>3, <3>4, <3>5 DEF InStats, InAssemble
    <3> QED
      BY <2>2, <3>6 DEF ReportInv
  <2>4. CASE pc = "assemble" /\ next > Len(routes) /\ pc' = "respond"
    <3>1. InAssemble
      BY <1>0, <2>4 DEF InSearch, InStats, InAssemble, InRespond, IsDone, IsThrown
    <3>2. Len(routes) \in Nat
      BY <1>3, <3>1 DEF InAssemble
    <3>3. next - 1 = Len(routes) /\ 1 \in 1 .. Len(routes) + 1
      <4>1. next \in 1 .. Len(routes) + 1 /\ next > Len(routes)
        BY <2>4, <3>1 DEF InAssemble
      <4> QED
        BY <3>2, <4>1, AtEnd
    <3>4. Assembled(results, routes, Len(routes))
      BY <3>1, <3>3 DEF InAssemble
    <3>5. Responded(trips, results, 1 - 1)
      BY <3>1, RespondedNone, NoneYet DEF InAssemble
    <3>6. InRespond'
      BY <2>1, <2>2, <2>4, <3>1, <3>3, <3>4, <3>5 DEF InAssemble, InRespond
    <3> QED
      BY <2>2, <3>6 DEF ReportInv
  <2>5. CASE pc = "respond" /\ next > Len(results) /\ pc' = "done"
    <3>1. InRespond
      BY <1>0, <2>5 DEF InSearch, InStats, InAssemble, InRespond, IsDone, IsThrown
    <3>2. Len(routes) \in Nat
      BY <1>3, <3>1 DEF InRespond
    <3>3. Len(results) = Len(routes)
      BY <3>1, ListedLen DEF InRespond, Assembled
    <3>4. next - 1 = Len(routes)
      <4>1. next \in 1 .. Len(routes) + 1 /\ next > Len(routes)
        BY <2>5, <3>1, <3>3 DEF InRespond
      <4> QED
        BY <3>2, <4>1, AtEnd
    <3>5. Responded(trips, results, Len(routes))
      BY <3>1, <3>4 DEF InRespond
    <3>6. IsDone'
      BY <2>1, <2>2, <2>5, <3>1, <3>5 DEF InRespond, IsDone
    <3> QED
      BY <2>2, <3>6 DEF ReportInv
  <2> QED
    BY <1>9, <2>3, <2>4, <2>5 DEF NextLoop
<1>10. CASE UNCHANGED reportVars
  <2>1. UNCHANGED <<vars, pc, why, next, routes, results, trips>>
    BY <1>10 DEF reportVars
  <2>2. Inv' /\ rs' = rs /\ Past' = Past
    BY <1>2, <2>1
  <2> QED
    BY <1>0, <2>1, <2>2
    DEF ReportInv, InSearch, InStats, InAssemble, InRespond, IsDone, IsThrown
<1> QED
  BY <1>4, <1>5, <1>6, <1>7, <1>8, <1>9, <1>10 DEF ReportNext

-----------------------------------------------------------------------------
(* The trips of an answer.                                                  *)

\* trip i is of the route sel[i] of the solution
Tripped(sel) ==
    /\ \A k \in 1 .. Len(sel) : sel[k] \in SolvedIn(source.routes)
    /\ \A k, l \in 1 .. Len(sel) : sel[k] = sel[l] => k = l
    /\ DOMAIN trips \subseteq 1 .. Len(sel) /\ DOMAIN trips \subseteq 1 .. Len(routes)
    /\ \A k \in DOMAIN trips : /\ Tells(trips[k], source.routes[sel[k]])
                               /\ routes[k] = RouteWithStat(source.routes[sel[k]])

LEMMA TripsAre == ReportInv => \E sel : Tripped(sel)
<1> SUFFICES ASSUME ReportInv PROVE \E sel : Tripped(sel)
  OBVIOUS
<1>0. Inv
  BY DEF ReportInv
<1>1. CASE InSearch \/ InStats \/ InAssemble \/ IsThrown
  <2> DEFINE sel == << >>
  <2>1. trips = << >>
    BY <1>1 DEF InSearch, InStats, InAssemble, IsThrown
  <2>2. DOMAIN trips = {} /\ Len(sel) = 0
    BY <2>1
  <2>3. Tripped(sel)
    BY <2>2 DEF Tripped
  <2> QED
    BY <2>3
<1>2. CASE InRespond \/ IsDone
  <2>1. Stated(routes, source.routes, Past) /\ Assembled(results, routes, Len(routes))
    BY <1>2 DEF InRespond, IsDone
  <2>2. PICK sel : Stating(sel, routes, source.routes, Past)
    BY <2>1 DEF Stated
  <2> DEFINE n == Len(sel)
  <2>3. /\ n \in Nat /\ Listed(routes, n) /\ Picked(sel, source.routes, Past)
        /\ \A k \in 1 .. n : routes[k] = RouteWithStat(source.routes[sel[k]])
    BY <2>2 DEF Stating, Listed
  <2>4. Len(routes) = n
    BY <2>3, ListedLen
  <2>5. \E m \in 0 .. n : Responded(trips, results, m)
    <3>1. CASE InRespond
      <4>1. next \in 1 .. n + 1 /\ Responded(trips, results, next - 1)
        BY <2>4, <3>1 DEF InRespond
      <4>2. next - 1 \in 0 .. n
        BY <2>3, <4>1
      <4> QED
        BY <4>1, <4>2
    <3>2. CASE IsDone
      <4>1. Responded(trips, results, n)
        BY <2>4, <3>2 DEF IsDone
      <4>2. n \in 0 .. n
        BY <2>3
      <4> QED
        BY <4>1, <4>2
    <3> QED
      BY <1>2, <3>1, <3>2
  <2>6. PICK m \in 0 .. n : Responded(trips, results, m)
    BY <2>5
  <2>7. DOMAIN trips = 1 .. m /\ \A k \in 1 .. m : trips[k] = Trip(results[k]) /\ k \in 1 .. n
    BY <2>3, <2>6, ListedLen DEF Responded
  <2>8. \A k \in 1 .. n : results[k] = ResultRoute(routes[k])
    BY <2>1, <2>4 DEF Assembled
  <2>9. \A k \in 1 .. n : sel[k] \in SolvedIn(source.routes)
    BY <2>3 DEF Picked
  <2>10. ASSUME NEW k \in DOMAIN trips PROVE Tells(trips[k], source.routes[sel[k]])
    <3>1. k \in 1 .. n /\ trips[k] = TripOf(source.routes[sel[k]])
      BY <2>3, <2>7, <2>8, <2>10 DEF TripOf
    <3>2. /\ source.routes[sel[k]] \in RouteType
          /\ CheckEvent(source.routes[sel[k]].vehicleId, source.routes[sel[k]].nodes) = NoEvent
      BY <1>0, <2>9, <3>1, SolvedHasStats
    <3> QED
      BY <3>1, <3>2, TripTells
  <2>11. DOMAIN trips \subseteq 1 .. n
    BY <2>7
  <2> QED
    BY <2>3, <2>4, <2>9, <2>10, <2>11 DEF Tripped, Picked
<1> QED
  BY <1>1, <1>2 DEF ReportInv

\* a solution with some solved route has an answer, with a trip for each
LEMMA AnswerIs == ReportInv => AnswersWhenSolved
<1> SUFFICES ASSUME ReportInv PROVE AnswersWhenSolved
  OBVIOUS
<1>1. why # "unexpected times size != nodes size !"
  BY DEF ReportInv, InSearch, InStats, InAssemble, InRespond, IsDone, IsThrown
<1>2. why = "No solution found!" => SolvedIn(source.routes) = {}
  BY DEF ReportInv, InSearch, InStats, InAssemble, InRespond, IsDone, IsThrown
<1>3. ASSUME pc = "done"
      PROVE  Len(trips) = Cardinality(SolvedIn(source.routes)) /\ trips # << >>
  <2> DEFINE S == SolvedIn(source.routes)
  <2>1. IsDone /\ Inv
    BY <1>3 DEF ReportInv, InSearch, InStats, InAssemble, InRespond, IsDone, IsThrown
  <2>2. PICK sel : Stating(sel, routes, source.routes, Past)
    BY <2>1 DEF IsDone, Stated
  <2> DEFINE n == Len(sel)
  <2>3. n \in Nat /\ Listed(sel, n) /\ Listed(routes, n) /\ Picked(sel, source.routes, Past)
    BY <2>2 DEF Stating, Listed
  <2>4. Len(routes) = n
    BY <2>3, ListedLen
  <2>5. Len(trips) = n
    BY <2>1, <2>4, ListedLen DEF IsDone, Responded
  <2>6. \A i \in S : i < Past
    BY <2>1, SourceLen DEF SolvedIn, Past
  <2>7. /\ \A k \in 1 .. n : sel[k] \in S
        /\ \A k, l \in 1 .. n : sel[k] = sel[l] => k = l
        /\ \A i \in S : \E k \in 1 .. n : sel[k] = i
    BY <2>3, <2>6 DEF Picked
  <2> HIDE DEF S, n
  <2>8. sel \in [1 .. n -> S]
    BY <2>3, <2>7 DEF Listed
  <2>9. sel \in Bijection(1 .. n, S)
    BY <2>7, <2>8 DEF Bijection, Injection, Surjection, IsInjective
  <2>10. IsFiniteSet(1 .. n) /\ Cardinality(1 .. n) = n
    BY <2>3, FS_Interval
  <2>11. Cardinality(S) = n
    BY <2>9, <2>10, FS_Bijection DEF ExistsBijection
  <2>12. S # {}
    BY <2>1 DEF IsDone, S
  <2>13. trips # << >>
    BY <2>3, <2>5, <2>7, <2>12
  <2> QED
    BY <2>5, <2>11, <2>13 DEF S
<1> QED
  BY <1>1, <1>2, <1>3 DEF AnswersWhenSolved

\* the trip tr has an entry for each node of r
LEMMA EntriesOf ==
  ASSUME NEW r \in RouteType, NEW tr, Tells(tr, r)
  PROVE  /\ r.nodes \in Routes /\ r.vehicleId \in VehicleIds /\ Len(r.nodes) \in Nat \ {0}
         /\ DOMAIN tr.tasks = 1 .. Len(r.nodes) /\ Len(tr.tasks) = Len(r.nodes)
         /\ \A k \in 1 .. Len(r.nodes) :
               /\ r.nodes[k] \in Nodes /\ TaskOf(r.nodes[k]) \in TaskIds
               /\ EntryTells(tr.tasks[k], r.nodes, k)
<1>1. r.nodes \in Routes /\ r.vehicleId \in VehicleIds
  BY DEF RouteType
<1>2. \A k \in 1 .. Len(r.nodes) : r.nodes[k] \in Nodes /\ TaskOf(r.nodes[k]) \in TaskIds
  <2> SUFFICES ASSUME NEW k \in 1 .. Len(r.nodes)
               PROVE  r.nodes[k] \in Nodes /\ TaskOf(r.nodes[k]) \in TaskIds
    OBVIOUS
  <2>1. r.nodes[k] \in Nodes
    BY <1>1, NodesOfRoute
  <2> QED
    BY <2>1, NodeTask
<1>3. Listed(tr.tasks, Len(r.nodes)) /\ \A k \in 1 .. Len(r.nodes) : EntryTells(tr.tasks[k], r.nodes, k)
  BY DEF Tells
<1> QED
  BY <1>1, <1>2, <1>3, RouteNotEmpty, ListedLen

\* both nodes of the task of a node are in the route, and nothing else is of it
LEMMA PairOf ==
  ASSUME NEW ns \in Routes, ~UnloadsBeforeLoad(ns), NEW k \in 1 .. Len(ns)
  PROVE  \E n, m \in 1 .. Len(ns) :
            /\ n < m /\ TaskOf(ns[n]) = TaskOf(ns[k]) /\ TaskOf(ns[m]) = TaskOf(ns[k])
            /\ IsTaskStart(ns[n]) /\ ~IsTaskStart(ns[m])
            /\ \A l \in 1 .. Len(ns) : TaskOf(ns[l]) = TaskOf(ns[k]) => l \in {n, m}
<1>1. ns \in Seq(Nodes) /\ DOMAIN ns = 1 .. Len(ns) /\ \A i \in 1 .. Len(ns) : ns[i] \in Nodes
  BY NodesOfRoute
<1>2. \A i, j \in 1 .. Len(ns) : ns[i] = ns[j] => i = j
  BY NodesOfRoute
<1>3. \A i \in 1 .. Len(ns) : /\ TaskOf(ns[i]) \in Int
                              /\ ns[i] = IF IsTaskStart(ns[i]) THEN 2 * TaskOf(ns[i])
                                                               ELSE 2 * TaskOf(ns[i]) + 1
  BY <1>1, NodeTask, FleetAssumption DEF TaskIds
<1>4. \A i, j \in 1 .. Len(ns) : TaskOf(ns[i]) = TaskOf(ns[j])
                                   /\ (IsTaskStart(ns[i]) <=> IsTaskStart(ns[j])) => i = j
  BY <1>2, <1>3
<1>5. PICK j \in 1 .. Len(ns) : TaskOf(ns[j]) = TaskOf(ns[k]) /\ ns[j] # ns[k]
  BY <1>1 DEF Routes, IsRoute
<1>6. \E m \in 1 .. Len(ns) : TaskOf(ns[m]) = TaskOf(ns[k]) /\ ~IsTaskStart(ns[m])
  BY <1>3, <1>5
<1>7. PICK m \in 1 .. Len(ns) : TaskOf(ns[m]) = TaskOf(ns[k]) /\ ~IsTaskStart(ns[m])
  BY <1>6
<1>8. PICK n \in 1 .. Len(ns) : n < m /\ ns[n] = ns[m] - 1
  BY <1>1, <1>7 DEF UnloadsBeforeLoad
<1>9. IsTaskStart(ns[n]) /\ TaskOf(ns[n]) = TaskOf(ns[m])
  <2>1. ns[m] = 2 * TaskOf(ns[m]) + 1 /\ TaskOf(ns[m]) \in Int
    BY <1>3, <1>7
  <2>2. ns[n] = 2 * TaskOf(ns[m])
    BY <1>8, <2>1
  <2>3. \A t \in Int : IsTaskStart(2 * t) /\ TaskOf(2 * t) = t
    BY DEF IsTaskStart, TaskOf
  <2> QED
    BY <2>1, <2>2, <2>3
<1>10. \A l \in 1 .. Len(ns) : TaskOf(ns[l]) = TaskOf(ns[k]) => l \in {n, m}
  BY <1>4, <1>7, <1>9
<1> QED
  BY <1>7, <1>8, <1>9, <1>10

LEMMA ServedIs == ReportInv => ServedByOneTrip
<1> SUFFICES ASSUME ReportInv, DistinctTasks, NEW i \in DOMAIN trips, NEW k \in DOMAIN trips[i].tasks
             PROVE  ServedOnce(i, k)
  BY DEF ServedByOneTrip
<1> DEFINE rs == source.routes
<1>1. PICK sel : Tripped(sel)
  BY TripsAre
<1>2. Inv
  BY DEF ReportInv
<1> DEFINE r(j) == rs[sel[j]]
<1>3. \A j \in DOMAIN trips : /\ sel[j] \in SolvedIn(rs) /\ j \in 1 .. Len(sel)
                              /\ Tells(trips[j], r(j))
  BY <1>1 DEF Tripped
<1>4. \A j \in DOMAIN trips : r(j) \in RouteType /\ CheckEvent(r(j).vehicleId, r(j).nodes) = NoEvent
  BY <1>2, <1>3, SolvedHasStats
<1>5. \A j \in DOMAIN trips : j # i => TasksOf(r(j)) \cap TasksOf(r(i)) = {}
  <2> SUFFICES ASSUME NEW j \in DOMAIN trips, j # i PROVE TasksOf(r(j)) \cap TasksOf(r(i)) = {}
    OBVIOUS
  <2>1. sel[j] # sel[i]
    BY <1>1, <1>3 DEF Tripped
  <2>2. sel[j] \in DOMAIN rs /\ sel[i] \in DOMAIN rs
    BY <1>3 DEF SolvedIn
  <2>3. OwnTasks(rs)
    BY <1>2 DEF Inv, SourceInv, Deal
  <2> QED
    BY <2>1, <2>2, <2>3 DEF OwnTasks
<1> HIDE DEF r
<1>6. \A j \in DOMAIN trips :
         /\ DOMAIN trips[j].tasks = 1 .. Len(r(j).nodes)
         /\ \A l \in 1 .. Len(r(j).nodes) : /\ TaskOf(r(j).nodes[l]) \in TaskIds
                                            /\ EntryTells(trips[j].tasks[l], r(j).nodes, l)
  BY <1>3, <1>4, EntriesOf
<1> DEFINE ns == r(i).nodes
           v == r(i).vehicleId
           t == TaskOf(ns[k])
<1>7. ns \in Routes /\ v \in VehicleIds /\ DOMAIN ns = 1 .. Len(ns)
  <2>1. ns \in Routes /\ v \in VehicleIds
    BY <1>3, <1>4, EntriesOf
  <2> HIDE DEF ns
  <2> QED
    BY <2>1, NodesOfRoute
<1>8. ~UnloadsBeforeLoad(ns) /\ ~WrongVehicle(v, ns)
  BY <1>4 DEF CheckEvent, NoEvent
<1>9. k \in 1 .. Len(ns) /\ DOMAIN trips[i].tasks = 1 .. Len(ns)
  BY <1>6
<1> HIDE DEF ns, v
<1>10. PICK n, m \in 1 .. Len(ns) :
          /\ n < m /\ TaskOf(ns[n]) = t /\ TaskOf(ns[m]) = t
          /\ IsTaskStart(ns[n]) /\ ~IsTaskStart(ns[m])
          /\ \A l \in 1 .. Len(ns) : TaskOf(ns[l]) = t => l \in {n, m}
  BY <1>7, <1>8, <1>9, PairOf
<1>11. /\ t \in TaskIds
       /\ \A l \in 1 .. Len(ns) : /\ trips[i].tasks[l].id = ExternalTask[TaskOf(ns[l])]
                                  /\ trips[i].tasks[l].action = IF IsTaskStart(ns[l]) THEN "Load" ELSE "Unload"
  BY <1>6, <1>9 DEF EntryTells, ns
<1> HIDE DEF t
<1>12. trips[i].tasks[k].id = ExternalTask[t]
  BY <1>9, <1>11 DEF t
<1>13. ASSUME NEW j \in DOMAIN trips, NEW l \in DOMAIN trips[j].tasks,
              trips[j].tasks[l].id = ExternalTask[t]
       PROVE  j = i /\ l \in {n, m}
  <2>1. l \in 1 .. Len(r(j).nodes) /\ TaskOf(r(j).nodes[l]) \in TaskIds
    BY <1>6
  <2>2. ExternalTask[TaskOf(r(j).nodes[l])] = ExternalTask[t]
    BY <1>6, <1>13, <2>1 DEF EntryTells
  <2>3. TaskOf(r(j).nodes[l]) = t
    BY <1>11, <2>1, <2>2 DEF DistinctTasks
  <2>4. t \in TasksOf(r(j)) /\ t \in TasksOf(r(i))
    <3>1. DOMAIN r(j).nodes = 1 .. Len(r(j).nodes)
      <4>1. r(j).nodes \in Routes
        BY <1>3, <1>4, EntriesOf
      <4> QED
        BY <4>1, NodesOfRoute
    <3> QED
      BY <1>7, <1>9, <2>1, <2>3, <3>1 DEF TasksOf, t, ns
  <2>5. j = i
    BY <1>5, <2>4
  <2> QED
    BY <1>10, <2>1, <2>3, <2>5 DEF ns
<1>14. Valid[v][t]
  BY <1>7, <1>8, <1>9 DEF WrongVehicle, t
<1>15. ExternalVehicle[v] = trips[i].vehicle
  BY <1>3 DEF Tells, v
<1> QED
  BY <1>7, <1>9, <1>10, <1>11, <1>12, <1>13, <1>14, <1>15 DEF ServedOnce

LEMMA OnBoardIs == ReportInv => OnBoardAsReported
<1> SUFFICES ASSUME ReportInv, DistinctTasks PROVE OnBoardAsReported
  BY DEF OnBoardAsReported
<1>1. PICK sel : Tripped(sel)
  BY TripsAre
<1>2. ASSUME NEW i \in DOMAIN trips, NEW k \in DOMAIN trips[i].tasks
      PROVE  OnBoard(i, k)
  <2> DEFINE r == source.routes[sel[i]]
             ns == r.nodes
             tasks == trips[i].tasks
  <2>1. r \in RouteType /\ Tells(trips[i], r)
    <3>1. Tells(trips[i], r) /\ i \in 1 .. Len(sel)
      BY <1>1 DEF Tripped
    <3>2. sel[i] \in SolvedIn(source.routes)
      BY <1>1, <3>1 DEF Tripped
    <3> QED
      BY <3>1, <3>2, SolvedHasStats DEF ReportInv
  <2>2. /\ Len(ns) \in Nat /\ DOMAIN tasks = 1 .. Len(ns) /\ ns \in Routes
        /\ \A l \in 1 .. Len(ns) : /\ ns[l] \in Nodes /\ TaskOf(ns[l]) \in TaskIds
                                   /\ EntryTells(tasks[l], ns, l)
    BY <2>1, EntriesOf
  <2> HIDE DEF r, ns, tasks
  <2>3. k \in 1 .. Len(ns)
    BY <2>2 DEF tasks
  <2>4. \A l \in 1 .. k : l \in 1 .. Len(ns)
    BY <2>2, <2>3
  <2>5. \A l \in 1 .. k :
           /\ tasks[l].id = ExternalTask[TaskOf(ns[l])]
           /\ (tasks[l].action = "Load") <=> IsTaskStart(ns[l])
           /\ (tasks[l].action = "Unload") <=> ~IsTaskStart(ns[l])
           /\ TaskOf(ns[l]) \in TaskIds
           /\ ns[l] \in Nodes
    BY <2>2, <2>4 DEF EntryTells
  <2>6. \A n \in Nodes, t \in TaskIds :
           /\ (n = 2 * t) <=> (TaskOf(n) = t /\ IsTaskStart(n))
           /\ (n = 2 * t + 1) <=> (TaskOf(n) = t /\ ~IsTaskStart(n))
    BY FleetAssumption DEF Nodes, TaskIds, TaskOf, IsTaskStart
  <2>7. ASSUME NEW t \in TaskIds, NEW l \in 1 .. k
        PROVE  /\ (ns[l] = 2 * t) <=> (tasks[l].id = ExternalTask[t] /\ tasks[l].action = "Load")
               /\ (ns[l] = 2 * t + 1) <=> (tasks[l].id = ExternalTask[t] /\ tasks[l].action = "Unload")
    <3>1. (tasks[l].id = ExternalTask[t]) <=> (TaskOf(ns[l]) = t)
      BY <2>5 DEF DistinctTasks
    <3>2. /\ (ns[l] = 2 * t) <=> (TaskOf(ns[l]) = t /\ IsTaskStart(ns[l]))
          /\ (ns[l] = 2 * t + 1) <=> (TaskOf(ns[l]) = t /\ ~IsTaskStart(ns[l]))
      BY <2>5, <2>6
    <3> QED
      BY <2>5, <3>1, <3>2
  <2>8. Seen(i, k, "Load") \ Seen(i, k, "Unload") = Aboard(ns, k)
    BY <2>7 DEF Seen, Aboard, tasks
  <2>9. EntryTells(tasks[k], ns, k)
    BY <2>2, <2>3
  <2> QED
    BY <2>8, <2>9 DEF OnBoard, EntryTells, tasks, CapacityOf, VolumeOf
<1> QED
  BY <1>2 DEF OnBoardAsReported

LEMMA SpansAre == ReportInv => TripSpansTasks /\ LineThroughTasks
<1> SUFFICES ASSUME ReportInv PROVE TripSpansTasks /\ LineThroughTasks
  OBVIOUS
<1>1. PICK sel : Tripped(sel)
  BY TripsAre
<1>2. ASSUME NEW i \in DOMAIN trips
      PROVE  /\ trips[i].tasks[1].ts < IntMax => trips[i].ts = trips[i].tasks[1].ts
             /\ trips[i].te = trips[i].tasks[Len(trips[i].tasks)].te
             /\ trips[i].length = routes[i].length
             /\ Len(trips[i].polyline) = Len(trips[i].tasks)
             /\ \A k \in DOMAIN trips[i].tasks :
                   /\ ExternalTask[trips[i].polyline[k] \div 2] = trips[i].tasks[k].id
                   /\ (trips[i].polyline[k] % 2 = 0) = (trips[i].tasks[k].action = "Load")
  <2> DEFINE r == source.routes[sel[i]]
             ns == r.nodes
  <2>1. r \in RouteType /\ Tells(trips[i], r) /\ routes[i] = RouteWithStat(r)
    <3>1. Tells(trips[i], r) /\ i \in 1 .. Len(sel) /\ routes[i] = RouteWithStat(r)
      BY <1>1 DEF Tripped
    <3>2. sel[i] \in SolvedIn(source.routes)
      BY <1>1, <3>1 DEF Tripped
    <3> QED
      BY <3>1, <3>2, SolvedHasStats DEF ReportInv
  <2>2. /\ DOMAIN trips[i].tasks = 1 .. Len(ns) /\ Len(trips[i].tasks) = Len(ns)
        /\ \A l \in 1 .. Len(ns) : EntryTells(trips[i].tasks[l], ns, l)
    BY <2>1, EntriesOf
  <2>3. /\ trips[i].tasks[1].ts < IntMax => trips[i].ts = trips[i].tasks[1].ts
        /\ trips[i].te = trips[i].tasks[Len(ns)].te
        /\ trips[i].length = RouteWithStat(r).length
        /\ Listed(trips[i].polyline, Len(ns))
        /\ \A k \in 1 .. Len(ns) : trips[i].polyline[k] = ns[k]
    BY <2>1 DEF Tells
  <2>4. Len(trips[i].polyline) = Len(ns)
    BY <2>3, ListedLen
  <2>5. ASSUME NEW k \in 1 .. Len(ns)
        PROVE  /\ ExternalTask[trips[i].polyline[k] \div 2] = trips[i].tasks[k].id
               /\ (trips[i].polyline[k] % 2 = 0) = (trips[i].tasks[k].action = "Load")
    <3> HIDE DEF ns
    <3> QED
      BY <2>2, <2>3 DEF EntryTells, TaskOf, IsTaskStart
  <2> HIDE DEF r, ns
  <2> QED
    BY <2>1, <2>2, <2>3, <2>4, <2>5
<1> QED
  BY <1>2 DEF TripSpansTasks, LineThroughTasks

\* The answer is the routes of the solution that the search came to: one trip
\* for each solved route, with its own tasks, loads, times, length and line.
THEOREM AnswerCorrect == ReportSpec => []TripsAreRoutes
<1>1. ReportInv => TripsAreRoutes
  BY AnswerIs, ServedIs, OnBoardIs, SpansAre DEF TripsAreRoutes
<1> QED
  BY <1>1, InitReport, NextReport, PTL DEF ReportSpec

-----------------------------------------------------------------------------
(* Types.                                                                   *)

\* what the statistics of a route say that can be driven
LEMMA StatedType ==
  ASSUME NEW r \in RouteType, CheckEvent(r.vehicleId, r.nodes) = NoEvent
  PROVE  RouteWithStat(r).length \in Nat /\ RouteWithStat(r).timeEnd \in Nat
<1> DEFINE tk == RouteWithStat(r).tasks
           n == Len(r.nodes)
<1>1. r.vehicleId \in VehicleIds /\ r.nodes \in Routes
  BY DEF RouteType
<1>2. Tabulated(tk, r.nodes, Trucks(r.vehicleId, r.nodes))
  BY TasksTabulated
<1>3. /\ RouteWithStat(r).length = CheckStat(r.vehicleId, r.nodes).distance
      /\ RouteWithStat(r).timeEnd = Span(tk).timeEnd
  BY DEF RouteWithStat
<1> HIDE DEF tk
<1>4. CheckStat(r.vehicleId, r.nodes).distance \in Nat
  BY <1>1, CheckStatType DEF Stat
<1>5. Span(tk).timeEnd = tk[n].timeEnd
  BY <1>1, <1>2, SpanIs
<1>6. n \in 1 .. n
  BY <1>1, RouteNotEmpty
<1>7. tk[n].timeEnd \in Nat
  BY <1>2, <1>6 DEF Tabulated, EntryOf
<1> QED
  BY <1>3, <1>4, <1>5, <1>7

\* the routes with statistics are no more than the routes of the solution
LEMMA StatedRoutes ==
  ASSUME Inv, NEW m, Stated(routes, source.routes, m)
  PROVE  /\ Len(routes) \in 0 .. NumVehicles
         /\ \A i \in DOMAIN routes : routes[i].length \in Nat /\ routes[i].timeEnd \in Nat
<1>1. PICK sel : Stating(sel, routes, source.routes, m)
  BY DEF Stated
<1> DEFINE n == Len(sel)
           l == Len(source.routes)
<1>2. /\ n \in Nat /\ Listed(sel, n) /\ Listed(routes, n)
      /\ \A k \in 1 .. n : sel[k] \in SolvedIn(source.routes) /\ routes[k] = RouteWithStat(source.routes[sel[k]])
      /\ \A j, k \in 1 .. n : sel[j] = sel[k] => j = k
  BY <1>1 DEF Stating, Listed, Picked
<1>3. DOMAIN routes = 1 .. n /\ Len(routes) = n
  BY <1>2, ListedLen
<1>4. l \in 1 .. NumVehicles /\ l \in Nat /\ SolvedIn(source.routes) \subseteq 1 .. l
  BY SourceLen, FleetAssumption DEF SolvedIn
<1>5. n <= l
  <2>1. sel \in [1 .. n -> 1 .. l]
    BY <1>2, <1>4 DEF Listed
  <2>2. sel \in Injection(1 .. n, 1 .. l)
    BY <1>2, <2>1 DEF Injection, IsInjective
  <2>3. n \in Nat /\ l \in Nat
    BY <1>2, <1>4
  <2> HIDE DEF n, l
  <2>4. IsFiniteSet(1 .. n) /\ Cardinality(1 .. n) = n
    BY <2>3, FS_Interval
  <2>5. IsFiniteSet(1 .. l) /\ Cardinality(1 .. l) = l
    BY <2>3, FS_Interval
  <2>6. Cardinality(1 .. n) <= Cardinality(1 .. l)
    BY <2>2, <2>5, FS_Injection, Zenon
  <2> QED
    BY <2>4, <2>5, <2>6
<1>6. ASSUME NEW k \in 1 .. n PROVE routes[k].length \in Nat /\ routes[k].timeEnd \in Nat
  BY <1>2, <1>6, SolvedHasStats, StatedType
<1> HIDE DEF n, l
<1>7. n \in 0 .. NumVehicles
  BY <1>2, <1>4, <1>5, FleetAssumption
<1> QED
  BY <1>3, <1>6, <1>7

\* of what the three loops have made, as long as nothing is thrown
LEMMA ReportTypes ==
  ASSUME ReportInv, TypeOK, pc # "thrown"
  PROVE  ReportTypeOK
<1>1. CASE InSearch
  <2>1. 1 \in 1 .. NumVehicles + 1
    BY FleetAssumption
  <2>2. Len(trips) <= Len(results) /\ Len(results) <= Len(routes) /\ DOMAIN routes = {}
    <3>1. Len(<< >>) <= Len(<< >>) /\ DOMAIN << >> = {}
      OBVIOUS
    <3>2. routes = << >> /\ results = << >> /\ trips = << >>
      BY <1>1 DEF InSearch
    <3> QED
      BY <3>1, <3>2, Zenon
  <2> QED
    BY <1>1, <2>1, <2>2 DEF InSearch, ReportTypeOK
<1>2. CASE InStats
  <2>1. Inv /\ Stated(routes, source.routes, next) /\ results = << >> /\ trips = << >> /\ next \in 1 .. Past
    BY <1>2 DEF InStats, ReportInv
  <2>2. next \in 1 .. NumVehicles + 1
    BY <2>1, SourceLen, FleetAssumption DEF Past
  <2>3. Len(trips) <= Len(results) /\ Len(results) <= Len(routes)
    BY <2>1, StatedRoutes
  <2> QED
    BY <1>2, <2>1, <2>2, <2>3, StatedRoutes DEF InStats, ReportTypeOK
<1>3. CASE InAssemble \/ InRespond \/ IsDone
  <2>1. Inv /\ Stated(routes, source.routes, Past)
    BY <1>3 DEF InAssemble, InRespond, IsDone, ReportInv
  <2> DEFINE n == Len(routes)
  <2>2. n \in 0 .. NumVehicles /\ n \in Nat
    BY <2>1, StatedRoutes, FleetAssumption
  <2>0. next = 1 \/ next \in 1 .. n + 1
    BY <1>3 DEF InAssemble, InRespond, IsDone
  <2>7. (InRespond \/ IsDone => Listed(results, n)) /\ (IsDone => Listed(trips, n))
    BY DEF InRespond, IsDone, Assembled, Responded
  <2> HIDE DEF n
  <2>3. next \in 1 .. n + 1 /\ next - 1 \in Nat /\ next - 1 <= n
    BY <2>0, <2>2
  <2>4. \E i, j \in Nat : Listed(results, i) /\ Listed(trips, j) /\ j <= i /\ i <= n
    <3>1. CASE InAssemble
      <4>1. Listed(results, next - 1)
        BY <3>1 DEF InAssemble, Assembled
      <4>2. Listed(trips, 0)
        BY <3>1, ListedNone DEF InAssemble
      <4>3. 0 \in Nat /\ 0 <= next - 1
        BY <2>3
      <4> QED
        BY <2>3, <4>1, <4>2, <4>3, Zenon
    <3>2. CASE InRespond
      <4>1. Listed(trips, next - 1)
        BY <3>2 DEF InRespond, Responded
      <4>2. n <= n
        BY <2>2
      <4> QED
        BY <2>2, <2>3, <2>7, <3>2, <4>1, <4>2, Zenon
    <3>3. CASE IsDone
      <4>1. n <= n
        BY <2>2
      <4> QED
        BY <2>2, <2>7, <3>3, <4>1, Zenon
    <3> QED
      BY <1>3, <3>1, <3>2, <3>3
  <2>5. Len(trips) <= Len(results) /\ Len(results) <= Len(routes)
    BY <2>4, ListedLen DEF n
  <2>6. next \in 1 .. NumVehicles + 1
    BY <2>2, <2>3, FleetAssumption
  <2> QED
    BY <1>3, <2>1, <2>5, <2>6, StatedRoutes DEF InAssemble, InRespond, IsDone, ReportTypeOK
<1> QED
  BY <1>1, <1>2, <1>3 DEF ReportInv, IsThrown

\* who throws leaves everything as it was
LEMMA ThrownTypes == ReportInv /\ ReportTypeOK /\ [ReportNext]_reportVars /\ pc' = "thrown" =>
                       UNCHANGED <<source, cache, next, routes, results, trips>>
<1> SUFFICES ASSUME ReportInv, [ReportNext]_reportVars, pc' = "thrown"
             PROVE  UNCHANGED <<source, cache, next, routes, results, trips>>
  OBVIOUS
<1> USE DEF Throw, vars
<1>1. CASE Improve
  BY <1>1 DEF Improve
<1>2. CASE TakeSolution
  BY <1>2 DEF TakeSolution
<1>3. CASE ResultStats
  BY <1>3 DEF ResultStats
<1>4. CASE Assemble
  BY <1>4 DEF Assemble
<1>5. CASE Respond
  BY <1>5 DEF Respond
<1>6. CASE NextLoop
  BY <1>6 DEF NextLoop
<1>7. CASE UNCHANGED reportVars
  BY <1>7 DEF reportVars
<1> QED
  BY <1>1, <1>2, <1>3, <1>4, <1>5, <1>6, <1>7 DEF ReportNext

\* The numbers of the routes, of the results and of the trips follow each other,
\* no loop goes past the vehicles, and what the answer says is made of numbers.
THEOREM ReportTypeCorrect == ReportSpec => []ReportTypeOK
<1>1. ReportInit => ReportTypeOK
  <2>1. ReportInit => ReportInv /\ TypeOK /\ pc # "thrown"
    BY InitReport, SolutionTypes DEF ReportInit, ReportInv
  <2> QED
    BY <2>1, ReportTypes
<1>2. ReportInv /\ ReportTypeOK /\ [ReportNext]_reportVars => ReportTypeOK'
  <2> SUFFICES ASSUME ReportInv, ReportTypeOK, [ReportNext]_reportVars PROVE ReportTypeOK'
    OBVIOUS
  <2>1. ReportInv' /\ TypeOK'
    <3>1. ReportInv'
      BY NextReport
    <3>2. Inv' => TypeOK'
      BY SolutionTypes, PTL
    <3> QED
      BY <3>1, <3>2 DEF ReportInv
  <2>2. CASE pc' = "thrown"
    <3>1. UNCHANGED <<source, cache, next, routes, results, trips>>
      BY <2>2, ThrownTypes
    <3> QED
      BY <2>1, <2>2, <3>1 DEF ReportTypeOK
  <2>3. CASE pc' # "thrown"
    <3>1. ReportInv' /\ TypeOK' /\ (pc # "thrown")' => ReportTypeOK'
      BY ReportTypes, PTL
    <3> QED
      BY <2>1, <2>3, <3>1
  <2> QED
    BY <2>2, <2>3
<1> QED
  BY <1>1, <1>2, InitReport, NextReport, PTL DEF ReportSpec
=============================================================================
