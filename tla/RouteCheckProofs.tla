---------------------------- MODULE RouteCheckProofs ----------------------------
(***************************************************************************)
(* Theorems about the functions of CurrentRouteState and RouteCheck, for   *)
(* every fleet, every set of tasks and all matrices: what each member      *)
(* function does to the truck, and that the loop of checkSingleRoute is    *)
(* the fold of its turns.                                                  *)
(***************************************************************************)
EXTENDS RouteCheck, FoldLemmas

-----------------------------------------------------------------------------
(* The constants *)

\* the node numbering: 2t loads task t and 2t + 1 unloads it
LEMMA NodeTask ==
  ASSUME NEW n \in Nodes
  PROVE  /\ TaskOf(n) \in TaskIds
         /\ IsTaskStart(n) => n = 2 * TaskOf(n)
         /\ ~IsTaskStart(n) => n = 2 * TaskOf(n) + 1
  BY FleetAssumption DEF Nodes, TaskIds, TaskOf, IsTaskStart

LEMMA PointType ==
  ASSUME NEW n \in Nodes
  PROVE  /\ Point(n).ts \in Nat /\ Point(n).te \in Nat /\ Point(n).dur \in Nat
         /\ Task[TaskOf(n)].capacity \in Nat /\ Task[TaskOf(n)].volume \in Nat
<1>1. Task[TaskOf(n)] \in TaskType
  BY NodeTask, FleetAssumption
<1> QED
  BY <1>1 DEF Point, TaskType, TaskPoint

LEMMA LegType ==
  ASSUME NEW m \in Nodes, NEW n \in Nodes
  PROVE  DestTime[m][n] \div 10 \in Nat /\ DestMeters[m][n] \in Nat
<1>1. DestTime[m][n] \in Nat /\ DestMeters[m][n] \in Nat
  BY MatrixAssumption
<1> QED
  BY <1>1

\* a route is a sequence of nodes, none of them twice
LEMMA NodesOfRoute ==
  ASSUME NEW ns \in Routes
  PROVE  /\ ns \in Seq(Nodes)
         /\ \A i, j \in 1 .. Len(ns) : ns[i] = ns[j] => i = j
<1> PICK k \in 1 .. NumTasks : ns \in [1 .. 2 * k -> Nodes] /\ IsRoute(ns)
  BY DEF Routes
<1>1. ns \in Seq(Nodes) /\ DOMAIN ns = 1 .. Len(ns)
  <2>1. 2 * k \in Nat
    BY FleetAssumption
  <2> QED
    BY <2>1
<1> QED
  BY <1>1 DEF IsRoute, IsInjective

-----------------------------------------------------------------------------
(* The truck *)

\* the clock has not run back behind the start of the route
Clock(w) == w.routeStartTime <= w.currentTime

\* what an entry of the statistics records, with the metres driven to get there
Entry(w, metres) ==
    [nodeId |-> w.currentNode, time |-> w.currentTime, workload |-> w.currentLoad,
     volume |-> w.currentVolume, distance |-> metres, tasksCount |-> w.taskTaken]

\* the truck w has driven to n and stands there as m: with the same load, not
\* before the window opens, one entry longer
Arrives(w, m, n) ==
    /\ m \in WalkState
    /\ Clock(m)
    /\ m.currentLoad = w.currentLoad
    /\ m.currentVolume = w.currentVolume
    /\ m.taskTaken = w.taskTaken
    /\ m.currentTime >= Point(n).ts
    /\ w.currentNode # NoNode => m.currentTime >= w.currentTime
    /\ m.stats = Append(w.stats, Entry(m, m.currentDistanceMeters - w.currentDistanceMeters))

\* the truck w has spent the service time of n and stands there as m, one entry
\* longer
Serves(w, m, n) ==
    /\ m \in WalkState
    /\ Clock(m)
    /\ m.currentTime = w.currentTime + Point(n).dur
    /\ m.routeStartTime = w.routeStartTime
    /\ m.currentDistanceMeters = w.currentDistanceMeters
    /\ m.currentNode = w.currentNode
    /\ m.stats = Append(w.stats, Entry(m, 0))

\* w with new values for all that driving, loading and unloading change
With(w, time, start, far, load, volume, taken, node) ==
    [w EXCEPT !.currentTime = time, !.routeStartTime = start, !.currentDistanceMeters = far,
              !.currentLoad = load, !.currentVolume = volume, !.taskTaken = taken,
              !.currentNode = node]

LEMMA FieldTypes ==
  ASSUME NEW w \in WalkState
  PROVE  /\ w.currentTime \in Nat /\ w.routeStartTime \in Nat
         /\ w.currentDistanceMeters \in Nat /\ w.currentLoad \in Int
         /\ w.currentVolume \in Int /\ w.taskTaken \in Int
         /\ w.currentNode \in Nodes \cup {NoNode} /\ w.stats \in Seq(PointStat)
  BY DEF WalkState

LEMMA WithType ==
  ASSUME NEW w \in WalkState, NEW time \in Nat, NEW start \in Nat, NEW far \in Nat,
         NEW load \in Int, NEW volume \in Int, NEW taken \in Int,
         NEW node \in Nodes \cup {NoNode},
         NEW u, u = With(w, time, start, far, load, volume, taken, node)
  PROVE  /\ u \in WalkState
         /\ u.currentTime = time
         /\ u.routeStartTime = start
         /\ u.currentDistanceMeters = far
         /\ u.currentLoad = load
         /\ u.currentVolume = volume
         /\ u.taskTaken = taken
         /\ u.currentNode = node
         /\ u.stats = w.stats
  BY DEF With, WalkState

\* an entry of the statistics records the truck and leaves it as it was
LEMMA PushType ==
  ASSUME NEW w \in WalkState, w.currentNode # NoNode, NEW d \in Nat,
         NEW m, m = PushStats(w, d)
  PROVE  /\ m \in WalkState
         /\ m.currentTime = w.currentTime
         /\ m.routeStartTime = w.routeStartTime
         /\ m.currentDistanceMeters = w.currentDistanceMeters
         /\ m.currentLoad = w.currentLoad
         /\ m.currentVolume = w.currentVolume
         /\ m.taskTaken = w.taskTaken
         /\ m.currentNode = w.currentNode
         /\ m.stats = Append(w.stats, Entry(m, d))
<1>1. Entry(w, d) \in PointStat
  BY DEF WalkState, PointStat, Entry
<1>2. m = [w EXCEPT !.stats = Append(w.stats, Entry(w, d))]
  BY DEF PushStats, Entry
<1>3. Append(w.stats, Entry(w, d)) \in Seq(PointStat)
  BY <1>1, FieldTypes
<1>4. /\ m \in WalkState /\ m.stats = Append(w.stats, Entry(w, d))
      /\ m.currentTime = w.currentTime /\ m.routeStartTime = w.routeStartTime
      /\ m.currentDistanceMeters = w.currentDistanceMeters
      /\ m.currentLoad = w.currentLoad /\ m.currentVolume = w.currentVolume
      /\ m.taskTaken = w.taskTaken /\ m.currentNode = w.currentNode
  BY <1>2, <1>3 DEF WalkState
<1>5. Entry(m, d) = Entry(w, d)
  BY <1>4 DEF Entry
<1> QED
  BY <1>4, <1>5

\* wherever the truck drives, it arrives no earlier than it left and does not
\* start its service before the window opens
LEMMA DriveType ==
  ASSUME NEW w \in WalkState, Clock(w), w.currentNode # NoNode, NEW n \in Nodes,
         NEW m, m = Drive(w, n)
  PROVE  /\ m \in WalkState
         /\ Clock(m)
         /\ m.currentTime >= Point(n).ts
         /\ m.currentTime >= w.currentTime
         /\ DestMeters[w.currentNode][n] \in Nat
         /\ m.currentDistanceMeters = w.currentDistanceMeters + DestMeters[w.currentNode][n]
         /\ m.currentLoad = w.currentLoad
         /\ m.currentVolume = w.currentVolume
         /\ m.taskTaken = w.taskTaken
         /\ m.currentNode = w.currentNode
         /\ m.stats = w.stats
<1> DEFINE leg     == DestTime[w.currentNode][n] \div 10
           metres  == DestMeters[w.currentNode][n]
           opening == Point(n).ts
           time    == IF w.currentTime + leg < opening THEN opening ELSE w.currentTime + leg
           far     == w.currentDistanceMeters + metres
<1>1. m = With(w, time, w.routeStartTime, far, w.currentLoad, w.currentVolume,
               w.taskTaken, w.currentNode)
  BY DEF Drive, With, WalkState
<1>a. /\ w.currentTime \in Nat /\ w.routeStartTime \in Nat
      /\ w.currentDistanceMeters \in Nat /\ w.currentLoad \in Int
      /\ w.currentVolume \in Int /\ w.taskTaken \in Int
      /\ w.currentNode \in Nodes \cup {NoNode}
  BY FieldTypes
<1>2. leg \in Nat /\ metres \in Nat /\ opening \in Nat
  BY LegType, PointType, FieldTypes
<1> HIDE DEF leg, metres, opening
<1>3. /\ time \in Nat /\ far \in Nat /\ time >= opening /\ time >= w.routeStartTime
      /\ time >= w.currentTime
  BY <1>2, <1>a DEF Clock
<1> HIDE DEF time
<1>4. far = w.currentDistanceMeters + DestMeters[w.currentNode][n]
      /\ DestMeters[w.currentNode][n] \in Nat
  BY <1>2 DEF metres
<1> HIDE DEF far
<1> DEFINE u == With(w, time, w.routeStartTime, far, w.currentLoad, w.currentVolume,
                     w.taskTaken, w.currentNode)
<1>5. /\ u \in WalkState /\ u.currentTime = time /\ u.routeStartTime = w.routeStartTime
      /\ u.currentDistanceMeters = far /\ u.currentLoad = w.currentLoad
      /\ u.currentVolume = w.currentVolume /\ u.taskTaken = w.taskTaken
      /\ u.currentNode = w.currentNode /\ u.stats = w.stats
  BY <1>a, <1>3, WithType
<1>6. m = u
  BY <1>1
<1> HIDE DEF u
<1> QED
  BY <1>3, <1>4, <1>5, <1>6 DEF Clock, opening

LEMMA MoveNextStartType ==
  ASSUME NEW w \in WalkState, Clock(w), NEW n \in Nodes, NEW m, m = MoveNextStart(w, n)
  PROVE  Arrives(w, m, n) /\ m.currentNode = n
<1>0. n # NoNode /\ Point(n).ts \in Nat
  BY PointType DEF Nodes, NoNode
<1>1. CASE w.currentNode = NoNode
  <2> DEFINE opening == Point(n).ts
             u == With(w, opening, opening, w.currentDistanceMeters, w.currentLoad,
                       w.currentVolume, w.taskTaken, n)
  <2>1. u = [w EXCEPT !.currentTime = opening, !.routeStartTime = opening, !.currentNode = n]
    BY DEF With, WalkState
  <2>2. m = PushStats(u, 0)
    BY <1>1, <2>1 DEF MoveNextStart
  <2>3. opening \in Nat
    BY <1>0
  <2> HIDE DEF opening
  <2>a. /\ w.currentDistanceMeters \in Nat /\ w.currentLoad \in Int
        /\ w.currentVolume \in Int /\ w.taskTaken \in Int
    BY FieldTypes
  <2>4. /\ u \in WalkState /\ u.currentNode = n /\ u.taskTaken = w.taskTaken
        /\ u.currentLoad = w.currentLoad /\ u.currentVolume = w.currentVolume
        /\ u.currentDistanceMeters = w.currentDistanceMeters /\ u.stats = w.stats
        /\ u.currentTime = opening /\ u.routeStartTime = opening
    BY <2>3, <2>a, WithType
  <2> HIDE DEF u
  <2>5. /\ m \in WalkState /\ m.currentNode = n /\ m.taskTaken = w.taskTaken
        /\ m.currentLoad = w.currentLoad /\ m.currentVolume = w.currentVolume
        /\ m.currentDistanceMeters = w.currentDistanceMeters
        /\ m.stats = Append(w.stats, Entry(m, 0))
        /\ m.currentTime = opening /\ m.routeStartTime = opening
    BY <1>0, <2>2, <2>4, PushType
  <2>6. m.currentDistanceMeters - w.currentDistanceMeters = 0
    BY <2>5, FieldTypes
  <2> QED
    BY <1>1, <2>3, <2>5, <2>6 DEF Clock, Arrives, opening
<1>2. CASE w.currentNode # NoNode
  <2> DEFINE d == Drive(w, n)
             leg == DestMeters[w.currentNode][n]
             u == [d EXCEPT !.currentNode = n]
  <2>1. /\ d \in WalkState /\ Clock(d) /\ d.currentTime >= Point(n).ts
        /\ d.currentTime >= w.currentTime
        /\ d.currentDistanceMeters = w.currentDistanceMeters + leg
        /\ d.currentLoad = w.currentLoad /\ d.currentVolume = w.currentVolume
        /\ d.taskTaken = w.taskTaken /\ d.stats = w.stats /\ leg \in Nat
    BY <1>2, DriveType
  <2>2. m = PushStats(u, leg)
    BY <1>2 DEF MoveNextStart
  <2> HIDE DEF d, leg
  <2>4. /\ u \in WalkState /\ u.currentNode = n /\ u.taskTaken = d.taskTaken
        /\ u.currentLoad = d.currentLoad /\ u.currentVolume = d.currentVolume
        /\ u.currentDistanceMeters = d.currentDistanceMeters /\ u.stats = d.stats
        /\ u.currentTime = d.currentTime /\ u.routeStartTime = d.routeStartTime
    BY <2>1 DEF WalkState
  <2> HIDE DEF u
  <2>5. /\ m \in WalkState /\ m.currentNode = n /\ m.taskTaken = w.taskTaken
        /\ m.currentLoad = w.currentLoad /\ m.currentVolume = w.currentVolume
        /\ m.currentDistanceMeters = w.currentDistanceMeters + leg
        /\ m.stats = Append(w.stats, Entry(m, leg))
        /\ m.currentTime = d.currentTime /\ m.routeStartTime = d.routeStartTime
    BY <1>0, <2>1, <2>2, <2>4, PushType
  <2>6. m.currentDistanceMeters - w.currentDistanceMeters = leg
    BY <2>1, <2>5, FieldTypes
  <2> QED
    BY <1>2, <2>1, <2>5, <2>6 DEF Clock, Arrives
<1> QED
  BY <1>1, <1>2

LEMMA ProcessLoadType ==
  ASSUME NEW w \in WalkState, Clock(w), w.currentNode # NoNode, NEW n \in Nodes,
         NEW m, m = ProcessLoad(w, n)
  PROVE  /\ Serves(w, m, n)
         /\ m.taskTaken = w.taskTaken + 1
         /\ m.currentLoad = w.currentLoad + Task[TaskOf(n)].capacity
         /\ m.currentVolume = w.currentVolume + Task[TaskOf(n)].volume
<1> DEFINE time   == w.currentTime + Point(n).dur
           load   == w.currentLoad + Task[TaskOf(n)].capacity
           volume == w.currentVolume + Task[TaskOf(n)].volume
           taken  == w.taskTaken + 1
           u == With(w, time, w.routeStartTime, w.currentDistanceMeters, load, volume, taken,
                     w.currentNode)
<1>1. u = [w EXCEPT !.currentTime = time, !.currentLoad = load, !.currentVolume = volume,
                    !.taskTaken = taken]
  BY DEF With, WalkState
<1>2. m = PushStats(u, 0)
  BY <1>1 DEF ProcessLoad
<1>a. /\ w.currentTime \in Nat /\ w.routeStartTime \in Nat
      /\ w.currentDistanceMeters \in Nat /\ w.currentLoad \in Int
      /\ w.currentVolume \in Int /\ w.taskTaken \in Int
      /\ w.currentNode \in Nodes \cup {NoNode}
  BY FieldTypes
<1>b. /\ Point(n).dur \in Nat /\ Task[TaskOf(n)].capacity \in Nat
      /\ Task[TaskOf(n)].volume \in Nat
  BY PointType
<1>3. /\ time \in Nat /\ time >= w.routeStartTime /\ load \in Int /\ volume \in Int
      /\ taken \in Int
  BY <1>a, <1>b DEF Clock
<1> HIDE DEF time, load, volume, taken
<1>4. /\ u \in WalkState /\ u.currentTime = time /\ u.routeStartTime = w.routeStartTime
      /\ u.currentDistanceMeters = w.currentDistanceMeters /\ u.currentLoad = load
      /\ u.currentVolume = volume /\ u.stats = w.stats
      /\ u.taskTaken = taken /\ u.currentNode = w.currentNode
  BY <1>a, <1>3, WithType
<1> HIDE DEF u
<1>5. /\ m \in WalkState /\ m.currentTime = time /\ m.routeStartTime = w.routeStartTime
      /\ m.currentDistanceMeters = w.currentDistanceMeters /\ m.currentLoad = load
      /\ m.currentVolume = volume /\ m.stats = Append(w.stats, Entry(m, 0))
      /\ m.taskTaken = taken /\ m.currentNode = w.currentNode
  BY <1>2, <1>4, PushType
<1> QED
  BY <1>3, <1>5 DEF Clock, Serves, time, load, volume, taken

LEMMA MoveNextEndType ==
  ASSUME NEW w \in WalkState, Clock(w), w.currentNode # NoNode, NEW n \in Nodes,
         NEW m, m = MoveNextEnd(w, n)
  PROVE  Arrives(w, m, n) /\ m.currentNode = w.currentNode
<1> DEFINE d == Drive(w, n)
           leg == DestMeters[w.currentNode][n]
<1>1. /\ d \in WalkState /\ Clock(d) /\ d.currentTime >= Point(n).ts
      /\ d.currentTime >= w.currentTime
      /\ d.currentDistanceMeters = w.currentDistanceMeters + leg
      /\ d.currentLoad = w.currentLoad /\ d.currentVolume = w.currentVolume
      /\ d.taskTaken = w.taskTaken /\ d.stats = w.stats /\ leg \in Nat
      /\ d.currentNode = w.currentNode
  BY DriveType
<1>2. m = PushStats(d, leg)
  BY DEF MoveNextEnd
<1> HIDE DEF d, leg
<1>3. /\ m \in WalkState /\ m.currentNode = w.currentNode /\ m.taskTaken = w.taskTaken
      /\ m.currentLoad = w.currentLoad /\ m.currentVolume = w.currentVolume
      /\ m.currentDistanceMeters = w.currentDistanceMeters + leg
      /\ m.stats = Append(w.stats, Entry(m, leg))
      /\ m.currentTime = d.currentTime /\ m.routeStartTime = d.routeStartTime
  BY <1>1, <1>2, PushType
<1>4. m.currentDistanceMeters - w.currentDistanceMeters = leg
  BY <1>1, <1>3, FieldTypes
<1> QED
  BY <1>1, <1>3, <1>4 DEF Clock, Arrives

LEMMA ServeEndType ==
  ASSUME NEW w \in WalkState, Clock(w), NEW n \in Nodes, NEW m, m = ServeEnd(w, n)
  PROVE  /\ m \in WalkState
         /\ Clock(m)
         /\ m.currentTime = w.currentTime + Point(n).dur
         /\ m.routeStartTime = w.routeStartTime
         /\ m.currentDistanceMeters = w.currentDistanceMeters
         /\ m.currentLoad = w.currentLoad
         /\ m.currentVolume = w.currentVolume
         /\ m.taskTaken = w.taskTaken
         /\ m.currentNode = w.currentNode
         /\ m.stats = w.stats
<1> DEFINE time == w.currentTime + Point(n).dur
<1>1. time \in Nat /\ time >= w.routeStartTime
  BY PointType, FieldTypes DEF Clock
<1>2. m = [w EXCEPT !.currentTime = time]
  BY DEF ServeEnd
<1> HIDE DEF time
<1>3. /\ m \in WalkState /\ m.currentTime = time /\ m.routeStartTime = w.routeStartTime
      /\ m.currentDistanceMeters = w.currentDistanceMeters /\ m.currentLoad = w.currentLoad
      /\ m.currentVolume = w.currentVolume /\ m.taskTaken = w.taskTaken
      /\ m.currentNode = w.currentNode /\ m.stats = w.stats
  BY <1>1, <1>2 DEF WalkState
<1> QED
  BY <1>1, <1>3 DEF Clock, time

LEMMA ProcessUnloadType ==
  ASSUME NEW w \in WalkState, Clock(w), w.currentNode # NoNode, NEW n \in Nodes,
         NEW m, m = ProcessUnload(w, n)
  PROVE  /\ Serves(w, m, n)
         /\ m.taskTaken = w.taskTaken - 1
         /\ m.currentLoad = w.currentLoad - Task[TaskOf(n)].capacity
         /\ m.currentVolume = w.currentVolume - Task[TaskOf(n)].volume
<1> DEFINE e      == ServeEnd(w, n)
           load   == e.currentLoad - Task[TaskOf(n)].capacity
           volume == e.currentVolume - Task[TaskOf(n)].volume
           taken  == e.taskTaken - 1
           u == With(e, e.currentTime, e.routeStartTime, e.currentDistanceMeters, load, volume,
                     taken, e.currentNode)
<1>1. /\ e \in WalkState /\ Clock(e) /\ e.currentTime = w.currentTime + Point(n).dur
      /\ e.routeStartTime = w.routeStartTime
      /\ e.currentDistanceMeters = w.currentDistanceMeters
      /\ e.currentLoad = w.currentLoad /\ e.currentVolume = w.currentVolume
      /\ e.taskTaken = w.taskTaken /\ e.currentNode = w.currentNode /\ e.stats = w.stats
  BY ServeEndType
<1>a. /\ e.currentTime \in Nat /\ e.routeStartTime \in Nat
      /\ e.currentDistanceMeters \in Nat /\ e.currentLoad \in Int
      /\ e.currentVolume \in Int /\ e.taskTaken \in Int
      /\ e.currentNode \in Nodes \cup {NoNode}
  BY <1>1, FieldTypes
<1>b. Task[TaskOf(n)].capacity \in Nat /\ Task[TaskOf(n)].volume \in Nat
  BY PointType
<1>2. u = [e EXCEPT !.currentLoad = load, !.currentVolume = volume, !.taskTaken = taken]
  BY <1>1 DEF With, WalkState
<1>3. m = PushStats(u, 0)
  BY <1>2 DEF ProcessUnload
<1> HIDE DEF e
<1>4. /\ load \in Int /\ volume \in Int /\ taken \in Int
      /\ load = w.currentLoad - Task[TaskOf(n)].capacity
      /\ volume = w.currentVolume - Task[TaskOf(n)].volume
      /\ taken = w.taskTaken - 1
  BY <1>1, <1>a, <1>b
<1> HIDE DEF load, volume, taken
<1>5. /\ u \in WalkState /\ u.currentTime = e.currentTime
      /\ u.routeStartTime = e.routeStartTime
      /\ u.currentDistanceMeters = e.currentDistanceMeters /\ u.currentLoad = load
      /\ u.currentVolume = volume /\ u.stats = e.stats
      /\ u.taskTaken = taken /\ u.currentNode = e.currentNode
  BY <1>1, <1>a, <1>4, WithType
<1> HIDE DEF u
<1>6. /\ m \in WalkState /\ m.currentTime = e.currentTime
      /\ m.routeStartTime = e.routeStartTime
      /\ m.currentDistanceMeters = e.currentDistanceMeters /\ m.currentLoad = load
      /\ m.currentVolume = volume /\ m.stats = Append(e.stats, Entry(m, 0))
      /\ m.taskTaken = taken /\ m.currentNode = e.currentNode
  BY <1>1, <1>3, <1>5, PushType
<1> QED
  BY <1>1, <1>4, <1>6 DEF Clock, Serves

LEMMA FailedUnloadType ==
  ASSUME NEW w \in WalkState, Clock(w), NEW n \in Nodes
  PROVE  /\ FailedUnload(w, n) \in WalkState
         /\ Clock(FailedUnload(w, n))
         /\ FailedUnload(w, n).currentNode = w.currentNode
         /\ FailedUnload(w, n).taskTaken = w.taskTaken
         /\ FailedUnload(w, n).stats = w.stats
  BY ServeEndType DEF FailedUnload

LEMMA StatType ==
  ASSUME NEW w \in WalkState, Clock(w), NEW v \in VehicleIds, NEW ns \in Routes
  PROVE  StatOfWalk(w, v, ns) \in Stat
<1> DEFINE time == TotalTimeSpend(w)
           far  == TotalDistance(w)
           cost == TotalCostOfRoute(w, v)
<1>1. time \in Nat /\ far \in Nat
  BY FieldTypes DEF TotalTimeSpend, TotalDistance, Clock
<1>2. Vehicle[v].costOfUsing \in Nat
  BY FleetAssumption DEF VehicleType
<1>3. cost \in Nat
  <2> DEFINE price == Vehicle[v].costOfUsing
  <2>1. price \in Nat
    BY <1>2
  <2>2. cost = IF Vehicle[v].costPerKM THEN far * price * 36 ELSE price * time * 10
    BY DEF TotalCostOfRoute
  <2> HIDE DEF time, far, price, cost
  <2>3. far * price \in Nat /\ price * time \in Nat
    BY <1>1, <2>1
  <2>4. far * price * 36 \in Nat /\ price * time * 10 \in Nat
    BY <2>3
  <2> QED
    BY <2>2, <2>4
<1>4. VipCount(ns) \in Nat
  <2>1. ns \in Seq(Nodes) /\ DOMAIN ns = 1 .. Len(ns) /\ Len(ns) \in Nat
    BY NodesOfRoute
  <2>2. IsFiniteSet(DOMAIN ns)
    BY <2>1, FS_Interval
  <2>3. IsFiniteSet({i \in DOMAIN ns : Task[TaskOf(ns[i])].vip})
    BY <2>2, FS_Subset
  <2> QED
    BY <2>3, FS_CardinalityType DEF VipCount
<1>5. StatOfWalk(w, v, ns) =
        [cost |-> cost, distance |-> far, time |-> time, vipCount |-> VipCount(ns)]
  BY DEF StatOfWalk
<1> HIDE DEF time, far, cost
<1> QED
  BY <1>1, <1>3, <1>4, <1>5 DEF Stat

-----------------------------------------------------------------------------
(* The loop *)

\* a truck and what was wrong, if anything, between two turns of the loop
States == {a \in [walk : WalkState, event : CheckEvents] : Clock(a.walk)}

Proceed(v, a, n) == IF a.event = NoEvent THEN Visit(v, a.walk, n) ELSE a

Start == [walk |-> NewWalk, event |-> NoEvent]

LEMMA FailureType ==
  ASSUME NEW w, NEW v, NEW n
  PROVE  /\ LoadFailure(w, v, n) \in CheckEvents
         /\ MoveEndFailure(w) \in CheckEvents
         /\ UnloadFailure(w, v, n) \in CheckEvents
  BY DEF LoadFailure, MoveEndFailure, UnloadFailure, WalkEvents, CheckEvents

LEMMA StartType == Start \in States
<1>1. NewWalk \in WalkState /\ Clock(NewWalk)
  BY DEF NewWalk, WalkState, Clock
<1> QED
  BY <1>1 DEF Start, States, CheckEvents

\* a turn of the loop leaves a truck and an event
LEMMA TurnType ==
  ASSUME NEW v \in VehicleIds, NEW a \in States, NEW n \in Nodes
  PROVE  Proceed(v, a, n) \in States
<1> DEFINE w == a.walk
           r == Visit(v, w, n)
<1>0. w \in WalkState /\ Clock(w) /\ n # NoNode
  BY DEF States, Nodes, NoNode
<1>1. CASE a.event # NoEvent
  BY <1>1 DEF Proceed
<1>2. CASE IsTaskStart(n)
  <2> DEFINE here   == MoveNextStart(w, n)
             loaded == ProcessLoad(here, n)
  <2>1. here \in WalkState /\ Clock(here) /\ here.currentNode # NoNode
    BY <1>0, MoveNextStartType DEF Arrives
  <2>2. loaded \in WalkState /\ Clock(loaded)
    BY <2>1, ProcessLoadType DEF Serves
  <2>3. r = [walk |-> loaded, event |-> LoadFailure(loaded, v, n)]
    BY <1>2 DEF Visit
  <2> HIDE DEF loaded, r
  <2>4. r \in States
    BY <2>2, <2>3, FailureType DEF States
  <2> QED
    BY <2>4 DEF Proceed, r
<1>3. CASE ~IsTaskStart(n) /\ MoveEndFailure(w) # NoEvent
  <2>1. r = [walk |-> w, event |-> MoveEndFailure(w)]
    BY <1>3 DEF Visit
  <2> HIDE DEF r
  <2>2. r \in States
    BY <1>0, <2>1, FailureType DEF States
  <2> QED
    BY <2>2 DEF Proceed, r
<1>4. CASE ~IsTaskStart(n) /\ MoveEndFailure(w) = NoEvent
  <2> DEFINE there   == MoveNextEnd(w, n)
             failure == UnloadFailure(there, v, n)
             end     == IF failure = NoEvent THEN ProcessUnload(there, n)
                                             ELSE FailedUnload(there, n)
  <2>0. w.currentNode # NoNode
    BY <1>4 DEF MoveEndFailure, NoEvent
  <2>1. there \in WalkState /\ Clock(there) /\ there.currentNode # NoNode
    BY <1>0, <2>0, MoveNextEndType DEF Arrives
  <2> HIDE DEF there
  <2>2. end \in WalkState /\ Clock(end)
    BY <2>1, ProcessUnloadType, FailedUnloadType DEF Serves
  <2>3. r = [walk |-> end, event |-> failure]
    BY <1>4 DEF Visit, there
  <2> HIDE DEF end, failure, r
  <2>4. failure \in CheckEvents
    BY FailureType DEF failure
  <2>5. r \in States
    BY <2>2, <2>3, <2>4 DEF States
  <2> QED
    BY <2>5 DEF Proceed, r
<1> QED
  BY <1>1, <1>2, <1>3, <1>4

\* the iteration that FoldLeft chooses for the nodes up to each point of the route
IsLoop(h, v, ns) ==
    h = [T \in SUBSET DOMAIN ns |->
           IF T = {} THEN Start ELSE Proceed(v, h[T \ {Max(T)}], ns[Max(T)])]
Loop(v, ns)  == CHOOSE h : IsLoop(h, v, ns)
\* the truck behind the first k nodes
After(v, ns, k) == Loop(v, ns)[1 .. k]

LEMMA WalkIsLoop ==
  ASSUME NEW v, NEW ns
  PROVE  Walk(v, ns) = Loop(v, ns)[DOMAIN ns]
  BY Zenon DEF Walk, FoldLeft, MapThenFoldSet, Loop, IsLoop, Proceed, Start

LEMMA LoopExists ==
  ASSUME NEW v \in VehicleIds, NEW ns \in Seq(Nodes)
  PROVE  IsLoop(Loop(v, ns), v, ns)
<1> DEFINE step == [a \in States |-> [n \in Nodes |-> Proceed(v, a, n)]]
<1>1. step \in [States -> [Nodes -> States]]
  BY TurnType
<1> HIDE DEF step
<1>2. PICK f \in [SUBSET DOMAIN ns -> States] : IsLeftFold(f, Start, step, ns)
  BY <1>1, StartType, LeftExists, Zenon
<1>3. \A T \in SUBSET DOMAIN ns : T # {} =>
         step[f[T \ {Max(T)}]][ns[Max(T)]] = Proceed(v, f[T \ {Max(T)}], ns[Max(T)])
  <2> SUFFICES ASSUME NEW T \in SUBSET DOMAIN ns, T # {}
               PROVE  step[f[T \ {Max(T)}]][ns[Max(T)]]
                        = Proceed(v, f[T \ {Max(T)}], ns[Max(T)])
    OBVIOUS
  <2>0. DOMAIN ns = 1 .. Len(ns) /\ Len(ns) \in Nat
    OBVIOUS
  <2>1. Max(T) \in DOMAIN ns
    BY <2>0, MaxPicks
  <2>2. f[T \ {Max(T)}] \in States /\ ns[Max(T)] \in Nodes
    BY <2>1
  <2> QED
    BY <2>2 DEF step
<1>4. f = [T \in SUBSET DOMAIN ns |->
             IF T = {} THEN Start ELSE Proceed(v, f[T \ {Max(T)}], ns[Max(T)])]
  BY <1>2, <1>3 DEF IsLeftFold
<1>5. \E h : IsLoop(h, v, ns)
  BY <1>4 DEF IsLoop
<1> QED
  BY <1>5 DEF Loop

\* one more node is one more turn
LEMMA AfterStep ==
  ASSUME NEW v \in VehicleIds, NEW ns \in Seq(Nodes)
  PROVE  /\ After(v, ns, 0) = Start
         /\ \A k \in 0 .. Len(ns) : After(v, ns, k) \in States
         /\ \A k \in 0 .. Len(ns) - 1 :
               After(v, ns, k + 1) = Proceed(v, After(v, ns, k), ns[k + 1])
         /\ Walk(v, ns) = After(v, ns, Len(ns))
<1> DEFINE step == [a \in States |-> [n \in Nodes |-> Proceed(v, a, n)]]
           h == Loop(v, ns)
<1>0. DOMAIN ns = 1 .. Len(ns) /\ Len(ns) \in Nat /\ \A i \in DOMAIN ns : ns[i] \in Nodes
  OBVIOUS
<1>1. step \in [States -> [Nodes -> States]]
  BY TurnType
<1>2. \A a \in States, n \in Nodes : step[a][n] = Proceed(v, a, n)
  OBVIOUS
<1>3. \A T \in SUBSET DOMAIN ns :
         h[T] = IF T = {} THEN Start ELSE Proceed(v, h[T \ {Max(T)}], ns[Max(T)])
  BY LoopExists DEF IsLoop
<1>4. Walk(v, ns) = h[DOMAIN ns]
  BY WalkIsLoop
<1> HIDE DEF h, step
<1>5. \A T \in SUBSET DOMAIN ns : T # {} => Max(T) \in DOMAIN ns
  BY <1>0, MaxPicks
<1>6. StepsLeft(h, Start, step, ns, States)
  BY <1>0, <1>2, <1>3, <1>5 DEF StepsLeft
<1>7. FoldsLeft(h, Start, step, ns, States)
  BY <1>1, <1>6, StartType, LeftStep, Zenon
<1>8. ASSUME NEW k \in 0 .. Len(ns) - 1
      PROVE  h[1 .. k + 1] = Proceed(v, h[1 .. k], ns[k + 1])
  <2>1. k \in 0 .. Len(ns) /\ k + 1 \in DOMAIN ns
    BY <1>0
  <2> QED
    BY <1>0, <1>2, <1>7, <2>1 DEF FoldsLeft
<1> QED
  BY <1>0, <1>4, <1>7, <1>8 DEF After, FoldsLeft, h

\* what is wrong with the first k nodes is wrong with the route
LEMMA FailureStays ==
  ASSUME NEW v \in VehicleIds, NEW ns \in Seq(Nodes), NEW k \in 0 .. Len(ns),
         After(v, ns, k).event # NoEvent
  PROVE  Walk(v, ns).event = After(v, ns, k).event
<1> DEFINE e == After(v, ns, k).event
           S == {i \in Nat : k + i <= Len(ns) => After(v, ns, k + i).event = e}
<1>0. Len(ns) \in Nat /\ k \in Nat
  OBVIOUS
<1>1. 0 \in S
  BY <1>0
<1>2. \A i \in Nat : i \in S => i + 1 \in S
  <2> SUFFICES ASSUME NEW i \in Nat, i \in S, k + (i + 1) <= Len(ns)
               PROVE  After(v, ns, k + (i + 1)).event = e
    OBVIOUS
  <2>1. k + i \in 0 .. Len(ns) - 1 /\ k + (i + 1) = (k + i) + 1
    BY <1>0
  <2>2. After(v, ns, k + i).event = e
    BY <1>0
  <2>3. After(v, ns, (k + i) + 1) = Proceed(v, After(v, ns, k + i), ns[(k + i) + 1])
    BY <2>1, AfterStep
  <2>4. Proceed(v, After(v, ns, k + i), ns[(k + i) + 1]) = After(v, ns, k + i)
    BY <2>2 DEF Proceed
  <2> QED
    BY <2>1, <2>2, <2>3, <2>4
<1>3. Nat \subseteq S
  BY <1>1, <1>2, Induction
<1>4. Len(ns) - k \in Nat /\ k + (Len(ns) - k) = Len(ns)
  BY <1>0
<1>5. After(v, ns, Len(ns)).event = e
  <2>1. Len(ns) - k \in S
    BY <1>3, <1>4
  <2> QED
    BY <1>0, <1>4, <2>1
<1> QED
  BY <1>5, AfterStep

-----------------------------------------------------------------------------
(* What is on board behind the first k nodes of a route.                    *)

\* the tasks that were loaded and not unloaded
Aboard(ns, k) ==
    {t \in TaskIds : /\ \E i \in 1 .. k : ns[i] = 2 * t
                     /\ ~ \E i \in 1 .. k : ns[i] = 2 * t + 1}

LEMMA AboardFinite ==
  ASSUME NEW ns, NEW k
  PROVE  Aboard(ns, k) \subseteq TaskIds /\ IsFiniteSet(Aboard(ns, k))
<1>1. IsFiniteSet(TaskIds)
  BY FleetAssumption, FS_Interval DEF TaskIds
<1>2. Aboard(ns, k) \subseteq TaskIds
  BY DEF Aboard
<1> QED
  BY <1>1, <1>2, FS_Subset

\* a loading node puts its task, and no other, on board
LEMMA AboardLoad ==
  ASSUME NEW ns \in Routes, ~UnloadsBeforeLoad(ns), NEW k \in 1 .. Len(ns), IsTaskStart(ns[k])
  PROVE  /\ Aboard(ns, k) = Aboard(ns, k - 1) \cup {TaskOf(ns[k])}
         /\ TaskOf(ns[k]) \notin Aboard(ns, k - 1)
<1>1. ns \in Seq(Nodes) /\ DOMAIN ns = 1 .. Len(ns) /\ ns[k] \in Nodes /\ k \in Nat
  BY NodesOfRoute
<1>2. \A i, j \in 1 .. Len(ns) : ns[i] = ns[j] => i = j
  BY NodesOfRoute
<1> DEFINE t == TaskOf(ns[k])
<1>3. t \in TaskIds /\ ns[k] = 2 * t /\ t \in Int
  BY <1>1, NodeTask, FleetAssumption DEF TaskIds
<1> HIDE DEF t
<1>5. \A i \in 1 .. k - 1 : ns[i] # 2 * t
  BY <1>1, <1>2, <1>3
<1>6. \A i \in 1 .. k : ns[i] # 2 * t + 1
  <2> SUFFICES ASSUME NEW i \in 1 .. k, ns[i] = 2 * t + 1 PROVE FALSE
    OBVIOUS
  <2>1. i \in DOMAIN ns /\ ~IsTaskStart(ns[i])
    BY <1>1, <1>3 DEF IsTaskStart
  <2>2. PICK j \in DOMAIN ns : j < i /\ ns[j] = ns[i] - 1
    BY <2>1 DEF UnloadsBeforeLoad
  <2>3. ns[j] = 2 * t
    BY <1>3, <2>2
  <2> QED
    BY <1>1, <1>5, <2>2, <2>3
<1>7. \A u \in TaskIds : u # t => ns[k] # 2 * u /\ ns[k] # 2 * u + 1
  BY <1>3, FleetAssumption DEF TaskIds
<1>8. 1 .. k = (1 .. k - 1) \cup {k}
  BY <1>1
<1>9. \A u \in TaskIds : u # t => (u \in Aboard(ns, k) <=> u \in Aboard(ns, k - 1))
  BY <1>7, <1>8 DEF Aboard
<1>10. t \in Aboard(ns, k) /\ t \notin Aboard(ns, k - 1)
  BY <1>3, <1>5, <1>6, <1>8 DEF Aboard
<1> QED
  BY <1>3, <1>9, <1>10, AboardFinite DEF t

\* an unloading node takes its task, which was on board, off it
LEMMA AboardUnload ==
  ASSUME NEW ns \in Routes, ~UnloadsBeforeLoad(ns), NEW k \in 1 .. Len(ns), ~IsTaskStart(ns[k])
  PROVE  /\ Aboard(ns, k) = Aboard(ns, k - 1) \ {TaskOf(ns[k])}
         /\ TaskOf(ns[k]) \in Aboard(ns, k - 1)
<1>1. ns \in Seq(Nodes) /\ DOMAIN ns = 1 .. Len(ns) /\ ns[k] \in Nodes /\ k \in Nat
  BY NodesOfRoute
<1>2. \A i, j \in 1 .. Len(ns) : ns[i] = ns[j] => i = j
  BY NodesOfRoute
<1> DEFINE t == TaskOf(ns[k])
<1>3. t \in TaskIds /\ ns[k] = 2 * t + 1 /\ t \in Int
  BY <1>1, NodeTask, FleetAssumption DEF TaskIds
<1> HIDE DEF t
<1>5. \A i \in 1 .. k - 1 : ns[i] # 2 * t + 1
  BY <1>1, <1>2, <1>3
<1>6. \E i \in 1 .. k - 1 : ns[i] = 2 * t
  <2>1. PICK j \in DOMAIN ns : j < k /\ ns[j] = ns[k] - 1
    BY <1>1 DEF UnloadsBeforeLoad
  <2>2. ns[j] = 2 * t /\ j \in 1 .. k - 1
    BY <1>1, <1>3, <2>1
  <2> QED
    BY <2>2
<1>7. \A u \in TaskIds : u # t => ns[k] # 2 * u /\ ns[k] # 2 * u + 1
  BY <1>3, FleetAssumption DEF TaskIds
<1>8. 1 .. k = (1 .. k - 1) \cup {k}
  BY <1>1
<1>9. \A u \in TaskIds : u # t => (u \in Aboard(ns, k) <=> u \in Aboard(ns, k - 1))
  BY <1>7, <1>8 DEF Aboard
<1>10. t \notin Aboard(ns, k) /\ t \in Aboard(ns, k - 1)
  BY <1>3, <1>5, <1>6, <1>8 DEF Aboard
<1> QED
  BY <1>3, <1>9, <1>10, AboardFinite DEF t

\* the weights of the tasks
CapacityOf == [t \in TaskIds |-> Task[t].capacity]
VolumeOf   == [t \in TaskIds |-> Task[t].volume]

\* the truck w carries the tasks of T
Carries(w, T) ==
    /\ w.taskTaken = Cardinality(T)
    /\ w.currentLoad = SumFunctionOnSet(CapacityOf, T)
    /\ w.currentVolume = SumFunctionOnSet(VolumeOf, T)

LEMMA Weights == \A t \in TaskIds : /\ CapacityOf[t] = Task[t].capacity /\ CapacityOf[t] \in Int
                                    /\ VolumeOf[t] = Task[t].volume /\ VolumeOf[t] \in Int
<1>1. \A t \in TaskIds : Task[t] \in TaskType
  BY FleetAssumption
<1> QED
  BY <1>1 DEF CapacityOf, VolumeOf, TaskType

LEMMA CarriesMore ==
  ASSUME NEW T, T \subseteq TaskIds, IsFiniteSet(T), NEW t \in TaskIds, t \notin T,
         NEW w, Carries(w, T), NEW u,
         u.taskTaken = w.taskTaken + 1,
         u.currentLoad = w.currentLoad + Task[t].capacity,
         u.currentVolume = w.currentVolume + Task[t].volume
  PROVE  Carries(u, T \cup {t})
<1>1. Cardinality(T \cup {t}) = Cardinality(T) + 1
  BY FS_AddElement
<1>2. \A x \in T \cup {t} : CapacityOf[x] \in Int /\ VolumeOf[x] \in Int
  BY Weights
<1>3. /\ SumFunctionOnSet(CapacityOf, T \cup {t}) = CapacityOf[t] + SumFunctionOnSet(CapacityOf, T)
      /\ SumFunctionOnSet(VolumeOf, T \cup {t}) = VolumeOf[t] + SumFunctionOnSet(VolumeOf, T)
  BY <1>2, SumAdd
<1>4. /\ SumFunctionOnSet(CapacityOf, T) \in Int /\ SumFunctionOnSet(VolumeOf, T) \in Int
      /\ CapacityOf[t] = Task[t].capacity /\ VolumeOf[t] = Task[t].volume
      /\ CapacityOf[t] \in Int /\ VolumeOf[t] \in Int
  BY <1>2, SumType, Weights
<1> QED
  BY <1>1, <1>3, <1>4 DEF Carries

LEMMA CarriesLess ==
  ASSUME NEW T, T \subseteq TaskIds, IsFiniteSet(T), NEW t \in T,
         NEW w, Carries(w, T), NEW u,
         u.taskTaken = w.taskTaken - 1,
         u.currentLoad = w.currentLoad - Task[t].capacity,
         u.currentVolume = w.currentVolume - Task[t].volume
  PROVE  Carries(u, T \ {t})
<1>1. Cardinality(T \ {t}) = Cardinality(T) - 1
  BY FS_RemoveElement
<1>2. \A x \in T : CapacityOf[x] \in Int /\ VolumeOf[x] \in Int
  BY Weights
<1>3. /\ SumFunctionOnSet(CapacityOf, T) = CapacityOf[t] + SumFunctionOnSet(CapacityOf, T \ {t})
      /\ SumFunctionOnSet(VolumeOf, T) = VolumeOf[t] + SumFunctionOnSet(VolumeOf, T \ {t})
  BY <1>2, SumRemove
<1>4. IsFiniteSet(T \ {t}) /\ \A x \in T \ {t} : CapacityOf[x] \in Int /\ VolumeOf[x] \in Int
  BY <1>2, FS_Subset
<1>5. /\ SumFunctionOnSet(CapacityOf, T \ {t}) \in Int /\ SumFunctionOnSet(VolumeOf, T \ {t}) \in Int
      /\ CapacityOf[t] = Task[t].capacity /\ VolumeOf[t] = Task[t].volume
      /\ CapacityOf[t] \in Int /\ VolumeOf[t] \in Int
  BY <1>4, SumType, Weights
<1> QED
  BY <1>1, <1>3, <1>5 DEF Carries

-----------------------------------------------------------------------------
(* One turn of the loop that goes well.                                     *)

\* the truck w has become u, with two more entries, by serving a node
Visited(w, u, p1, p2) ==
    /\ p1 \in PointStat /\ p2 \in PointStat
    /\ u.stats = Append(Append(w.stats, p1), p2)
    /\ p1.workload = w.currentLoad /\ p2.workload = u.currentLoad
    /\ p1.volume = w.currentVolume /\ p2.volume = u.currentVolume
    /\ p1.tasksCount = w.taskTaken /\ p2.tasksCount = u.taskTaken
    /\ p1.distance = u.currentDistanceMeters - w.currentDistanceMeters /\ p2.distance = 0
    /\ p1.time <= p2.time /\ p2.time = u.currentTime
    /\ w.currentNode # NoNode => w.currentTime <= p1.time
    /\ u.currentNode # NoNode

\* and its load has changed by that of the task of n
LoadChanged(w, u, n) ==
    IF IsTaskStart(n)
    THEN /\ u.taskTaken = w.taskTaken + 1
         /\ u.currentLoad = w.currentLoad + Task[TaskOf(n)].capacity
         /\ u.currentVolume = w.currentVolume + Task[TaskOf(n)].volume
    ELSE /\ u.taskTaken = w.taskTaken - 1
         /\ u.currentLoad = w.currentLoad - Task[TaskOf(n)].capacity
         /\ u.currentVolume = w.currentVolume - Task[TaskOf(n)].volume

LEMMA EntryType ==
  ASSUME NEW m \in WalkState, m.currentNode # NoNode, NEW d \in Nat
  PROVE  Entry(m, d) \in PointStat
<1>1. m.currentNode \in Nodes
  BY FieldTypes
<1> QED
  BY <1>1, FieldTypes DEF Entry, PointStat

\* arriving as m and then serving as u is a visit
LEMMA ArriveServe ==
  ASSUME NEW w \in WalkState, NEW n \in Nodes, NEW m, Arrives(w, m, n), m.currentNode # NoNode,
         NEW u, Serves(m, u, n)
  PROVE  \E p1, p2 : Visited(w, u, p1, p2)
<1> DEFINE d == m.currentDistanceMeters - w.currentDistanceMeters
           p1 == Entry(m, d)
           p2 == Entry(u, 0)
<1>1. m \in WalkState /\ u \in WalkState /\ u.currentNode # NoNode
  BY DEF Arrives, Serves
<1>2. m.stats = Append(w.stats, p1) /\ u.stats = Append(m.stats, p2)
  BY DEF Arrives, Serves
<1>3. m.stats \in Seq(PointStat) /\ u.stats \in Seq(PointStat) /\ w.stats \in Seq(PointStat)
  BY <1>1, FieldTypes
<1>4. p2 \in PointStat
  BY <1>1, EntryType
<1>5. p1 \in PointStat
  <2>1. m.stats[Len(w.stats) + 1] = p1 /\ Len(m.stats) = Len(w.stats) + 1
    <3> HIDE DEF p1
    <3> QED
      BY <1>2, <1>3
  <2>2. Len(w.stats) + 1 \in 1 .. Len(m.stats)
    BY <1>3, <2>1
  <2> QED
    BY <1>3, <2>1, <2>2
<1>6. /\ p1.workload = w.currentLoad /\ p1.volume = w.currentVolume /\ p1.tasksCount = w.taskTaken
      /\ p1.time = m.currentTime /\ p1.distance = d
  BY DEF Entry, Arrives
<1>7. /\ p2.workload = u.currentLoad /\ p2.volume = u.currentVolume /\ p2.tasksCount = u.taskTaken
      /\ p2.time = u.currentTime /\ p2.distance = 0
  BY DEF Entry
<1>8. /\ u.currentTime = m.currentTime + Point(n).dur /\ Point(n).dur \in Nat /\ m.currentTime \in Nat
      /\ u.currentDistanceMeters = m.currentDistanceMeters
      /\ w.currentNode # NoNode => m.currentTime >= w.currentTime
      /\ w.currentTime \in Nat
  BY <1>1, FieldTypes, PointType DEF Serves, Arrives
<1> HIDE DEF p1, p2
<1>9. Visited(w, u, p1, p2)
  BY <1>1, <1>2, <1>4, <1>5, <1>6, <1>7, <1>8 DEF Visited
<1> QED
  BY <1>9

LEMMA VisitLeaves ==
  ASSUME NEW v \in VehicleIds, NEW w \in WalkState, Clock(w), NEW n \in Nodes,
         Visit(v, w, n).event = NoEvent, NEW u, u = Visit(v, w, n).walk
  PROVE  (\E p1, p2 : Visited(w, u, p1, p2)) /\ LoadChanged(w, u, n)
<1>1. n # NoNode
  BY DEF Nodes, NoNode
<1>2. CASE IsTaskStart(n)
  <2> DEFINE m == MoveNextStart(w, n)
  <2>1. u = ProcessLoad(m, n)
    BY <1>2 DEF Visit
  <2>2. Arrives(w, m, n) /\ m.currentNode = n
    BY MoveNextStartType
  <2>3. m \in WalkState /\ Clock(m)
    BY <2>2 DEF Arrives
  <2> HIDE DEF m
  <2>4. /\ Serves(m, u, n)
        /\ u.taskTaken = m.taskTaken + 1
        /\ u.currentLoad = m.currentLoad + Task[TaskOf(n)].capacity
        /\ u.currentVolume = m.currentVolume + Task[TaskOf(n)].volume
    BY <1>1, <2>1, <2>2, <2>3, ProcessLoadType
  <2>5. \E p1, p2 : Visited(w, u, p1, p2)
    BY <1>1, <2>2, <2>4, ArriveServe
  <2> QED
    BY <1>2, <2>2, <2>4, <2>5 DEF LoadChanged, Arrives
<1>3. CASE ~IsTaskStart(n)
  <2> DEFINE m == MoveNextEnd(w, n)
  <2>1. MoveEndFailure(w) = NoEvent
    BY <1>3 DEF Visit
  <2>2. w.currentNode # NoNode
    BY <2>1 DEF MoveEndFailure, NoEvent
  <2>3. UnloadFailure(m, v, n) = NoEvent /\ u = ProcessUnload(m, n)
    BY <1>3, <2>1 DEF Visit
  <2>4. Arrives(w, m, n) /\ m.currentNode = w.currentNode
    BY <2>2, MoveNextEndType
  <2>5. m \in WalkState /\ Clock(m)
    BY <2>4 DEF Arrives
  <2> HIDE DEF m
  <2>6. /\ Serves(m, u, n)
        /\ u.taskTaken = m.taskTaken - 1
        /\ u.currentLoad = m.currentLoad - Task[TaskOf(n)].capacity
        /\ u.currentVolume = m.currentVolume - Task[TaskOf(n)].volume
    BY <2>2, <2>3, <2>4, <2>5, ProcessUnloadType
  <2>7. \E p1, p2 : Visited(w, u, p1, p2)
    BY <2>2, <2>4, <2>6, ArriveServe
  <2> QED
    BY <1>3, <2>4, <2>6, <2>7 DEF LoadChanged, Arrives
<1> QED
  BY <1>2, <1>3

-----------------------------------------------------------------------------
(* The statistics of a walk that went well.                                 *)

\* t is q and two more
Longer(t, q, a, b) ==
    /\ Len(t) = Len(q) + 2
    /\ \A j \in 1 .. Len(q) : t[j] = q[j]
    /\ t[Len(q) + 1] = a /\ t[Len(q) + 2] = b

LEMMA TwoMore ==
  ASSUME NEW S, NEW q \in Seq(S), NEW a \in S, NEW b \in S
  PROVE  Append(Append(q, a), b) \in Seq(S) /\ Longer(Append(Append(q, a), b), q, a, b)
<1> DEFINE m == Append(q, a)
<1>1. /\ m \in Seq(S) /\ Len(m) = Len(q) + 1 /\ m[Len(q) + 1] = a
      /\ \A j \in 1 .. Len(q) : m[j] = q[j]
  OBVIOUS
<1> HIDE DEF m
<1> DEFINE t == Append(m, b)
<1>3. /\ t \in Seq(S) /\ Len(t) = Len(m) + 1 /\ t[Len(m) + 1] = b
      /\ \A j \in 1 .. Len(m) : t[j] = m[j]
  BY <1>1
<1> HIDE DEF t
<1>4. Longer(t, q, a, b)
  BY <1>1, <1>3 DEF Longer
<1> QED
  BY <1>3, <1>4 DEF m, t

\* the i-th pair of entries is of the node that made the truck a to b
Written(st, i, a, b) ==
    /\ st[2 * i].workload - st[2 * i - 1].workload = b.currentLoad - a.currentLoad
    /\ st[2 * i].volume - st[2 * i - 1].volume = b.currentVolume - a.currentVolume
    /\ st[2 * i].tasksCount - st[2 * i - 1].tasksCount = b.taskTaken - a.taskTaken
    /\ st[2 * i - 1].distance - st[2 * i].distance = b.currentDistanceMeters - a.currentDistanceMeters
    /\ st[2 * i - 1].time <= st[2 * i].time
    /\ i > 1 => st[2 * i - 2].time <= st[2 * i - 1].time

\* all entries, for a truck that was ws[i] behind the i-th node
Statistics(st, ws, n) ==
    /\ st \in Seq(PointStat) /\ Len(st) = 2 * n
    /\ \A i \in 1 .. n : Written(st, i, ws[i - 1], ws[i])

LEMMA StatisticsGrow ==
  ASSUME NEW k \in Nat, NEW ws, NEW st, Statistics(st, ws, k),
         ws[k] \in WalkState, ws[k + 1] \in WalkState, ws[k].stats = st,
         NEW p1, NEW p2, Visited(ws[k], ws[k + 1], p1, p2),
         k > 0 => ws[k].currentNode # NoNode /\ st[2 * k].time = ws[k].currentTime
  PROVE  /\ Statistics(ws[k + 1].stats, ws, k + 1)
         /\ ws[k + 1].currentNode # NoNode
         /\ ws[k + 1].stats[2 * (k + 1)].time = ws[k + 1].currentTime
<1> DEFINE t == ws[k + 1].stats
           w == ws[k]
           u == ws[k + 1]
<1>1. st \in Seq(PointStat) /\ Len(st) = 2 * k
  BY DEF Statistics
<1>2. p1 \in PointStat /\ p2 \in PointStat /\ t = Append(Append(st, p1), p2)
  BY DEF Visited
<1> HIDE DEF t
<1>3. /\ t \in Seq(PointStat) /\ Len(t) = 2 * (k + 1)
      /\ \A j \in 1 .. 2 * k : t[j] = st[j]
      /\ t[2 * k + 1] = p1 /\ t[2 * k + 2] = p2
  <2>1. t \in Seq(PointStat) /\ Longer(t, st, p1, p2)
    BY <1>1, <1>2, TwoMore, Zenon
  <2> QED
    BY <1>1, <2>1 DEF Longer
<1>4. ASSUME NEW i \in 1 .. k PROVE Written(t, i, ws[i - 1], ws[i])
  <2>1. 2 * i \in 1 .. 2 * k /\ 2 * i - 1 \in 1 .. 2 * k /\ (i > 1 => 2 * i - 2 \in 1 .. 2 * k)
    OBVIOUS
  <2>2. t[2 * i] = st[2 * i] /\ t[2 * i - 1] = st[2 * i - 1] /\ (i > 1 => t[2 * i - 2] = st[2 * i - 2])
    BY <1>3, <2>1
  <2>3. Written(st, i, ws[i - 1], ws[i])
    BY DEF Statistics
  <2> QED
    BY <2>2, <2>3 DEF Written
<1>5. Written(t, k + 1, w, u)
  <2>1. /\ w.currentLoad \in Int /\ w.currentVolume \in Int /\ w.taskTaken \in Int
        /\ w.currentDistanceMeters \in Nat /\ u.currentDistanceMeters \in Nat
    BY FieldTypes
  <2>2. t[2 * (k + 1)] = p2 /\ t[2 * (k + 1) - 1] = p1
    BY <1>3
  <2>3. k + 1 > 1 => t[2 * (k + 1) - 2].time <= p1.time
    <3>1. ASSUME k > 0 PROVE t[2 * k].time <= p1.time
      <4>1. t[2 * k] = st[2 * k]
        BY <1>3, <3>1
      <4> QED
        BY <3>1, <4>1 DEF Visited
    <3>2. 2 * (k + 1) - 2 = 2 * k
      OBVIOUS
    <3> QED
      BY <3>1, <3>2
  <2>4. Visited(w, u, p1, p2)
    OBVIOUS
  <2> HIDE DEF w, u
  <2>5. (u.currentDistanceMeters - w.currentDistanceMeters) - 0
          = u.currentDistanceMeters - w.currentDistanceMeters
    BY <2>1
  <2> QED
    BY <2>2, <2>3, <2>4, <2>5 DEF Written, Visited
<1>6. (k + 1) - 1 = k
  OBVIOUS
<1>7. \A i \in 1 .. k + 1 : i \in 1 .. k \/ i = k + 1
  OBVIOUS
<1>8. Statistics(t, ws, k + 1)
  <2>1. \A i \in 1 .. k + 1 : Written(t, i, ws[i - 1], ws[i])
    BY <1>4, <1>5, <1>6, <1>7
  <2> QED
    BY <1>3, <2>1 DEF Statistics
<1>9. t[2 * (k + 1)] = p2
  BY <1>3
<1> QED
  BY <1>8, <1>9 DEF Visited, t

\* the truck behind each node of a route that can be driven
Trucks(v, ns) == [k \in 0 .. Len(ns) |-> After(v, ns, k).walk]

\* its statistics, and its load
LEMMA GoodWalk ==
  ASSUME NEW v \in VehicleIds, NEW ns \in Routes, CheckEvent(v, ns) = NoEvent,
         NEW ws, ws = Trucks(v, ns)
  PROVE  /\ ws[0] = NewWalk /\ \A k \in 0 .. Len(ns) : ws[k] \in WalkState
         /\ ws[Len(ns)] = Walk(v, ns).walk
         /\ Statistics(Walk(v, ns).walk.stats, ws, Len(ns))
         /\ \A k \in 0 .. Len(ns) : Carries(ws[k], Aboard(ns, k))
<1> DEFINE N == Len(ns)
<1>1. ns \in Seq(Nodes) /\ N \in Nat
  BY NodesOfRoute
<1>2. Walk(v, ns).event = NoEvent /\ ~UnloadsBeforeLoad(ns)
  BY DEF CheckEvent, NoEvent
<1>3. \A k \in 0 .. N : After(v, ns, k).event = NoEvent
  BY <1>1, <1>2, FailureStays
<1>4. \A k \in 0 .. N : ws[k] = After(v, ns, k).walk
  BY DEF Trucks
<1> HIDE DEF N
<1>5. \A k \in 0 .. N : After(v, ns, k) \in States
  BY <1>1, AfterStep DEF N
<1>6. \A k \in 0 .. N : ws[k] \in WalkState /\ Clock(ws[k])
  BY <1>4, <1>5 DEF States
<1>7. ASSUME NEW k \in 0 .. N - 1
      PROVE  /\ \E p1, p2 : Visited(ws[k], ws[k + 1], p1, p2)
             /\ LoadChanged(ws[k], ws[k + 1], ns[k + 1])
  <2>1. k \in 0 .. N /\ k + 1 \in 0 .. N /\ k + 1 \in 1 .. Len(ns)
    BY <1>1 DEF N
  <2>2. After(v, ns, k + 1) = Proceed(v, After(v, ns, k), ns[k + 1])
    BY <1>1, AfterStep DEF N
  <2>3. After(v, ns, k + 1) = Visit(v, ws[k], ns[k + 1])
    BY <1>3, <1>4, <2>1, <2>2 DEF Proceed
  <2>4. Visit(v, ws[k], ns[k + 1]).event = NoEvent /\ ws[k + 1] = Visit(v, ws[k], ns[k + 1]).walk
    BY <1>3, <1>4, <2>1, <2>3
  <2>5. ns[k + 1] \in Nodes
    BY <1>1, <2>1
  <2> QED
    BY <1>6, <2>1, <2>4, <2>5, VisitLeaves
<1>8. ws[0] = NewWalk
  BY <1>1, <1>4, AfterStep DEF Start
<1> DEFINE Shape(k) == /\ Statistics(ws[k].stats, ws, k)
                       /\ k > 0 => /\ ws[k].currentNode # NoNode
                                   /\ ws[k].stats[2 * k].time = ws[k].currentTime
                       /\ Carries(ws[k], Aboard(ns, k))
           S == {k \in Nat : k <= N => Shape(k)}
<1>9. 0 \in S
  <2>1. ws[0].stats = << >> /\ Statistics(<< >>, ws, 0)
    BY <1>8 DEF NewWalk, Statistics
  <2>2. Aboard(ns, 0) = {}
    BY DEF Aboard
  <2>3. Carries(ws[0], {})
    BY <1>8, FS_EmptySet, SumOfNone DEF Carries, NewWalk
  <2> QED
    <3>1. Shape(0)
      <4>1. Statistics(ws[0].stats, ws, 0)
        BY <2>1
      <4>2. Carries(ws[0], Aboard(ns, 0))
        BY <2>2, <2>3
      <4> QED
        BY <4>1, <4>2
    <3> HIDE DEF Shape
    <3> QED
      BY <3>1
<1>10. \A k \in Nat : k \in S => k + 1 \in S
  <2> SUFFICES ASSUME NEW k \in Nat, Shape(k), k + 1 <= N PROVE Shape(k + 1)
    <3> HIDE DEF Shape
    <3> QED
      BY <1>1
  <2>1. k \in 0 .. N - 1 /\ k \in 0 .. N /\ k + 1 \in 0 .. N /\ k + 1 \in 1 .. Len(ns) /\ (k + 1) - 1 = k
    BY <1>1 DEF N
  <2>2. PICK p1, p2 : Visited(ws[k], ws[k + 1], p1, p2)
    BY <1>7, <2>1
  <2>3. ws[k] \in WalkState /\ ws[k + 1] \in WalkState
    BY <1>6, <2>1
  <2>4. /\ Statistics(ws[k + 1].stats, ws, k + 1)
        /\ ws[k + 1].currentNode # NoNode
        /\ ws[k + 1].stats[2 * (k + 1)].time = ws[k + 1].currentTime
    BY <2>2, <2>3, StatisticsGrow
  <2>5. Carries(ws[k + 1], Aboard(ns, k + 1))
    <3>1. ns[k + 1] \in Nodes
      BY <1>1, <2>1
    <3>2. TaskOf(ns[k + 1]) \in TaskIds
      BY <3>1, NodeTask
    <3>3. LoadChanged(ws[k], ws[k + 1], ns[k + 1])
      BY <1>7, <2>1
    <3>4. Carries(ws[k], Aboard(ns, k)) /\ Aboard(ns, k) \subseteq TaskIds /\ IsFiniteSet(Aboard(ns, k))
      BY AboardFinite
    <3>5. CASE IsTaskStart(ns[k + 1])
      <4>1. /\ Aboard(ns, k + 1) = Aboard(ns, k) \cup {TaskOf(ns[k + 1])}
            /\ TaskOf(ns[k + 1]) \notin Aboard(ns, k)
        BY <1>2, <2>1, <3>5, AboardLoad
      <4> QED
        BY <3>2, <3>3, <3>4, <3>5, <4>1, CarriesMore DEF LoadChanged
    <3>6. CASE ~IsTaskStart(ns[k + 1])
      <4>1. /\ Aboard(ns, k + 1) = Aboard(ns, k) \ {TaskOf(ns[k + 1])}
            /\ TaskOf(ns[k + 1]) \in Aboard(ns, k)
        BY <1>2, <2>1, <3>6, AboardUnload
      <4> QED
        BY <3>2, <3>3, <3>4, <3>6, <4>1, CarriesLess DEF LoadChanged
    <3> QED
      BY <3>5, <3>6
  <2> QED
    BY <2>4, <2>5
<1>11. Nat \subseteq S
  <2> HIDE DEF S
  <2> QED
    BY <1>9, <1>10, Induction
<1>12. \A k \in 0 .. N : Shape(k)
  <2> HIDE DEF Shape
  <2> QED
    BY <1>1, <1>11
<1>13. Walk(v, ns) = After(v, ns, N)
  BY <1>1, AfterStep DEF N
<1>14. ws[N] = Walk(v, ns).walk
  BY <1>1, <1>4, <1>13
<1> QED
  BY <1>1, <1>6, <1>8, <1>12, <1>14 DEF N
=============================================================================
