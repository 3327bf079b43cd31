---------------------------- MODULE RouteWalkProofs ----------------------------
(***************************************************************************)
(* Theorems of RouteWalk, for every fleet, every set of tasks, all         *)
(* matrices and every route the producer can build: what the truck carries *)
(* while it is driven, the statistics of a whole route, which is what      *)
(* getResultStats reports to the caller, and that the functions of         *)
(* RouteCheck, which stand for the walk in the rest of the model, do.      *)
(***************************************************************************)
EXTENDS RouteWalk, RouteCheckProofs

-----------------------------------------------------------------------------
(* The walk: types *)

\* what the check has established when it is at each of its places
Placed ==
    /\ pc \in {"load", "unload"} => /\ walk.currentNode # NoNode
                                    /\ pos <= Len(nodes)
    /\ pc = "load" => IsTaskStart(Node)
    /\ pc = "unload" => ~IsTaskStart(Node) /\ walk.taskTaken # 0

TypeInv == TypeOK /\ Clock(walk) /\ Placed

LEMMA NodeType ==
  ASSUME TypeOK, pos <= Len(nodes)
  PROVE  /\ Node \in Nodes
         /\ pos \in 1 .. Len(nodes)
         /\ pos + 1 \in 1 .. Len(nodes) + 1
<1>1. nodes \in Seq(Nodes) /\ pos \in 1 .. Len(nodes) + 1
  BY NodesOfRoute DEF TypeOK
<1> QED
  BY <1>1 DEF Node

LEMMA InitTypeInv == Init => TypeInv
<1> SUFFICES ASSUME Init PROVE TypeInv
  OBVIOUS
<1>1. NewWalk \in WalkState /\ Clock(NewWalk)
  BY DEF NewWalk, WalkState, Clock
<1>2. 1 \in 1 .. Len(nodes) + 1
  BY NodesOfRoute DEF Init
<1>3. NoStat \in Stat
  BY CostAssumption DEF NoStat, Stat
<1> QED
  BY <1>1, <1>2, <1>3 DEF Init, TypeInv, TypeOK, Placed, PCs, CheckEvents

LEMMA FailType ==
  ASSUME NEW e \in CheckEvents, Fail(e)
  PROVE  event' \in CheckEvents /\ result' \in Stat /\ pc' \in PCs /\ pc' = "returned"
  BY CostAssumption DEF Fail, NoStat, Stat, PCs

LEMMA NextTypeInv ==
  ASSUME TypeInv, Next
  PROVE  TypeInv'
<1> USE DEF TypeInv, Placed
<1>0. TypeOK /\ Clock(walk) /\ walk \in WalkState
  BY DEF TypeOK
<1>1. CASE CheckOrder
  <2>1. "TaskUnLoadBeforeLoad" \in CheckEvents
    BY DEF CheckEvents
  <2> QED
    BY <1>1, <2>1, FailType DEF CheckOrder, TypeOK, PCs, route
<1>2. CASE CheckVehicle
  <2>1. "ImpossibleTaskToVenchile" \in CheckEvents
    BY DEF CheckEvents
  <2> QED
    BY <1>2, <2>1, FailType DEF CheckVehicle, TypeOK, PCs, route
<1>3. CASE VisitStart
  <2>1. Node \in Nodes /\ Node # NoNode
    BY <1>3, NodeType DEF VisitStart, Nodes, NoNode
  <2>2. walk' \in WalkState /\ Clock(walk)' /\ walk'.currentNode # NoNode
    BY <1>0, <1>3, <2>1, MoveNextStartType DEF VisitStart, Arrives, Clock
  <2> QED
    BY <1>3, <2>2 DEF VisitStart, TypeOK, PCs, route, Node
<1>4. CASE Load
  <2>1. Node \in Nodes /\ pos + 1 \in 1 .. Len(nodes) + 1
    BY <1>4, NodeType DEF Load
  <2>2. walk' \in WalkState /\ Clock(walk)'
    BY <1>0, <1>4, <2>1, ProcessLoadType DEF Load, Serves, Clock
  <2>3. CASE LoadFailure(walk', vehicleId, Node) = NoEvent
    BY <1>4, <2>1, <2>2, <2>3 DEF Load, TypeOK, PCs, route
  <2>4. CASE LoadFailure(walk', vehicleId, Node) # NoEvent
    <3>1. LoadFailure(walk', vehicleId, Node) \in CheckEvents
      BY FailureType DEF CheckEvents
    <3>2. Fail(LoadFailure(walk', vehicleId, Node)) /\ UNCHANGED <<nodes, vehicleId, solved, pos>>
      BY <1>4, <2>4 DEF Load, route
    <3> QED
      BY <2>2, <3>1, <3>2, FailType DEF TypeOK
  <2> QED
    BY <2>3, <2>4
<1>5. CASE VisitEnd
  <2>1. Node \in Nodes
    BY <1>5, NodeType DEF VisitEnd
  <2>2. CASE MoveEndFailure(walk) = NoEvent
    <3>1. walk.currentNode # NoNode /\ walk.taskTaken # 0
      BY <2>2 DEF MoveEndFailure, NoEvent
    <3>2. walk' = MoveNextEnd(walk, Node) /\ pc' = "unload"
          /\ UNCHANGED <<nodes, vehicleId, solved, pos, event, result>>
      BY <1>5, <2>2 DEF VisitEnd, route
    <3>3. /\ walk' \in WalkState /\ Clock(walk)' /\ walk'.currentNode # NoNode
          /\ walk'.taskTaken # 0
      BY <1>0, <2>1, <3>1, <3>2, MoveNextEndType DEF Arrives, Clock
    <3> QED
      BY <1>5, <3>2, <3>3 DEF VisitEnd, TypeOK, PCs, Node
  <2>3. CASE MoveEndFailure(walk) # NoEvent
    <3>1. MoveEndFailure(walk) \in CheckEvents
      BY FailureType DEF CheckEvents
    <3>2. Fail(MoveEndFailure(walk)) /\ UNCHANGED <<nodes, vehicleId, solved, pos, walk>>
      BY <1>5, <2>3 DEF VisitEnd, route
    <3> QED
      BY <3>1, <3>2, FailType DEF TypeOK, Clock
  <2> QED
    BY <2>2, <2>3
<1>6. CASE Unload
  <2>1. Node \in Nodes /\ pos + 1 \in 1 .. Len(nodes) + 1
    BY <1>6, NodeType DEF Unload
  <2>2. CASE UnloadFailure(walk, vehicleId, Node) = NoEvent
    <3>1. walk' \in WalkState /\ Clock(walk)'
      BY <1>0, <1>6, <2>1, <2>2, ProcessUnloadType DEF Unload, Serves, Clock
    <3> QED
      BY <1>6, <2>1, <2>2, <3>1 DEF Unload, TypeOK, PCs, route
  <2>3. CASE UnloadFailure(walk, vehicleId, Node) # NoEvent
    <3>1. UnloadFailure(walk, vehicleId, Node) \in CheckEvents
      BY FailureType DEF CheckEvents
    <3>2. /\ Fail(UnloadFailure(walk, vehicleId, Node))
          /\ walk' = FailedUnload(walk, Node)
          /\ UNCHANGED <<nodes, vehicleId, solved, pos>>
      BY <1>6, <2>3 DEF Unload, route
    <3>3. walk' \in WalkState /\ Clock(walk)'
      BY <1>0, <2>1, <3>2, FailedUnloadType DEF Clock
    <3> QED
      BY <3>1, <3>2, <3>3, FailType DEF TypeOK
  <2> QED
    BY <2>2, <2>3
<1>7. CASE Finish
  <2>1. result' \in Stat
    BY <1>0, <1>7, StatType DEF Finish, TypeOK
  <2> QED
    BY <1>7, <2>1 DEF Finish, TypeOK, PCs, route, Clock
<1> QED
  BY <1>1, <1>2, <1>3, <1>4, <1>5, <1>6, <1>7 DEF Next

LEMMA TypeInvariant == Spec => []TypeInv
<1>1. TypeInv /\ [Next]_vars => TypeInv'
  <2>1. TypeInv /\ UNCHANGED vars => TypeInv'
    BY DEF vars, TypeInv, TypeOK, Clock, Placed, Node
  <2> QED
    BY <2>1, NextTypeInv
<1> QED
  BY <1>1, InitTypeInv, PTL DEF Spec

\* Every variable of checkSingleRoute keeps its type: the position stays in the
\* route, times and distances never go below zero, and a statistics entry is
\* never pushed before the truck stands on a node.
THEOREM WalkTypeCorrect == Spec => []TypeOK
<1>1. TypeInv => TypeOK
  BY DEF TypeInv
<1> QED
  BY <1>1, TypeInvariant, PTL

-----------------------------------------------------------------------------
(* The load *)

\* m_taskTaken, m_currentLoad and m_currentVolume count the tasks on board,
\* which the order check keeps in order; without a node behind it the truck has
\* loaded nothing
Carried ==
    /\ pc \notin {"order", "returned"} => ~UnloadsBeforeLoad(nodes)
    /\ pc # "returned" => /\ walk.taskTaken = Cardinality(Onboard)
                          /\ walk.currentLoad = SumFunctionOnSet(Capacity, Onboard)
                          /\ walk.currentVolume = SumFunctionOnSet(Volume, Onboard)
    /\ walk.currentNode = NoNode => walk.taskTaken = 0

LoadInv == TypeInv /\ Carried /\ EmptyTruckNeverDelivers

LEMMA OnboardFinite == IsFiniteSet(TaskIds) /\ IsFiniteSet(Onboard)
<1>1. IsFiniteSet(TaskIds)
  BY FS_Interval, FleetAssumption DEF TaskIds
<1> QED
  BY <1>1, FS_Subset DEF Onboard, OnboardAfter

LEMMA OnboardIs == \A k : OnboardAfter(k) = Aboard(nodes, k)
  BY DEF OnboardAfter, Aboard

LEMMA OnboardLoad ==
  ASSUME TypeOK, pos <= Len(nodes), IsTaskStart(Node), ~UnloadsBeforeLoad(nodes)
  PROVE  OnboardAfter(pos) = Onboard \cup {TaskOf(Node)} /\ TaskOf(Node) \notin Onboard
<1>1. nodes \in Routes /\ pos \in 1 .. Len(nodes) /\ IsTaskStart(nodes[pos])
  BY NodeType DEF TypeOK, Node
<1> QED
  BY <1>1, OnboardIs, AboardLoad DEF Onboard, Node

LEMMA OnboardUnload ==
  ASSUME TypeOK, pos <= Len(nodes), ~IsTaskStart(Node), ~UnloadsBeforeLoad(nodes)
  PROVE  OnboardAfter(pos) = Onboard \ {TaskOf(Node)} /\ TaskOf(Node) \in Onboard
<1>1. nodes \in Routes /\ pos \in 1 .. Len(nodes) /\ ~IsTaskStart(nodes[pos])
  BY NodeType DEF TypeOK, Node
<1> QED
  BY <1>1, OnboardIs, AboardUnload DEF Onboard, Node

LEMMA OnboardSums ==
  /\ Onboard \subseteq TaskIds
  /\ \A t \in TaskIds : Capacity[t] = Task[t].capacity /\ Volume[t] = Task[t].volume
  /\ \A t \in TaskIds : Capacity[t] \in Int /\ Volume[t] \in Int
<1>1. \A t \in TaskIds : Task[t] \in TaskType
  BY FleetAssumption
<1> QED
  BY <1>1 DEF Onboard, OnboardAfter, Capacity, Volume, TaskType

LEMMA OnboardStep ==
  ASSUME TypeOK, pos <= Len(nodes), UNCHANGED nodes, pos' = pos + 1
  PROVE  Onboard' = OnboardAfter(pos)
<1>1. pos' - 1 = pos
  BY NodeType DEF TypeOK
<1> QED
  BY <1>1 DEF Onboard, OnboardAfter

LEMMA InitLoadInv == Init => LoadInv
<1> SUFFICES ASSUME Init PROVE LoadInv
  OBVIOUS
<1>1. /\ walk.taskTaken = 0 /\ walk.currentNode = NoNode
      /\ walk.currentLoad = 0 /\ walk.currentVolume = 0
  BY DEF Init, NewWalk
<1>2. Onboard = {}
  BY DEF Init, Onboard, OnboardAfter
<1> QED
  BY <1>1, <1>2, InitTypeInv, FS_EmptySet, SumOfNone
     DEF Init, LoadInv, Carried, EmptyTruckNeverDelivers, NoEvent

LEMMA NextLoadInv ==
  ASSUME LoadInv, Next
  PROVE  Carried' /\ EmptyTruckNeverDelivers'
<1> USE DEF LoadInv, Carried, EmptyTruckNeverDelivers
<1>0. TypeOK /\ Clock(walk) /\ walk \in WalkState /\ Placed
  BY DEF TypeInv, TypeOK
<1>1. CASE CheckOrder
  BY <1>1 DEF CheckOrder, Fail, route, Onboard, OnboardAfter, Placed
<1>2. CASE CheckVehicle
  BY <1>2 DEF CheckVehicle, Fail, route, Onboard, OnboardAfter
<1>3. CASE VisitStart
  <2>1. Node \in Nodes /\ Node # NoNode
    BY <1>0, <1>3, NodeType DEF VisitStart, Nodes, NoNode
  <2>2. /\ walk'.taskTaken = walk.taskTaken /\ walk'.currentNode # NoNode
        /\ walk'.currentLoad = walk.currentLoad /\ walk'.currentVolume = walk.currentVolume
    BY <1>0, <1>3, <2>1, MoveNextStartType DEF VisitStart, Arrives
  <2> QED
    BY <1>3, <2>2 DEF VisitStart, route, Onboard, OnboardAfter
<1>4. CASE Load
  <2>1. /\ pos <= Len(nodes) /\ Node \in Nodes /\ IsTaskStart(Node)
        /\ walk.currentNode # NoNode /\ ~UnloadsBeforeLoad(nodes)
    BY <1>0, <1>4, NodeType DEF Load, Placed
  <2>2. /\ walk'.taskTaken = walk.taskTaken + 1 /\ walk'.currentNode = walk.currentNode
        /\ walk'.currentLoad = walk.currentLoad + Task[TaskOf(Node)].capacity
        /\ walk'.currentVolume = walk.currentVolume + Task[TaskOf(Node)].volume
        /\ UNCHANGED nodes
    BY <1>0, <1>4, <2>1, ProcessLoadType DEF Load, route, Serves
  <2>3. CASE LoadFailure(walk', vehicleId, Node) = NoEvent
    <3>1. pos' = pos + 1 /\ pc' = "node" /\ UNCHANGED event
      BY <1>4, <2>3 DEF Load
    <3>2. Onboard' = Onboard \cup {TaskOf(Node)} /\ TaskOf(Node) \notin Onboard
      BY <1>0, <2>1, <2>2, <3>1, OnboardStep, OnboardLoad
    <3>3. Cardinality(Onboard \cup {TaskOf(Node)}) = Cardinality(Onboard) + 1
      BY <3>2, OnboardFinite, FS_AddElement
    <3>4. walk'.taskTaken = Cardinality(Onboard)'
      BY <1>4, <2>2, <3>2, <3>3 DEF Load
    <3>5. TaskOf(Node) \in TaskIds
      BY <2>1, NodeTask
    <3>6. /\ walk'.currentLoad = SumFunctionOnSet(Capacity, Onboard)'
          /\ walk'.currentVolume = SumFunctionOnSet(Volume, Onboard)'
      <4>0. /\ IsFiniteSet(Onboard)
            /\ Capacity[TaskOf(Node)] = Task[TaskOf(Node)].capacity
            /\ Volume[TaskOf(Node)] = Task[TaskOf(Node)].volume
        BY <3>5, OnboardFinite, OnboardSums
      <4>1. /\ UNCHANGED <<Capacity, Volume>>
            /\ \A t \in Onboard \cup {TaskOf(Node)} : Capacity[t] \in Int /\ Volume[t] \in Int
        BY <3>5, OnboardSums DEF Capacity, Volume
      <4>2. SumFunctionOnSet(Capacity, Onboard \cup {TaskOf(Node)})
              = Capacity[TaskOf(Node)] + SumFunctionOnSet(Capacity, Onboard)
        BY <3>2, <4>0, <4>1, SumAdd
      <4>3. SumFunctionOnSet(Volume, Onboard \cup {TaskOf(Node)})
              = Volume[TaskOf(Node)] + SumFunctionOnSet(Volume, Onboard)
        BY <3>2, <4>0, <4>1, SumAdd
      <4>4. /\ Task[TaskOf(Node)].capacity \in Int /\ Task[TaskOf(Node)].volume \in Int
            /\ walk.currentLoad \in Int /\ walk.currentVolume \in Int
        BY <1>0, <3>5, OnboardSums, FieldTypes
      <4> QED
        BY <1>4, <2>2, <3>2, <4>0, <4>1, <4>2, <4>3, <4>4 DEF Load
    <3> QED
      BY <1>4, <2>1, <2>2, <3>1, <3>4, <3>6 DEF Load
  <2>4. CASE LoadFailure(walk', vehicleId, Node) # NoEvent
    <3>1. event' = LoadFailure(walk', vehicleId, Node) /\ pc' = "returned"
      BY <1>4, <2>4 DEF Load, Fail
    <3>2. event' \notin {"EmptyTasksDuringUnload", "CantMoveToEndBeforeStart"}
      BY <3>1 DEF LoadFailure, NoEvent
    <3> QED
      BY <2>1, <2>2, <3>1, <3>2
  <2> QED
    BY <2>3, <2>4
<1>5. CASE VisitEnd
  <2>1. /\ pos <= Len(nodes) /\ Node \in Nodes /\ ~IsTaskStart(Node)
        /\ ~UnloadsBeforeLoad(nodes)
    BY <1>0, <1>5, NodeType DEF VisitEnd
  <2>2. Cardinality(Onboard) # 0
    BY <1>0, <2>1, OnboardUnload, OnboardFinite, FS_EmptySet
  <2>3. walk.taskTaken # 0 /\ walk.currentNode # NoNode
    BY <1>5, <2>2 DEF VisitEnd
  <2>4. MoveEndFailure(walk) = NoEvent
    BY <2>3 DEF MoveEndFailure
  <2>5. /\ walk' = MoveNextEnd(walk, Node) /\ pc' = "unload"
        /\ UNCHANGED <<nodes, pos, event>>
    BY <1>5, <2>4 DEF VisitEnd, route
  <2>6. /\ walk'.taskTaken = walk.taskTaken /\ walk'.currentNode = walk.currentNode
        /\ walk'.currentLoad = walk.currentLoad /\ walk'.currentVolume = walk.currentVolume
    BY <1>0, <2>1, <2>3, <2>5, MoveNextEndType DEF Arrives
  <2> QED
    BY <1>5, <2>1, <2>3, <2>5, <2>6 DEF VisitEnd, Onboard, OnboardAfter
<1>6. CASE Unload
  <2>1. /\ pos <= Len(nodes) /\ Node \in Nodes /\ ~IsTaskStart(Node)
        /\ walk.currentNode # NoNode /\ walk.taskTaken # 0 /\ ~UnloadsBeforeLoad(nodes)
    BY <1>0, <1>6, NodeType DEF Unload, Placed
  <2>2. CASE UnloadFailure(walk, vehicleId, Node) = NoEvent
    <3>1. /\ walk' = ProcessUnload(walk, Node) /\ pos' = pos + 1 /\ pc' = "node"
          /\ UNCHANGED <<nodes, event>>
      BY <1>6, <2>2 DEF Unload, route
    <3>2. /\ walk'.taskTaken = walk.taskTaken - 1 /\ walk'.currentNode = walk.currentNode
          /\ walk'.currentLoad = walk.currentLoad - Task[TaskOf(Node)].capacity
          /\ walk'.currentVolume = walk.currentVolume - Task[TaskOf(Node)].volume
      BY <1>0, <2>1, <3>1, ProcessUnloadType DEF Serves
    <3>3. Onboard' = Onboard \ {TaskOf(Node)} /\ TaskOf(Node) \in Onboard
      BY <1>0, <2>1, <3>1, OnboardStep, OnboardUnload
    <3>4. Cardinality(Onboard \ {TaskOf(Node)}) = Cardinality(Onboard) - 1
      BY <3>3, OnboardFinite, FS_RemoveElement
    <3>5. walk'.taskTaken = Cardinality(Onboard)'
      BY <1>6, <3>2, <3>3, <3>4 DEF Unload
    <3>6. /\ walk'.currentLoad = SumFunctionOnSet(Capacity, Onboard)'
          /\ walk'.currentVolume = SumFunctionOnSet(Volume, Onboard)'
      <4>1. /\ UNCHANGED <<Capacity, Volume>>
            /\ \A t \in Onboard : Capacity[t] \in Int /\ Volume[t] \in Int
            /\ TaskOf(Node) \in TaskIds
        BY <3>3, OnboardSums DEF Capacity, Volume
      <4>2. SumFunctionOnSet(Capacity, Onboard)
              = Task[TaskOf(Node)].capacity + SumFunctionOnSet(Capacity, Onboard \ {TaskOf(Node)})
        BY <3>3, <4>1, OnboardFinite, OnboardSums, SumRemove
      <4>3. SumFunctionOnSet(Volume, Onboard)
              = Task[TaskOf(Node)].volume + SumFunctionOnSet(Volume, Onboard \ {TaskOf(Node)})
        BY <3>3, <4>1, OnboardFinite, OnboardSums, SumRemove
      <4>4. IsFiniteSet(Onboard \ {TaskOf(Node)})
        BY OnboardFinite, FS_Subset
      <4>5. /\ SumFunctionOnSet(Capacity, Onboard \ {TaskOf(Node)}) \in Int
            /\ SumFunctionOnSet(Volume, Onboard \ {TaskOf(Node)}) \in Int
        BY <4>1, <4>4, SumType
      <4>6. Task[TaskOf(Node)].capacity \in Int /\ Task[TaskOf(Node)].volume \in Int
        BY <4>1, OnboardSums
      <4> QED
        BY <1>6, <3>2, <3>3, <4>1, <4>2, <4>3, <4>5, <4>6 DEF Unload
    <3> QED
      BY <1>6, <2>1, <3>1, <3>2, <3>5, <3>6 DEF Unload
  <2>3. CASE UnloadFailure(walk, vehicleId, Node) # NoEvent
    <3>1. /\ event' = UnloadFailure(walk, vehicleId, Node) /\ pc' = "returned"
          /\ walk' = FailedUnload(walk, Node)
      BY <1>6, <2>3 DEF Unload, Fail
    <3>2. event' \notin {"EmptyTasksDuringUnload", "CantMoveToEndBeforeStart"}
      BY <2>1, <3>1 DEF UnloadFailure, NoEvent
    <3>3. walk'.currentNode = walk.currentNode
      BY <1>0, <2>1, <3>1, FailedUnloadType
    <3> QED
      BY <2>1, <3>1, <3>2, <3>3
  <2> QED
    BY <2>2, <2>3
<1>7. CASE Finish
  BY <1>7 DEF Finish, route
<1> QED
  BY <1>1, <1>2, <1>3, <1>4, <1>5, <1>6, <1>7 DEF Next

LEMMA LoadInvariant == Spec => []LoadInv
<1>1. LoadInv /\ [Next]_vars => LoadInv'
  <2>1. LoadInv /\ UNCHANGED vars => LoadInv'
    BY DEF vars, LoadInv, TypeInv, TypeOK, Clock, Placed, Node, Carried, Onboard,
           OnboardAfter, Capacity, Volume, EmptyTruckNeverDelivers
  <2> QED
    BY <2>1, NextTypeInv, NextLoadInv DEF LoadInv
<1> QED
  BY <1>1, InitLoadInv, PTL DEF Spec

\* Behind the order check of lines 276-293 the truck is never empty where it
\* unloads: the two checks for it, in moveNextEnd and in processUnload, never fire.
THEOREM EmptyTruckCorrect == Spec => []EmptyTruckNeverDelivers
<1>1. LoadInv => EmptyTruckNeverDelivers
  BY DEF LoadInv
<1> QED
  BY <1>1, LoadInvariant, PTL

\* The running counters m_taskTaken, m_currentLoad and m_currentVolume agree with
\* the tasks that were loaded and not unloaded so far, wherever the truck decides
\* where to drive and wherever it unloads.
THEOREM BookkeepingCorrect == Spec => []OnboardBookkeeping
<1>1. LoadInv => OnboardBookkeeping
  BY DEF LoadInv, Carried, OnboardBookkeeping
<1> QED
  BY <1>1, LoadInvariant, PTL

-----------------------------------------------------------------------------
(* The steps of the walk, by what they do to the truck *)

\* the limits looked at when the truck has loaded
LoadFits(load, volume, taken, v) ==
    /\ ~Exceeds(load, Vehicle[v].capacity)
    /\ ~Exceeds(volume, Vehicle[v].maxVolume)
    /\ ~Exceeds(taken, TripMaxTasks(v))
Fits(w, v) == LoadFits(w.currentLoad, w.currentVolume, w.taskTaken, v)

\* the limits looked at when the truck unloads
TripFits(w, v) == /\ ~Exceeds(TotalTimeSpend(w), Vehicle[v].tripDuration)
                  /\ ~Exceeds(TotalDistance(w), Vehicle[v].tripLength)

\* the two checks before the truck sets out
Readied ==
    /\ pc \in {"order", "vehicle"}
    /\ pc' \in {"vehicle", "node"}
    /\ UNCHANGED <<nodes, vehicleId, pos, walk, event>>

\* the truck has arrived at the node
Moved ==
    /\ pc = "node" /\ pc' \in {"load", "unload"}
    /\ pos <= Len(nodes) /\ Node \in Nodes
    /\ Arrives(walk, walk', Node)
    /\ walk'.currentNode # NoNode
    /\ UNCHANGED <<nodes, vehicleId, pos, event>>

\* the truck has been served there, and nothing was wrong
Served ==
    /\ pc \in {"load", "unload"} /\ pc' = "node"
    /\ pos <= Len(nodes) /\ Node \in Nodes
    /\ Serves(walk, walk', Node)
    /\ walk'.currentTime <= Point(Node).te
    /\ IF IsTaskStart(Node) THEN Fits(walk', vehicleId)
       ELSE /\ TripFits(walk', vehicleId)
            /\ walk'.currentLoad <= walk.currentLoad
            /\ walk'.currentVolume <= walk.currentVolume
            /\ walk'.taskTaken <= walk.taskTaken
    /\ walk'.currentNode # NoNode
    /\ pos' = pos + 1
    /\ UNCHANGED <<nodes, vehicleId, event>>

Failed == pc # "returned" /\ pc' = "returned" /\ event' # NoEvent

LEMMA StepKinds ==
  ASSUME LoadInv, Next
  PROVE  Readied \/ Moved \/ Served \/ Failed \/ Finish
<1>0. TypeOK /\ Clock(walk) /\ walk \in WalkState /\ Placed /\ Carried
  BY DEF LoadInv, TypeInv, TypeOK
<1>1. CASE CheckOrder
  BY <1>1 DEF CheckOrder, Fail, Failed, Readied, route, NoEvent
<1>2. CASE CheckVehicle
  BY <1>2 DEF CheckVehicle, Fail, Failed, Readied, route, NoEvent
<1>3. CASE VisitStart
  <2>1. Node \in Nodes /\ Node # NoNode
    BY <1>0, <1>3, NodeType DEF VisitStart, Nodes, NoNode
  <2>2. Arrives(walk, walk', Node) /\ walk'.currentNode # NoNode
    BY <1>0, <1>3, <2>1, MoveNextStartType DEF VisitStart
  <2> QED
    BY <1>3, <2>1, <2>2 DEF VisitStart, Moved, route
<1>4. CASE Load
  <2>1. /\ pos <= Len(nodes) /\ Node \in Nodes /\ IsTaskStart(Node)
        /\ walk.currentNode # NoNode
    BY <1>0, <1>4, NodeType DEF Load, Placed
  <2>2. Serves(walk, walk', Node)
    BY <1>0, <1>4, <2>1, ProcessLoadType DEF Load
  <2>3. walk'.currentNode # NoNode
    BY <2>1, <2>2 DEF Serves
  <2>4. CASE LoadFailure(walk', vehicleId, Node) # NoEvent
    BY <1>4, <2>4 DEF Load, Fail, Failed
  <2>5. CASE LoadFailure(walk', vehicleId, Node) = NoEvent
    <3>1. /\ ~ (walk'.currentTime > Point(Node).te) /\ Fits(walk', vehicleId)
      BY <2>5 DEF LoadFailure, NoEvent, Fits, LoadFits
    <3>2. walk'.currentTime \in Nat /\ Point(Node).te \in Nat
      BY <2>1, <2>2, FieldTypes, PointType DEF Serves
    <3>3. walk'.currentTime <= Point(Node).te
      BY <3>1, <3>2
    <3> QED
      BY <1>4, <2>1, <2>2, <2>3, <2>5, <3>1, <3>3 DEF Load, Served, route
  <2> QED
    BY <2>4, <2>5
<1>5. CASE VisitEnd
  <2>1. pos <= Len(nodes) /\ Node \in Nodes
    BY <1>0, <1>5, NodeType DEF VisitEnd
  <2>2. CASE MoveEndFailure(walk) # NoEvent
    BY <1>5, <2>2 DEF VisitEnd, Fail, Failed
  <2>3. CASE MoveEndFailure(walk) = NoEvent
    <3>1. walk.currentNode # NoNode
      BY <2>3 DEF MoveEndFailure, NoEvent
    <3>2. walk' = MoveNextEnd(walk, Node) /\ pc' = "unload"
          /\ UNCHANGED <<nodes, vehicleId, pos, event>>
      BY <1>5, <2>3 DEF VisitEnd, route
    <3>3. Arrives(walk, walk', Node) /\ walk'.currentNode # NoNode
      BY <1>0, <2>1, <3>1, <3>2, MoveNextEndType
    <3> QED
      BY <1>5, <2>1, <3>2, <3>3 DEF VisitEnd, Moved
  <2> QED
    BY <2>2, <2>3
<1>6. CASE Unload
  <2>1. /\ pos <= Len(nodes) /\ Node \in Nodes /\ ~IsTaskStart(Node)
        /\ walk.currentNode # NoNode
    BY <1>0, <1>6, NodeType DEF Unload, Placed
  <2>2. CASE UnloadFailure(walk, vehicleId, Node) # NoEvent
    BY <1>6, <2>2 DEF Unload, Fail, Failed
  <2>3. CASE UnloadFailure(walk, vehicleId, Node) = NoEvent
    <3>1. /\ walk' = ProcessUnload(walk, Node) /\ pos' = pos + 1 /\ pc' = "node"
          /\ UNCHANGED <<nodes, vehicleId, event>>
      BY <1>6, <2>3 DEF Unload, route
    <3>2. /\ Serves(walk, walk', Node) /\ walk'.taskTaken = walk.taskTaken - 1
          /\ walk'.currentLoad = walk.currentLoad - Task[TaskOf(Node)].capacity
          /\ walk'.currentVolume = walk.currentVolume - Task[TaskOf(Node)].volume
      BY <1>0, <2>1, <3>1, ProcessUnloadType
    <3>3. /\ Task[TaskOf(Node)].capacity \in Nat /\ Task[TaskOf(Node)].volume \in Nat
          /\ Point(Node).te \in Nat
          /\ walk.currentLoad \in Int /\ walk.currentVolume \in Int /\ walk.taskTaken \in Int
      BY <1>0, <2>1, FieldTypes, PointType
    <3>4. /\ walk'.currentLoad <= walk.currentLoad /\ walk'.currentVolume <= walk.currentVolume
          /\ walk'.taskTaken <= walk.taskTaken
      BY <3>2, <3>3
    <3>5. /\ walk'.currentTime = ServeEnd(walk, Node).currentTime
          /\ walk'.routeStartTime = walk.routeStartTime
          /\ walk'.currentDistanceMeters = walk.currentDistanceMeters
          /\ walk'.currentNode # NoNode /\ walk'.currentTime \in Nat
      <4>1. ServeEnd(walk, Node).currentTime = walk.currentTime + Point(Node).dur
        BY <1>0, <2>1, ServeEndType
      <4>2. walk'.currentTime \in Nat
        BY <3>2, FieldTypes DEF Serves
      <4> QED
        BY <2>1, <3>2, <4>1, <4>2 DEF Serves
    <3>6. /\ ~ (walk'.currentTime > Point(Node).te)
          /\ TripFits(walk', vehicleId)
      BY <2>3, <3>5 DEF UnloadFailure, NoEvent, TripFits, TotalTimeSpend, TotalDistance
    <3>7. walk'.currentTime <= Point(Node).te
      BY <3>3, <3>5, <3>6
    <3> QED
      BY <1>6, <2>1, <3>1, <3>2, <3>4, <3>5, <3>6, <3>7 DEF Unload, Served
  <2> QED
    BY <2>2, <2>3
<1> QED
  BY <1>1, <1>2, <1>3, <1>4, <1>5, <1>6 DEF Next

-----------------------------------------------------------------------------
(* The statistics *)

\* one more entry in the statistics of w
Grown(w, m, metres) ==
    /\ Len(m.stats) = Len(w.stats) + 1
    /\ \A k \in 1 .. Len(w.stats) : m.stats[k] = w.stats[k]
    /\ m.stats[Len(w.stats) + 1] = Entry(m, metres)

LEMMA GrownBy ==
  ASSUME NEW w \in WalkState, NEW m, NEW metres, m.stats = Append(w.stats, Entry(m, metres))
  PROVE  Grown(w, m, metres)
<1> DEFINE e == Entry(m, metres)
<1>1. w.stats \in Seq(PointStat \cup {e})
  BY FieldTypes
<1>2. m.stats = Append(w.stats, e)
  OBVIOUS
<1> HIDE DEF e
<1> QED
  BY <1>1, <1>2 DEF Grown, e

\* the entry is the truck as it is now
IsNow(e, w) == /\ e.time = w.currentTime
               /\ e.workload = w.currentLoad
               /\ e.volume = w.currentVolume
               /\ e.tasksCount = w.taskTaken

\* while nothing is wrong, the statistics hold two entries for every node that
\* was served and one for the node the truck stands on; the last one is the truck
Recorded ==
    /\ pc # "returned" => event = NoEvent
    /\ event = NoEvent =>
          /\ Len(walk.stats) = 2 * (pos - 1) + (IF pc \in {"load", "unload"} THEN 1 ELSE 0)
          /\ pc \in {"order", "vehicle"} => pos = 1
          /\ walk.stats = <<>> => walk = NewWalk
          /\ walk.stats # <<>> => /\ walk.currentNode # NoNode
                                  /\ IsNow(walk.stats[Len(walk.stats)], walk)
    /\ Feasible => pos = Len(nodes) + 1 /\ result = StatOfWalk(walk, vehicleId, nodes)

\* the two entries of the i-th node n
ArrivalFits(s, n, i) ==
    /\ s[2 * i - 1].time >= Point(n).ts
    /\ i = 1 => /\ s[2 * i - 1].workload = 0
                /\ s[2 * i - 1].volume = 0
                /\ s[2 * i - 1].tasksCount = 0
    /\ i > 1 => /\ s[2 * i - 2].time <= s[2 * i - 1].time
                /\ s[2 * i - 1].workload = s[2 * i - 2].workload
                /\ s[2 * i - 1].volume = s[2 * i - 2].volume
                /\ s[2 * i - 1].tasksCount = s[2 * i - 2].tasksCount
DepartureFits(s, n, i) ==
    /\ s[2 * i].time <= Point(n).te
    /\ s[2 * i - 1].time <= s[2 * i].time
    /\ s[2 * i].distance = 0

Logged ==
    event = NoEvent =>
        \A i \in 1 .. Len(nodes) :
            /\ 2 * i - 1 <= Len(walk.stats) => ArrivalFits(walk.stats, nodes[i], i)
            /\ 2 * i <= Len(walk.stats) => DepartureFits(walk.stats, nodes[i], i)

\* no entry shows more than the vehicle can take, and behind an unloading node
\* the trip is within its limits
Limited ==
    event = NoEvent =>
        /\ Fits(walk, vehicleId)
        /\ \A k \in 1 .. Len(walk.stats) :
              LoadFits(walk.stats[k].workload, walk.stats[k].volume,
                       walk.stats[k].tasksCount, vehicleId)
        /\ (pc = "node" \/ Feasible) /\ pos > 1 /\ ~IsTaskStart(nodes[pos - 1])
              => TripFits(walk, vehicleId)

\* the metres of the first k entries
Metres(w) == [k \in 1 .. Len(w.stats) |-> w.stats[k].distance]
Driven(k) == SumFunctionOnSet(Metres(walk), 1 .. k)

DistanceKept == event = NoEvent => Driven(Len(walk.stats)) = walk.currentDistanceMeters

ReportInv == Recorded /\ Logged /\ Limited /\ DistanceKept

LEMMA InitReportInv == Init => ReportInv
<1> SUFFICES ASSUME Init PROVE ReportInv
  OBVIOUS
<1>1. /\ walk = NewWalk /\ walk.stats = <<>> /\ walk.currentLoad = 0
      /\ walk.currentVolume = 0 /\ walk.taskTaken = 0 /\ walk.currentDistanceMeters = 0
  BY DEF Init, NewWalk
<1>2. pc = "order" /\ pos = 1 /\ event = NoEvent
  BY DEF Init
<1>3. Recorded
  BY <1>1, <1>2 DEF Recorded, Feasible
<1>4. Logged
  BY <1>1 DEF Logged
<1>5. Fits(walk, vehicleId)
  <2>1. Vehicle[vehicleId] \in VehicleType
    BY FleetAssumption DEF Init
  <2>2. /\ Vehicle[vehicleId].capacity \in Nat /\ Vehicle[vehicleId].maxVolume \in Nat
        /\ Vehicle[vehicleId].tripMaxTasks \in Nat
    BY <2>1 DEF VehicleType
  <2>3. TripMaxTasks(vehicleId) \in Nat
    BY <2>2 DEF TripMaxTasks
  <2> QED
    BY <1>1, <2>2, <2>3 DEF Fits, LoadFits, Exceeds
<1>6. Limited
  BY <1>1, <1>2, <1>5 DEF Limited, Feasible
<1>7. DistanceKept
  BY <1>1, SumOfNone DEF DistanceKept, Driven
<1> QED
  BY <1>3, <1>4, <1>6, <1>7 DEF ReportInv

-----------------------------------------------------------------------------
(* The statistics grow with the walk *)

\* what holds of the numbers before and after a step
LEMMA StepTypes ==
  ASSUME LoadInv, Next
  PROVE  /\ walk \in WalkState /\ walk' \in WalkState
         /\ pos \in Nat \ {0} /\ pos' \in Nat \ {0}
         /\ Len(nodes) \in Nat /\ Len(walk.stats) \in Nat /\ Len(walk'.stats) \in Nat
         /\ pos <= Len(nodes) + 1
         /\ nodes \in Seq(Nodes)
<1>1. TypeInv /\ TypeInv'
  BY NextTypeInv DEF LoadInv
<1>2. nodes \in Seq(Nodes) /\ nodes' \in Seq(Nodes)
  BY <1>1, NodesOfRoute DEF TypeInv, TypeOK
<1>3. walk.stats \in Seq(PointStat) /\ walk'.stats \in Seq(PointStat)
  BY <1>1, FieldTypes DEF TypeInv, TypeOK
<1> QED
  BY <1>1, <1>2, <1>3 DEF TypeInv, TypeOK

LEMMA NextRecorded ==
  ASSUME LoadInv, ReportInv, Next
  PROVE  Recorded'
<1>0. /\ walk \in WalkState /\ walk' \in WalkState
      /\ pos \in Nat \ {0} /\ pos' \in Nat \ {0}
      /\ Len(nodes) \in Nat /\ Len(walk.stats) \in Nat /\ Len(walk'.stats) \in Nat
      /\ pos <= Len(nodes) + 1
  BY StepTypes
<1>1. Recorded
  BY DEF ReportInv
<1>2. ASSUME NEW d, Grown(walk, walk', d)
      PROVE  walk'.stats # <<>> /\ IsNow(walk'.stats[Len(walk'.stats)], walk')
  BY <1>0, <1>2 DEF Grown, Entry, IsNow
<1>3. CASE Readied
  BY <1>1, <1>3 DEF Recorded, Readied, Feasible
<1>4. CASE Moved
  <2>1. Grown(walk, walk', walk'.currentDistanceMeters - walk.currentDistanceMeters)
    BY <1>0, <1>4, GrownBy DEF Moved, Arrives
  <2>2. Len(walk'.stats) = Len(walk.stats) + 1
    BY <2>1 DEF Grown
  <2>3. event' = NoEvent => Len(walk'.stats) = 2 * (pos' - 1) + 1
    BY <1>0, <1>1, <1>4, <2>2 DEF Moved, Recorded
  <2> QED
    BY <1>1, <1>2, <1>4, <2>1, <2>3 DEF Moved, Recorded, Feasible
<1>5. CASE Served
  <2>1. Grown(walk, walk', 0)
    BY <1>0, <1>5, GrownBy DEF Served, Serves
  <2>2. Len(walk'.stats) = Len(walk.stats) + 1
    BY <2>1 DEF Grown
  <2>3. event' = NoEvent => Len(walk'.stats) = 2 * (pos' - 1)
    BY <1>0, <1>1, <1>5, <2>2 DEF Served, Recorded
  <2> QED
    BY <1>1, <1>2, <1>5, <2>1, <2>3 DEF Served, Recorded, Feasible
<1>6. CASE Failed
  BY <1>6 DEF Failed, Recorded, Feasible
<1>7. CASE Finish
  <2>1. pos = Len(nodes) + 1
    BY <1>0, <1>7 DEF Finish
  <2>2. result' = StatOfWalk(walk', vehicleId', nodes')
    BY <1>7 DEF Finish, StatOfWalk, route
  <2>3. /\ pc = "node" /\ pc' = "returned"
        /\ UNCHANGED <<nodes, pos, walk, event>>
    BY <1>7 DEF Finish, route
  <2>4. event = NoEvent
    BY <1>1, <2>3 DEF Recorded
  <2>5. pc' # "returned" => event' = NoEvent
    BY <2>3
  <2>6. Feasible' => pos' = Len(nodes') + 1
    BY <2>1, <2>3
  <2> QED
    BY <1>1, <2>2, <2>3, <2>4, <2>5, <2>6 DEF Recorded
<1> QED
  BY <1>3, <1>4, <1>5, <1>6, <1>7, StepKinds

LEMMA NextLogged ==
  ASSUME LoadInv, ReportInv, Next
  PROVE  Logged'
<1>0. /\ walk \in WalkState /\ walk' \in WalkState
      /\ pos \in Nat \ {0} /\ pos' \in Nat \ {0}
      /\ Len(nodes) \in Nat /\ Len(walk.stats) \in Nat /\ Len(walk'.stats) \in Nat
      /\ pos <= Len(nodes) + 1
  BY StepTypes
<1>1. Recorded /\ Logged
  BY DEF ReportInv
\* the entries written before keep what they said
<1>2. ASSUME NEW d, Grown(walk, walk', d), UNCHANGED <<nodes, event>>, event' = NoEvent,
             NEW i \in 1 .. Len(nodes')
      PROVE  /\ 2 * i - 1 <= Len(walk.stats) => ArrivalFits(walk'.stats, nodes'[i], i)
             /\ 2 * i <= Len(walk.stats) => DepartureFits(walk'.stats, nodes'[i], i)
  <2>1. \A k \in 1 .. Len(walk.stats) : walk'.stats[k] = walk.stats[k]
    BY <1>2 DEF Grown
  <2>2. i \in 1 .. Len(nodes) /\ i \in Nat /\ nodes'[i] = nodes[i] /\ event = NoEvent
    BY <1>2
  <2>3. CASE 2 * i - 1 <= Len(walk.stats)
    <3>1. ArrivalFits(walk.stats, nodes[i], i)
      BY <1>1, <2>2, <2>3 DEF Logged
    <3>2. 2 * i - 1 \in 1 .. Len(walk.stats) /\ (i > 1 => 2 * i - 2 \in 1 .. Len(walk.stats))
      BY <1>0, <2>2, <2>3
    <3>3. ArrivalFits(walk'.stats, nodes'[i], i)
      BY <2>1, <2>2, <3>1, <3>2 DEF ArrivalFits
    <3>4. CASE 2 * i <= Len(walk.stats)
      <4>1. DepartureFits(walk.stats, nodes[i], i)
        BY <1>1, <2>2, <3>4 DEF Logged
      <4>2. 2 * i \in 1 .. Len(walk.stats)
        BY <1>0, <2>2, <3>4
      <4> QED
        BY <2>1, <2>2, <3>2, <3>3, <4>1, <4>2 DEF DepartureFits
    <3> QED
      BY <3>3, <3>4
  <2> QED
    BY <1>0, <2>2, <2>3
<1>3. CASE Readied
  BY <1>1, <1>3 DEF Logged, Readied
<1>4. CASE Moved
  <2> SUFFICES ASSUME event' = NoEvent, NEW i \in 1 .. Len(nodes')
               PROVE  /\ 2 * i - 1 <= Len(walk'.stats) => ArrivalFits(walk'.stats, nodes'[i], i)
                      /\ 2 * i <= Len(walk'.stats) => DepartureFits(walk'.stats, nodes'[i], i)
    BY DEF Logged
  <2> DEFINE d == walk'.currentDistanceMeters - walk.currentDistanceMeters
  <2>1. Grown(walk, walk', d)
    BY <1>0, <1>4, GrownBy DEF Moved, Arrives
  <2> HIDE DEF d
  <2>2. UNCHANGED <<nodes, pos, event>> /\ event = NoEvent /\ pc = "node"
    BY <1>4 DEF Moved
  <2>3. Len(walk.stats) = 2 * (pos - 1) /\ Len(walk'.stats) = 2 * pos - 1
    <3>1. Len(walk.stats) = 2 * (pos - 1) + 0
      BY <1>1, <2>2 DEF Recorded
    <3>2. Len(walk'.stats) = Len(walk.stats) + 1
      BY <2>1 DEF Grown
    <3> QED
      BY <1>0, <3>1, <3>2
  <2>4. /\ 2 * i - 1 <= Len(walk.stats) => ArrivalFits(walk'.stats, nodes'[i], i)
        /\ 2 * i <= Len(walk.stats) => DepartureFits(walk'.stats, nodes'[i], i)
    BY <1>2, <2>1, <2>2
  <2>5. i \in Nat /\ i > 0
    BY <2>2, <1>0
  <2>6. CASE i # pos
    BY <1>0, <2>3, <2>4, <2>5, <2>6
  <2>7. CASE i = pos
    <3>1. walk'.stats[2 * i - 1] = Entry(walk', d)
      BY <1>0, <2>1, <2>3, <2>7 DEF Grown
    <3>2. Arrives(walk, walk', nodes'[i])
      BY <1>4, <2>2, <2>7 DEF Moved, Node
    <3>3. CASE i = 1
      <4>1. walk.stats = <<>>
        <5>1. walk.stats \in Seq(PointStat) /\ Len(walk.stats) = 0
          BY <1>0, <2>3, <2>7, <3>3, FieldTypes
        <5> QED
          BY <5>1
      <4>2. walk.currentLoad = 0 /\ walk.currentVolume = 0 /\ walk.taskTaken = 0
        BY <1>1, <2>2, <4>1 DEF Recorded, NewWalk
      <4> QED
        BY <2>3, <2>7, <3>1, <3>2, <3>3, <4>2 DEF Arrives, ArrivalFits, Entry
    <3>4. CASE i > 1
      <4>1. walk.stats # <<>> /\ Len(walk.stats) = 2 * i - 2 /\ 2 * i - 2 \in 1 .. Len(walk.stats)
        BY <1>0, <2>3, <2>5, <2>7, <3>4
      <4>2. walk'.stats[2 * i - 2] = walk.stats[2 * i - 2]
        BY <2>1, <4>1 DEF Grown
      <4>3. walk.currentNode # NoNode /\ IsNow(walk.stats[2 * i - 2], walk)
        BY <1>1, <2>2, <4>1 DEF Recorded
      <4>4. ArrivalFits(walk'.stats, nodes'[i], i)
        <5>1. /\ walk'.stats[2 * i - 1].time = walk'.currentTime
              /\ walk'.stats[2 * i - 1].workload = walk.currentLoad
              /\ walk'.stats[2 * i - 1].volume = walk.currentVolume
              /\ walk'.stats[2 * i - 1].tasksCount = walk.taskTaken
          BY <3>1, <3>2 DEF Arrives, Entry
        <5>2. /\ walk'.stats[2 * i - 2].time = walk.currentTime
              /\ walk'.stats[2 * i - 2].workload = walk.currentLoad
              /\ walk'.stats[2 * i - 2].volume = walk.currentVolume
              /\ walk'.stats[2 * i - 2].tasksCount = walk.taskTaken
          BY <4>2, <4>3 DEF IsNow
        <5>3. /\ walk'.currentTime >= Point(nodes'[i]).ts /\ walk'.currentTime >= walk.currentTime
              /\ walk'.currentTime \in Nat /\ walk.currentTime \in Nat /\ i # 1
          BY <1>0, <3>2, <3>4, <4>3, FieldTypes DEF Arrives
        <5> QED
          BY <5>1, <5>2, <5>3 DEF ArrivalFits
      <4>5. ~ (2 * i <= Len(walk'.stats))
        BY <1>0, <2>3, <2>7
      <4> QED
        BY <4>4, <4>5
    <3> QED
      BY <2>5, <3>3, <3>4
  <2> QED
    BY <2>6, <2>7
<1>5. CASE Served
  <2> SUFFICES ASSUME event' = NoEvent, NEW i \in 1 .. Len(nodes')
               PROVE  /\ 2 * i - 1 <= Len(walk'.stats) => ArrivalFits(walk'.stats, nodes'[i], i)
                      /\ 2 * i <= Len(walk'.stats) => DepartureFits(walk'.stats, nodes'[i], i)
    BY DEF Logged
  <2>1. Grown(walk, walk', 0)
    BY <1>0, <1>5, GrownBy DEF Served, Serves
  <2>2. UNCHANGED <<nodes, event>> /\ event = NoEvent /\ pc \in {"load", "unload"}
    BY <1>5 DEF Served
  <2>3. Len(walk.stats) = 2 * pos - 1 /\ Len(walk'.stats) = 2 * pos
    <3>1. Len(walk.stats) = 2 * (pos - 1) + 1
      BY <1>1, <2>2 DEF Recorded
    <3>2. Len(walk'.stats) = Len(walk.stats) + 1
      BY <2>1 DEF Grown
    <3> QED
      BY <1>0, <3>1, <3>2
  <2>4. /\ 2 * i - 1 <= Len(walk.stats) => ArrivalFits(walk'.stats, nodes'[i], i)
        /\ 2 * i <= Len(walk.stats) => DepartureFits(walk'.stats, nodes'[i], i)
    BY <1>2, <2>1, <2>2
  <2>5. i \in Nat /\ i > 0
    BY <2>2, <1>0
  <2>6. CASE i # pos
    BY <1>0, <2>3, <2>4, <2>5, <2>6
  <2>7. CASE i = pos
    <3>1. walk'.stats[2 * i] = Entry(walk', 0)
      BY <1>0, <2>1, <2>3, <2>7 DEF Grown
    <3>2. Serves(walk, walk', nodes'[i]) /\ walk'.currentTime <= Point(nodes'[i]).te
      BY <1>5, <2>2, <2>7 DEF Served, Node
    <3>3. walk.stats # <<>> /\ 2 * i - 1 \in 1 .. Len(walk.stats)
      BY <1>0, <2>3, <2>5, <2>7
    <3>4. walk'.stats[2 * i - 1] = walk.stats[2 * i - 1]
      BY <2>1, <3>3 DEF Grown
    <3>5. walk.stats[2 * i - 1].time = walk.currentTime
      BY <1>1, <2>2, <2>3, <2>7, <3>3 DEF Recorded, IsNow
    <3>6. walk.currentTime <= walk'.currentTime
      <4>1. Node \in Nodes /\ Node = nodes'[i]
        BY <1>5, <2>2, <2>7 DEF Served, Node
      <4>2. Point(nodes'[i]).dur \in Nat /\ walk.currentTime \in Nat
        BY <1>0, <4>1, PointType, FieldTypes
      <4> QED
        BY <3>2, <4>2 DEF Serves
    <3>7. DepartureFits(walk'.stats, nodes'[i], i)
      BY <3>1, <3>2, <3>4, <3>5, <3>6 DEF DepartureFits, Entry
    <3> QED
      BY <2>3, <2>4, <2>7, <3>7, <1>0
  <2> QED
    BY <2>6, <2>7
<1>6. CASE Failed
  BY <1>6 DEF Failed, Logged
<1>7. CASE Finish
  BY <1>1, <1>7 DEF Finish, Logged, route
<1> QED
  BY <1>3, <1>4, <1>5, <1>6, <1>7, StepKinds

\* a smaller value exceeds no limit that the larger one does not
LEMMA LessFits ==
  ASSUME NEW a \in Int, NEW b \in Int, a <= b, NEW limit \in Int, ~Exceeds(b, limit)
  PROVE  ~Exceeds(a, limit)
  BY DEF Exceeds

LEMMA LimitTypes ==
  ASSUME NEW v \in VehicleIds
  PROVE  /\ Vehicle[v].capacity \in Int /\ Vehicle[v].maxVolume \in Int
         /\ TripMaxTasks(v) \in Int
<1>1. Vehicle[v] \in VehicleType
  BY FleetAssumption
<1>2. /\ Vehicle[v].capacity \in Nat /\ Vehicle[v].maxVolume \in Nat
      /\ Vehicle[v].tripMaxTasks \in Nat
  BY <1>1 DEF VehicleType
<1> QED
  BY <1>2 DEF TripMaxTasks

LEMMA NextLimited ==
  ASSUME LoadInv, ReportInv, Next
  PROVE  Limited'
<1>0. /\ walk \in WalkState /\ walk' \in WalkState
      /\ pos \in Nat \ {0} /\ pos' \in Nat \ {0}
      /\ Len(nodes) \in Nat /\ Len(walk.stats) \in Nat /\ Len(walk'.stats) \in Nat
      /\ pos <= Len(nodes) + 1
  BY StepTypes
<1>1. Recorded /\ Limited
  BY DEF ReportInv
\* a new entry shows the truck as it is after the step
<1>2. ASSUME NEW d, Grown(walk, walk', d), event = NoEvent, UNCHANGED vehicleId,
             Fits(walk', vehicleId)
      PROVE  \A k \in 1 .. Len(walk'.stats) :
                LoadFits(walk'.stats[k].workload, walk'.stats[k].volume,
                         walk'.stats[k].tasksCount, vehicleId')
  <2> SUFFICES ASSUME NEW k \in 1 .. Len(walk'.stats)
               PROVE  LoadFits(walk'.stats[k].workload, walk'.stats[k].volume,
                               walk'.stats[k].tasksCount, vehicleId)
    BY <1>2 DEF LoadFits
  <2>1. CASE k \in 1 .. Len(walk.stats)
    BY <1>1, <1>2, <2>1 DEF Limited, Grown
  <2>2. CASE k = Len(walk.stats) + 1
    <3>1. walk'.stats[k] = Entry(walk', d)
      BY <1>2, <2>2 DEF Grown
    <3> QED
      BY <1>2, <3>1 DEF Entry, Fits
  <2>3. Len(walk'.stats) = Len(walk.stats) + 1
    BY <1>2 DEF Grown
  <2> QED
    BY <1>0, <2>1, <2>2, <2>3
<1>3. CASE Readied
  <2>1. (UNCHANGED <<nodes, vehicleId, pos, walk, event>> /\ pos = 1) \/ event # NoEvent
    BY <1>1, <1>3 DEF Recorded, Readied
  <2> QED
    BY <1>1, <1>3, <2>1 DEF Limited, Readied, Fits, LoadFits
<1>4. CASE Moved
  <2> SUFFICES ASSUME event' = NoEvent PROVE Limited'
    BY DEF Limited
  <2>1. Grown(walk, walk', walk'.currentDistanceMeters - walk.currentDistanceMeters)
    BY <1>0, <1>4, GrownBy DEF Moved, Arrives
  <2>2. UNCHANGED <<nodes, vehicleId, pos, event>> /\ event = NoEvent
    BY <1>4 DEF Moved
  <2>3. Fits(walk', vehicleId)
    BY <1>1, <1>4, <2>2 DEF Limited, Fits, Moved, Arrives
  <2>4. pc' \in {"load", "unload"}
    BY <1>4 DEF Moved
  <2>5. /\ Fits(walk', vehicleId')
        /\ \A k \in 1 .. Len(walk'.stats) :
                LoadFits(walk'.stats[k].workload, walk'.stats[k].volume,
                         walk'.stats[k].tasksCount, vehicleId')
    BY <1>2, <2>1, <2>2, <2>3
  <2> QED
    BY <2>4, <2>5 DEF Limited, Feasible, Fits
<1>5. CASE Served
  <2> SUFFICES ASSUME event' = NoEvent PROVE Limited'
    BY DEF Limited
  <2>1. Grown(walk, walk', 0)
    BY <1>0, <1>5, GrownBy DEF Served, Serves
  <2>2. /\ UNCHANGED <<nodes, vehicleId, event>> /\ event = NoEvent /\ pos' - 1 = pos
        /\ vehicleId \in VehicleIds
    BY <1>0, <1>5 DEF Served, LoadInv, TypeInv, TypeOK
  <2>3. Fits(walk', vehicleId)
    <3>1. CASE IsTaskStart(Node)
      BY <1>5, <3>1 DEF Served
    <3>2. CASE ~IsTaskStart(Node)
      <4>1. /\ walk'.currentLoad <= walk.currentLoad /\ walk'.currentVolume <= walk.currentVolume
            /\ walk'.taskTaken <= walk.taskTaken
        BY <1>5, <3>2 DEF Served
      <4>2. Fits(walk, vehicleId)
        BY <1>1, <2>2 DEF Limited
      <4>3. /\ walk'.currentLoad \in Int /\ walk'.currentVolume \in Int /\ walk'.taskTaken \in Int
            /\ walk.currentLoad \in Int /\ walk.currentVolume \in Int /\ walk.taskTaken \in Int
        BY <1>0, FieldTypes
      <4> QED
        BY <2>2, <4>1, <4>2, <4>3, LessFits, LimitTypes DEF Fits, LoadFits
    <3> QED
      BY <3>1, <3>2
  <2>4. ~IsTaskStart(nodes'[pos' - 1]) => TripFits(walk', vehicleId')
    BY <1>5, <2>2 DEF Served, Node, TripFits
  <2>5. /\ Fits(walk', vehicleId')
        /\ \A k \in 1 .. Len(walk'.stats) :
                LoadFits(walk'.stats[k].workload, walk'.stats[k].volume,
                         walk'.stats[k].tasksCount, vehicleId')
    BY <1>2, <2>1, <2>2, <2>3
  <2> QED
    BY <2>4, <2>5 DEF Limited, Fits, TripFits
<1>6. CASE Failed
  BY <1>6 DEF Failed, Limited
<1>7. CASE Finish
  BY <1>1, <1>7 DEF Finish, Limited, route, Fits, LoadFits, TripFits
<1> QED
  BY <1>3, <1>4, <1>5, <1>6, <1>7, StepKinds

\* the metres of the entries up to now do not change with a new entry
LEMMA DrivenFurther ==
  ASSUME NEW w \in WalkState, NEW m \in WalkState, NEW d \in Int, Grown(w, m, d)
  PROVE  SumFunctionOnSet(Metres(m), 1 .. Len(m.stats))
           = SumFunctionOnSet(Metres(w), 1 .. Len(w.stats)) + d
<1> DEFINE n == Len(w.stats)
<1>1. n \in Nat /\ w.stats \in Seq(PointStat)
  BY FieldTypes
<1>2. \A k \in 1 .. n : w.stats[k] \in PointStat
  BY <1>1
<1>3. \A k \in 1 .. n : w.stats[k].distance \in Int
  BY <1>2 DEF PointStat
<1>4. Len(m.stats) = n + 1 /\ m.stats[n + 1].distance = d
  BY DEF Grown, Entry
<1>5. \A k \in 1 .. n : m.stats[k] = w.stats[k]
  BY DEF Grown
<1> HIDE DEF n
<1>6. \A k \in 1 .. n : Metres(w)[k] \in Int /\ Metres(m)[k] = Metres(w)[k]
  BY <1>1, <1>3, <1>4, <1>5 DEF Metres, n
<1>7. Metres(m)[n + 1] = d
  BY <1>1, <1>4 DEF Metres
<1>8. SumFunctionOnSet(Metres(m), 1 .. n + 1) = SumFunctionOnSet(Metres(w), 1 .. n) + d
  BY <1>1, <1>6, <1>7, SumNext
<1> QED
  BY <1>4, <1>8 DEF n

LEMMA NextDistanceKept ==
  ASSUME LoadInv, ReportInv, Next
  PROVE  DistanceKept'
<1>0. walk \in WalkState /\ walk' \in WalkState
  BY StepTypes
<1>1. DistanceKept
  BY DEF ReportInv
<1>2. walk.currentDistanceMeters \in Int /\ walk'.currentDistanceMeters \in Int
  BY <1>0, FieldTypes
<1>3. ASSUME NEW d \in Int, Grown(walk, walk', d),
             walk'.currentDistanceMeters = walk.currentDistanceMeters + d, UNCHANGED event
      PROVE  DistanceKept'
  <2>1. SumFunctionOnSet(Metres(walk'), 1 .. Len(walk'.stats))
          = SumFunctionOnSet(Metres(walk), 1 .. Len(walk.stats)) + d
    BY <1>0, <1>3, DrivenFurther
  <2> QED
    BY <1>1, <1>3, <2>1 DEF DistanceKept, Driven
<1>4. CASE Readied
  BY <1>1, <1>4 DEF Readied, DistanceKept, Driven, Metres
<1>5. CASE Moved
  <2> DEFINE d == walk'.currentDistanceMeters - walk.currentDistanceMeters
  <2>1. Grown(walk, walk', d)
    BY <1>0, <1>5, GrownBy DEF Moved, Arrives
  <2>2. d \in Int /\ walk'.currentDistanceMeters = walk.currentDistanceMeters + d
    BY <1>2
  <2> HIDE DEF d
  <2> QED
    BY <1>3, <1>5, <2>1, <2>2 DEF Moved
<1>6. CASE Served
  <2>1. Grown(walk, walk', 0)
    BY <1>0, <1>6, GrownBy DEF Served, Serves
  <2>2. 0 \in Int /\ walk'.currentDistanceMeters = walk.currentDistanceMeters + 0
    BY <1>2, <1>6 DEF Served, Serves
  <2> QED
    BY <1>3, <1>6, <2>1, <2>2 DEF Served
<1>7. CASE Failed
  BY <1>7 DEF Failed, DistanceKept
<1>8. CASE Finish
  BY <1>1, <1>8 DEF Finish, DistanceKept, Driven, Metres
<1> QED
  BY <1>4, <1>5, <1>6, <1>7, <1>8, StepKinds

LEMMA ReportInvariant == Spec => [](LoadInv /\ ReportInv)
<1>1. Init => LoadInv /\ ReportInv
  BY InitLoadInv, InitReportInv
<1>2. LoadInv /\ ReportInv /\ [Next]_vars => (LoadInv /\ ReportInv)'
  <2>1. LoadInv /\ ReportInv /\ Next => (LoadInv /\ ReportInv)'
    BY NextTypeInv, NextLoadInv, NextRecorded, NextLogged, NextLimited, NextDistanceKept
       DEF LoadInv, ReportInv
  <2>2. LoadInv /\ ReportInv /\ UNCHANGED vars => (LoadInv /\ ReportInv)'
    <3> SUFFICES ASSUME LoadInv, ReportInv, UNCHANGED vars PROVE (LoadInv /\ ReportInv)'
      OBVIOUS
    <3>1. UNCHANGED <<nodes, vehicleId, solved, pc, pos, walk, event, result>>
      BY DEF vars
    <3>2. LoadInv'
      BY <3>1 DEF LoadInv, TypeInv, TypeOK, Clock, Placed, Node, Carried, Onboard,
                  OnboardAfter, Capacity, Volume, EmptyTruckNeverDelivers
    <3>3. Recorded'
      BY <3>1 DEF ReportInv, Recorded, Feasible, IsNow, StatOfWalk
    <3>4. Logged' /\ DistanceKept'
      BY <3>1 DEF ReportInv, Logged, DistanceKept, Driven, Metres
    <3>5. Limited'
      BY <3>1 DEF ReportInv, Limited, Feasible, Fits, LoadFits, TripFits
    <3> QED
      BY <3>2, <3>3, <3>4, <3>5 DEF ReportInv
  <2> QED
    BY <2>1, <2>2
<1> QED
  BY <1>1, <1>2, PTL DEF Spec

-----------------------------------------------------------------------------
(* What a route that can be driven reports *)

\* a route whose unloads follow their loads ends with an unload
LEMMA LastUnloads ==
  ASSUME NEW ns \in Routes, ~UnloadsBeforeLoad(ns)
  PROVE  /\ Len(ns) \in Nat \ {0}
         /\ ~IsTaskStart(ns[Len(ns)])
         /\ \A t \in TaskIds : (\E i \in 1 .. Len(ns) : ns[i] = 2 * t)
                                 => \E i \in 1 .. Len(ns) : ns[i] = 2 * t + 1
<1>1. PICK k \in 1 .. NumTasks : ns \in [1 .. 2 * k -> Nodes] /\ IsRoute(ns)
  BY DEF Routes
<1>2. ns \in Seq(Nodes) /\ Len(ns) = 2 * k /\ DOMAIN ns = 1 .. Len(ns) /\ k \in Nat \ {0}
  <2>1. 2 * k \in Nat /\ k \in Nat \ {0}
    BY FleetAssumption
  <2> QED
    BY <1>1, <2>1
<1>3. \A i, j \in 1 .. Len(ns) : ns[i] = ns[j] => i = j
  BY NodesOfRoute
<1>4. \A i \in 1 .. Len(ns) : ns[i] \in Nodes
  BY <1>2
\* the other node of a task that is loaded unloads it
<1>5. ASSUME NEW i \in 1 .. Len(ns), IsTaskStart(ns[i])
      PROVE  \E j \in 1 .. Len(ns) : ns[j] = ns[i] + 1
  <2>1. PICK j \in DOMAIN ns : TaskOf(ns[j]) = TaskOf(ns[i]) /\ ns[j] # ns[i]
    BY <1>1, <1>2 DEF IsRoute
  <2>2. ns[i] \in Nodes /\ ns[j] \in Nodes /\ j \in 1 .. Len(ns)
    BY <1>2, <1>4
  <2>3. /\ ns[i] = 2 * TaskOf(ns[i]) /\ TaskOf(ns[i]) \in TaskIds
        /\ ns[j] = 2 * TaskOf(ns[j]) \/ ns[j] = 2 * TaskOf(ns[j]) + 1
    BY <1>5, <2>2, NodeTask
  <2>4. ns[j] = ns[i] + 1
    BY <2>1, <2>3
  <2> QED
    BY <2>2, <2>4
<1>6. ~IsTaskStart(ns[Len(ns)])
  <2> SUFFICES ASSUME IsTaskStart(ns[Len(ns)]) PROVE FALSE
    OBVIOUS
  <2>1. Len(ns) \in 1 .. Len(ns)
    BY <1>2
  <2>2. PICK j \in 1 .. Len(ns) : ns[j] = ns[Len(ns)] + 1
    BY <1>5, <2>1
  <2>3. ns[Len(ns)] \in Int /\ ns[j] \in Int
    BY <1>4, <2>1, FleetAssumption DEF Nodes
  <2>4. ~IsTaskStart(ns[j])
    BY <2>2, <2>3 DEF IsTaskStart
  <2>5. PICK i \in DOMAIN ns : i < j /\ ns[i] = ns[j] - 1
    BY <1>2, <2>4 DEF UnloadsBeforeLoad
  <2>6. ns[i] = ns[Len(ns)]
    BY <2>2, <2>3, <2>5
  <2>7. i = Len(ns)
    BY <1>2, <1>3, <2>1, <2>5, <2>6
  <2> QED
    BY <1>2, <2>5, <2>7
<1>7. ASSUME NEW t \in TaskIds, NEW i \in 1 .. Len(ns), ns[i] = 2 * t
      PROVE  \E j \in 1 .. Len(ns) : ns[j] = 2 * t + 1
  <2>1. IsTaskStart(ns[i])
    BY <1>7, FleetAssumption DEF IsTaskStart, TaskIds
  <2> QED
    BY <1>5, <1>7, <2>1
<1> QED
  BY <1>2, <1>6, <1>7

\* nothing is left on the truck when the route is served
LEMMA NothingLeft ==
  ASSUME TypeOK, ~UnloadsBeforeLoad(nodes), pos = Len(nodes) + 1
  PROVE  Onboard = {}
<1>1. nodes \in Routes /\ pos - 1 = Len(nodes)
  BY NodesOfRoute DEF TypeOK
<1> QED
  BY <1>1, LastUnloads DEF Onboard, OnboardAfter

\* what the walk leaves behind, at the end of a route that can be driven
Concluded ==
    Feasible =>
        /\ ~UnloadsBeforeLoad(nodes)
        /\ walk.currentLoad = 0 /\ walk.currentVolume = 0 /\ walk.taskTaken = 0

LEMMA NextConcluded ==
  ASSUME LoadInv, ReportInv, Concluded, Next
  PROVE  Concluded'
<1>1. Recorded /\ Carried /\ TypeOK
  BY DEF ReportInv, LoadInv, TypeInv
<1>2. CASE Readied
  BY <1>1, <1>2 DEF Readied, Concluded, Feasible
<1>3. CASE Moved
  BY <1>3 DEF Moved, Concluded, Feasible
<1>4. CASE Served
  BY <1>4 DEF Served, Concluded, Feasible
<1>5. CASE Failed
  BY <1>5 DEF Failed, Concluded, Feasible
<1>6. CASE Finish
  <2>1. pos = Len(nodes) + 1
    BY <1>6, StepTypes DEF Finish
  <2>2. /\ ~UnloadsBeforeLoad(nodes) /\ walk.taskTaken = Cardinality(Onboard)
        /\ walk.currentLoad = SumFunctionOnSet(Capacity, Onboard)
        /\ walk.currentVolume = SumFunctionOnSet(Volume, Onboard)
    BY <1>1, <1>6 DEF Finish, Carried
  <2>3. Onboard = {}
    BY <1>1, <2>1, <2>2, NothingLeft
  <2>4. walk.currentLoad = 0 /\ walk.currentVolume = 0 /\ walk.taskTaken = 0
    BY <2>2, <2>3, SumOfNone, FS_EmptySet
  <2> QED
    BY <1>6, <2>2, <2>4 DEF Finish, Concluded, route
<1> QED
  BY <1>2, <1>3, <1>4, <1>5, <1>6, StepKinds

LEMMA ConclusionInvariant == Spec => [](LoadInv /\ ReportInv /\ Concluded)
<1>1. Init => Concluded
  BY DEF Init, Concluded, Feasible
<1>2. LoadInv /\ ReportInv /\ Concluded /\ [Next]_vars => Concluded'
  <2>1. Concluded /\ UNCHANGED vars => Concluded'
    BY DEF Concluded, Feasible, vars
  <2> QED
    BY <2>1, NextConcluded
<1> QED
  BY <1>1, <1>2, ReportInvariant, PTL DEF Spec

\* where the walk is when the route can be driven
LEMMA AtTheEnd ==
  ASSUME LoadInv, ReportInv, Concluded, Feasible
  PROVE  /\ walk \in WalkState /\ nodes \in Seq(Nodes) /\ Len(nodes) \in Nat \ {0}
         /\ DOMAIN nodes = 1 .. Len(nodes)
         /\ Len(walk.stats) = 2 * Len(nodes)
         /\ walk.stats \in Seq(PointStat)
         /\ \A i \in 1 .. Len(nodes) : /\ ArrivalFits(walk.stats, nodes[i], i)
                                       /\ DepartureFits(walk.stats, nodes[i], i)
         /\ result = StatOfWalk(walk, vehicleId, nodes)
         /\ pos - 1 = Len(nodes) /\ pos > 1
         /\ ~IsTaskStart(nodes[Len(nodes)])
<1>1. /\ TypeOK /\ Recorded /\ Logged /\ ~UnloadsBeforeLoad(nodes)
      /\ event = NoEvent /\ pc = "returned"
  BY DEF LoadInv, TypeInv, ReportInv, Concluded, Feasible
<1>2. /\ walk \in WalkState /\ nodes \in Routes /\ nodes \in Seq(Nodes)
      /\ walk.stats \in Seq(PointStat)
  BY <1>1, NodesOfRoute, FieldTypes DEF TypeOK
<1>3. Len(nodes) \in Nat \ {0} /\ ~IsTaskStart(nodes[Len(nodes)]) /\ DOMAIN nodes = 1 .. Len(nodes)
  BY <1>1, <1>2, LastUnloads
<1>4. pos = Len(nodes) + 1 /\ result = StatOfWalk(walk, vehicleId, nodes)
  BY <1>1 DEF Recorded
<1>5. pos - 1 = Len(nodes) /\ pos > 1
  BY <1>3, <1>4
<1>6. Len(walk.stats) = 2 * (pos - 1) + 0
  BY <1>1 DEF Recorded
<1>7. Len(walk.stats) = 2 * Len(nodes)
  BY <1>3, <1>5, <1>6
<1>8. \A i \in 1 .. Len(nodes) : 2 * i <= Len(walk.stats) /\ 2 * i - 1 <= Len(walk.stats)
  BY <1>3, <1>7
<1>9. \A i \in 1 .. Len(nodes) : /\ ArrivalFits(walk.stats, nodes[i], i)
                                 /\ DepartureFits(walk.stats, nodes[i], i)
  BY <1>1, <1>8 DEF Logged
<1> QED
  BY <1>2, <1>3, <1>4, <1>5, <1>7, <1>9

LEMMA TimesFit ==
  ASSUME LoadInv, ReportInv, Concluded
  PROVE  ReportedTimesFit
<1> SUFFICES ASSUME Feasible PROVE ReportedTimesFit
  BY DEF ReportedTimesFit
<1>1. /\ Len(nodes) \in Nat /\ DOMAIN nodes = 1 .. Len(nodes)
      /\ Len(walk.stats) = 2 * Len(nodes)
      /\ \A i \in 1 .. Len(nodes) : /\ ArrivalFits(walk.stats, nodes[i], i)
                                    /\ DepartureFits(walk.stats, nodes[i], i)
  BY AtTheEnd
<1>2. ASSUME NEW i \in 1 .. Len(nodes)
      PROVE  /\ TaskWithStat(i).timeStart >= Point(nodes[i]).ts
             /\ TaskWithStat(i).timeEnd <= Point(nodes[i]).te
             /\ TaskWithStat(i).timeStart <= TaskWithStat(i).timeEnd
             /\ i > 1 => TaskWithStat(i - 1).timeEnd <= TaskWithStat(i).timeStart
  <2>1. ArrivalFits(walk.stats, nodes[i], i) /\ DepartureFits(walk.stats, nodes[i], i)
    BY <1>1
  <2>2. 2 * (i - 1) = 2 * i - 2
    BY <1>1
  <2>3. /\ TaskWithStat(i).timeStart = walk.stats[2 * i - 1].time
        /\ TaskWithStat(i).timeEnd = walk.stats[2 * i].time
        /\ TaskWithStat(i - 1).timeEnd = walk.stats[2 * i - 2].time
    BY <2>2 DEF TaskWithStat, Arrived, Left
  <2> QED
    BY <2>1, <2>3 DEF ArrivalFits, DepartureFits
<1> QED
  BY <1>1, <1>2 DEF ReportedTimesFit

\* A route declared feasible respects the vehicle at every entry it reports and in
\* its totals, although length and duration are only compared where the truck
\* unloads and volume, load and count only where it loads: the last node unloads.
THEOREM LimitsCorrect == Spec => []VehicleLimitsHold
<1>1. ASSUME LoadInv, ReportInv, Concluded
      PROVE  VehicleLimitsHold
  <2> SUFFICES ASSUME Feasible PROVE VehicleLimitsHold
    BY DEF VehicleLimitsHold
  <2>1. /\ walk.stats \in Seq(PointStat) /\ result = StatOfWalk(walk, vehicleId, nodes)
        /\ pos - 1 = Len(nodes) /\ pos > 1 /\ ~IsTaskStart(nodes[Len(nodes)])
    BY <1>1, AtTheEnd
  <2>2. event = NoEvent /\ Limited
    BY <1>1 DEF ReportInv, Feasible
  <2>3. TripFits(walk, vehicleId)
    BY <2>1, <2>2 DEF Limited
  <2>4. result.time = TotalTimeSpend(walk) /\ result.distance = TotalDistance(walk)
    BY <2>1 DEF StatOfWalk
  <2>5. \A k \in DOMAIN walk.stats :
           LoadFits(walk.stats[k].workload, walk.stats[k].volume,
                    walk.stats[k].tasksCount, vehicleId)
    BY <2>1, <2>2 DEF Limited
  <2> QED
    BY <2>3, <2>4, <2>5 DEF VehicleLimitsHold, LoadFits, TripFits
<1> QED
  BY <1>1, ConclusionInvariant, PTL

\* a difference that getResultStats reports, added up over the nodes
LEMMA AddUp ==
  ASSUME NEW n \in Nat, NEW f, DOMAIN f = 1 .. n, NEW g,
         \A i \in 0 .. n : g[i] \in Int, \A i \in 1 .. n : f[i] = g[i] - g[i - 1]
  PROVE  SumFunction(f) = g[n] - g[0]
<1>1. SumFunctionOnSet(f, 1 .. n) = g[n] - g[0]
  BY Telescope
<1> QED
  BY <1>1, Zenon DEF SumFunction

\* what is kept from each departure to the next arrival
Balance(f, before, after, n) ==
    /\ n \in Nat \ {0} /\ DOMAIN f = 1 .. n
    /\ \A i \in 1 .. n : after[i] \in Int /\ f[i] = after[i] - before[i]
    /\ before[1] = 0 /\ \A i \in 2 .. n : before[i] = after[i - 1]

LEMMA BalancesOut ==
  ASSUME NEW n, NEW before, NEW after, NEW f, Balance(f, before, after, n)
  PROVE  SumFunction(f) = after[n]
<1> USE DEF Balance
<1> DEFINE g == [i \in 0 .. n |-> IF i = 0 THEN 0 ELSE after[i]]
<1>1. \A i \in 0 .. n : g[i] \in Int
  OBVIOUS
<1>2. \A i \in 1 .. n : f[i] = g[i] - g[i - 1]
  <2> SUFFICES ASSUME NEW i \in 1 .. n PROVE f[i] = g[i] - g[i - 1]
    OBVIOUS
  <2>1. g[i] = after[i]
    OBVIOUS
  <2>2. CASE i = 1
    BY <2>1, <2>2
  <2>3. CASE i # 1
    <3>1. i \in 2 .. n /\ i - 1 \in 0 .. n /\ i - 1 # 0
      BY <2>3
    <3>2. g[i - 1] = after[i - 1]
      BY <3>1
    <3> QED
      BY <2>1, <3>1, <3>2
  <2> QED
    BY <2>2, <2>3
<1>3. g[n] = after[n] /\ g[0] = 0 /\ after[n] \in Int
  OBVIOUS
<1> HIDE DEF g
<1>4. SumFunction(f) = g[n] - g[0]
  BY <1>1, <1>2, AddUp
<1> QED
  BY <1>3, <1>4

\* the metres up to the departure from the i-th node
LEMMA DrivenTo ==
  ASSUME LoadInv, ReportInv, Concluded, Feasible, NEW i \in 1 .. Len(nodes)
  PROVE  /\ Driven(2 * i) \in Int /\ Driven(2 * (i - 1)) \in Int
         /\ TaskWithStat(i).distanceDiff = Driven(2 * i) - Driven(2 * (i - 1))
<1>1. /\ Len(nodes) \in Nat /\ Len(walk.stats) = 2 * Len(nodes)
      /\ walk.stats \in Seq(PointStat) /\ DepartureFits(walk.stats, nodes[i], i)
  BY AtTheEnd
<1>2. \A k \in 1 .. Len(walk.stats) : walk.stats[k] \in PointStat
  BY <1>1
<1>3. \A k \in 1 .. Len(walk.stats) :
         Metres(walk)[k] = walk.stats[k].distance /\ Metres(walk)[k] \in Int
  BY <1>2 DEF PointStat, Metres
<1> DEFINE k == 2 * (i - 1)
<1>4. /\ k \in Nat /\ k + 1 \in Nat /\ k + 1 = 2 * i - 1 /\ (k + 1) + 1 = 2 * i
      /\ k + 1 \in 1 .. Len(walk.stats) /\ (k + 1) + 1 \in 1 .. Len(walk.stats)
  BY <1>1
<1> HIDE DEF k
<1>5. /\ \A j \in 1 .. k : Metres(walk)[j] \in Int
      /\ \A j \in 1 .. k + 1 : Metres(walk)[j] \in Int
      /\ Metres(walk)[k + 1] \in Int /\ Metres(walk)[(k + 1) + 1] \in Int
  BY <1>3, <1>4
<1>6. Driven(k + 1) = Driven(k) + Metres(walk)[k + 1]
  BY <1>4, <1>5, SumNext DEF Driven
<1>7. Driven((k + 1) + 1) = Driven(k + 1) + Metres(walk)[(k + 1) + 1]
  BY <1>4, <1>5, SumNext DEF Driven
<1>8. Metres(walk)[(k + 1) + 1] = 0
  BY <1>1, <1>3, <1>4 DEF DepartureFits
<1>9. Driven(k) \in Int
  <2>1. IsFiniteSet(1 .. k)
    BY <1>4, FS_Interval
  <2> QED
    BY <1>5, <2>1, SumType DEF Driven
<1>10. TaskWithStat(i).distanceDiff = Metres(walk)[k + 1] - Metres(walk)[(k + 1) + 1]
  BY <1>3, <1>4 DEF TaskWithStat, Arrived, Left
<1>11. Driven(2 * i) = Driven(k) + Metres(walk)[k + 1] + 0
  <2>1. Driven(2 * i) = Driven((k + 1) + 1)
    BY <1>4
  <2> QED
    BY <1>5, <1>6, <1>7, <1>8, <1>9, <2>1
<1>12. TaskWithStat(i).distanceDiff = Metres(walk)[k + 1] - 0
  BY <1>8, <1>10
<1> QED
  BY <1>5, <1>9, <1>11, <1>12 DEF k

LEMMA AddsUp ==
  ASSUME LoadInv, ReportInv, Concluded
  PROVE  ReportAddsUp
<1> SUFFICES ASSUME Feasible PROVE ReportAddsUp
  BY DEF ReportAddsUp
<1> DEFINE n == Len(nodes)
<1>1. /\ n \in Nat \ {0} /\ DOMAIN nodes = 1 .. n /\ Len(walk.stats) = 2 * n
      /\ walk.stats \in Seq(PointStat) /\ walk \in WalkState
      /\ \A i \in 1 .. n : ArrivalFits(walk.stats, nodes[i], i)
      /\ result = StatOfWalk(walk, vehicleId, nodes)
  BY AtTheEnd
<1>2. /\ event = NoEvent /\ Recorded /\ DistanceKept
      /\ walk.currentLoad = 0 /\ walk.currentVolume = 0 /\ walk.taskTaken = 0
  BY DEF ReportInv, Feasible, Concluded
<1>3. \A i \in 1 .. n : TaskWithStat(i).distanceDiff = Driven(2 * i) - Driven(2 * (i - 1))
                        /\ Driven(2 * i) \in Int /\ Driven(2 * (i - 1)) \in Int
  BY DrivenTo
<1> HIDE DEF n
<1>4. IsNow(walk.stats[2 * n], walk)
  <2>1. walk.stats # <<>>
    BY <1>1
  <2> QED
    BY <1>1, <1>2, <2>1 DEF Recorded
<1>5. \A i \in 1 .. n : /\ walk.stats[2 * i].workload \in Int
                        /\ walk.stats[2 * i].volume \in Int
                        /\ walk.stats[2 * i].tasksCount \in Int
  <2>1. \A i \in 1 .. n : 2 * i \in 1 .. Len(walk.stats)
    BY <1>1
  <2>2. \A i \in 1 .. n : walk.stats[2 * i] \in PointStat
    BY <1>1, <2>1
  <2> QED
    BY <2>2 DEF PointStat
<1>a. 1 \in 1 .. n /\ 2 * 1 - 1 = 1
  BY <1>1
<1>c. n \in Nat \ {0}
  BY <1>1
<1>b. \A i \in 2 .. n : i > 1 /\ i \in 1 .. n /\ i - 1 \in 1 .. n /\ 2 * (i - 1) = 2 * i - 2
  BY <1>1
\* distances
<1>6. SumFunction([i \in DOMAIN nodes |-> TaskWithStat(i).distanceDiff]) = result.distance
  <2> DEFINE f == [i \in DOMAIN nodes |-> TaskWithStat(i).distanceDiff]
             g == [i \in 0 .. n |-> Driven(2 * i)]
  <2>1. \A i \in 1 .. n : f[i] = g[i] - g[i - 1] /\ g[i] \in Int /\ g[i - 1] \in Int
    <3> SUFFICES ASSUME NEW i \in 1 .. n
                 PROVE  f[i] = g[i] - g[i - 1] /\ g[i] \in Int /\ g[i - 1] \in Int
      OBVIOUS
    <3>1. f[i] = TaskWithStat(i).distanceDiff
      BY <1>1
    <3>2. i \in 0 .. n /\ i - 1 \in 0 .. n
      BY <1>1
    <3>3. g[i] = Driven(2 * i) /\ g[i - 1] = Driven(2 * (i - 1))
      BY <3>2
    <3> QED
      BY <1>3, <3>1, <3>3
  <2>2. DOMAIN f = 1 .. n
    BY <1>1
  <2>3. g[n] = walk.currentDistanceMeters
    <3>1. g[n] = Driven(2 * n)
      BY <1>1
    <3> QED
      BY <1>1, <1>2, <3>1 DEF DistanceKept
  <2>4. g[0] = 0
    <3>1. g[0] = Driven(0) /\ 1 .. 0 = {}
      BY <1>1
    <3> QED
      BY <3>1, SumOfNone DEF Driven
  <2> HIDE DEF f, g
  <2>5. \A i \in 0 .. n : g[i] \in Int
    BY <1>1, <2>1, <2>4
  <2>6. SumFunction(f) = g[n] - g[0]
    BY <1>1, <2>1, <2>2, <2>5, AddUp
  <2>7. walk.currentDistanceMeters \in Int
    BY <1>1, FieldTypes
  <2>8. SumFunction(f) = walk.currentDistanceMeters
    BY <2>3, <2>4, <2>6, <2>7
  <2>9. result.distance = walk.currentDistanceMeters
    BY <1>1 DEF StatOfWalk, TotalDistance
  <2> QED
    BY <2>8, <2>9 DEF f
\* load
<1>7. SumFunction([i \in DOMAIN nodes |-> TaskWithStat(i).workloadDiff]) = 0
  <2> DEFINE f == [i \in DOMAIN nodes |-> TaskWithStat(i).workloadDiff]
             before == [i \in 1 .. n |-> walk.stats[2 * i - 1].workload]
             after  == [i \in 1 .. n |-> walk.stats[2 * i].workload]
  <2>1. DOMAIN f = 1 .. n /\ \A i \in 1 .. n : after[i] \in Int /\ f[i] = after[i] - before[i]
    BY <1>1, <1>5 DEF TaskWithStat, Arrived, Left
  <2>2. before[1] = 0
    BY <1>1, <1>a DEF ArrivalFits
  <2>3. \A i \in 2 .. n : before[i] = after[i - 1]
    BY <1>1, <1>b DEF ArrivalFits
  <2>4. after[n] = 0
    BY <1>1, <1>2, <1>4 DEF IsNow
  <2> HIDE DEF f, before, after
  <2>5. SumFunction(f) = after[n]
    <3>1. Balance(f, before, after, n)
      BY <1>c, <2>1, <2>2, <2>3 DEF Balance
    <3> QED
      BY <3>1, BalancesOut, Zenon
  <2> QED
    BY <2>4, <2>5 DEF f
\* volume
<1>8. SumFunction([i \in DOMAIN nodes |-> TaskWithStat(i).volumeDiff]) = 0
  <2> DEFINE f == [i \in DOMAIN nodes |-> TaskWithStat(i).volumeDiff]
             before == [i \in 1 .. n |-> walk.stats[2 * i - 1].volume]
             after  == [i \in 1 .. n |-> walk.stats[2 * i].volume]
  <2>1. DOMAIN f = 1 .. n /\ \A i \in 1 .. n : after[i] \in Int /\ f[i] = after[i] - before[i]
    BY <1>1, <1>5 DEF TaskWithStat, Arrived, Left
  <2>2. before[1] = 0
    BY <1>1, <1>a DEF ArrivalFits
  <2>3. \A i \in 2 .. n : before[i] = after[i - 1]
    BY <1>1, <1>b DEF ArrivalFits
  <2>4. after[n] = 0
    BY <1>1, <1>2, <1>4 DEF IsNow
  <2> HIDE DEF f, before, after
  <2>5. SumFunction(f) = after[n]
    <3>1. Balance(f, before, after, n)
      BY <1>c, <2>1, <2>2, <2>3 DEF Balance
    <3> QED
      BY <3>1, BalancesOut, Zenon
  <2> QED
    BY <2>4, <2>5 DEF f
\* tasks
<1>9. SumFunction([i \in DOMAIN nodes |-> TaskWithStat(i).tasksCountDiff]) = 0
  <2> DEFINE f == [i \in DOMAIN nodes |-> TaskWithStat(i).tasksCountDiff]
             before == [i \in 1 .. n |-> walk.stats[2 * i - 1].tasksCount]
             after  == [i \in 1 .. n |-> walk.stats[2 * i].tasksCount]
  <2>1. DOMAIN f = 1 .. n /\ \A i \in 1 .. n : after[i] \in Int /\ f[i] = after[i] - before[i]
    BY <1>1, <1>5 DEF TaskWithStat, Arrived, Left
  <2>2. before[1] = 0
    BY <1>1, <1>a DEF ArrivalFits
  <2>3. \A i \in 2 .. n : before[i] = after[i - 1]
    BY <1>1, <1>b DEF ArrivalFits
  <2>4. after[n] = 0
    BY <1>1, <1>2, <1>4 DEF IsNow
  <2> HIDE DEF f, before, after
  <2>5. SumFunction(f) = after[n]
    <3>1. Balance(f, before, after, n)
      BY <1>c, <2>1, <2>2, <2>3 DEF Balance
    <3> QED
      BY <3>1, BalancesOut, Zenon
  <2> QED
    BY <2>4, <2>5 DEF f
<1> QED
  BY <1>6, <1>7, <1>8, <1>9 DEF ReportAddsUp

\* What getResultStats reports of a route declared feasible is consistent: it has
\* its two entries for every node, each service lies in the window of its node
\* and after the service before, the distances add up to the length of the route,
\* and workload, volume and task count to an empty truck.
THEOREM ReportCorrect == Spec => []ReportFits
<1>1. LoadInv /\ ReportInv /\ Concluded => ReportFits
  BY TimesFit, AddsUp DEF ReportFits
<1> QED
  BY <1>1, ConclusionInvariant, PTL

-----------------------------------------------------------------------------
(* The walk and the functions of RouteCheck *)

Fine(w) == [walk |-> w, event |-> NoEvent]
Before == After(vehicleId, nodes, pos - 1)

\* the walk is where the loop of RouteCheck is after as many nodes
Follows ==
    /\ pc \notin {"order", "returned"} => solved = FALSE
    /\ pc \in {"node", "load", "unload"} => ~WrongVehicle(vehicleId, nodes)
    /\ pc \in {"order", "vehicle", "node"} => Before = Fine(walk)
    /\ pc = "load" => \E w : Before = Fine(w) /\ walk = MoveNextStart(w, Node)
    /\ pc = "unload" => \E w : /\ Before = Fine(w) /\ walk = MoveNextEnd(w, Node)
                               /\ MoveEndFailure(w) = NoEvent

\* the turn of the loop for the node the truck stands on
LEMMA TurnHere ==
  ASSUME TypeOK, pos <= Len(nodes)
  PROVE  /\ pos - 1 \in 0 .. Len(nodes) - 1 /\ pos \in 0 .. Len(nodes)
         /\ vehicleId \in VehicleIds /\ nodes \in Seq(Nodes)
         /\ After(vehicleId, nodes, pos) = Proceed(vehicleId, Before, Node)
<1>1. /\ nodes \in Seq(Nodes) /\ vehicleId \in VehicleIds /\ pos \in 1 .. Len(nodes) + 1
  BY NodesOfRoute DEF TypeOK
<1>2. pos - 1 \in 0 .. Len(nodes) - 1 /\ (pos - 1) + 1 = pos /\ pos \in 0 .. Len(nodes)
  BY <1>1
<1>3. After(vehicleId, nodes, (pos - 1) + 1)
        = Proceed(vehicleId, After(vehicleId, nodes, pos - 1), nodes[(pos - 1) + 1])
  BY <1>1, <1>2, AfterStep
<1> QED
  BY <1>1, <1>2, <1>3 DEF Before, Node

\* what the loop makes of the node the truck stands on
LEMMA VisitHere ==
  ASSUME TypeOK, Placed, Follows
  PROVE  /\ pc = "load" =>
              After(vehicleId, nodes, pos) =
                [walk  |-> ProcessLoad(walk, Node),
                 event |-> LoadFailure(ProcessLoad(walk, Node), vehicleId, Node)]
         /\ pc = "unload" =>
              After(vehicleId, nodes, pos) =
                [walk  |-> IF UnloadFailure(walk, vehicleId, Node) = NoEvent
                           THEN ProcessUnload(walk, Node) ELSE FailedUnload(walk, Node),
                 event |-> UnloadFailure(walk, vehicleId, Node)]
<1>1. CASE pc = "load"
  <2>1. IsTaskStart(Node) /\ pos <= Len(nodes)
    BY <1>1 DEF Placed
  <2>2. PICK w : Before = Fine(w) /\ walk = MoveNextStart(w, Node)
    BY <1>1 DEF Follows
  <2>3. After(vehicleId, nodes, pos) = Proceed(vehicleId, Fine(w), Node)
    BY <2>1, <2>2, TurnHere
  <2>4. Proceed(vehicleId, Fine(w), Node) = Visit(vehicleId, w, Node)
    BY DEF Proceed, Fine
  <2> QED
    BY <1>1, <2>1, <2>2, <2>3, <2>4 DEF Visit
<1>2. CASE pc = "unload"
  <2>1. ~IsTaskStart(Node) /\ pos <= Len(nodes)
    BY <1>2 DEF Placed
  <2>2. PICK w : Before = Fine(w) /\ walk = MoveNextEnd(w, Node) /\ MoveEndFailure(w) = NoEvent
    BY <1>2 DEF Follows
  <2>3. After(vehicleId, nodes, pos) = Proceed(vehicleId, Fine(w), Node)
    BY <2>1, <2>2, TurnHere
  <2>4. Proceed(vehicleId, Fine(w), Node) = Visit(vehicleId, w, Node)
    BY DEF Proceed, Fine
  <2> QED
    BY <1>2, <2>1, <2>2, <2>3, <2>4 DEF Visit
<1> QED
  BY <1>1, <1>2

LEMMA InitFollows == Init => Follows
<1> SUFFICES ASSUME Init PROVE Follows
  OBVIOUS
<1>1. nodes \in Seq(Nodes) /\ vehicleId \in VehicleIds
  BY NodesOfRoute DEF Init
<1>2. After(vehicleId, nodes, 0) = Start
  BY <1>1, AfterStep
<1>3. pos - 1 = 0 /\ pc = "order" /\ walk = NewWalk
  BY DEF Init
<1> QED
  BY <1>2, <1>3 DEF Follows, Before, Fine, Start

LEMMA NextFollows ==
  ASSUME TypeInv, Carried, Follows, Next
  PROVE  Follows'
<1>0. TypeOK /\ Placed
  BY DEF TypeInv
<1>1. CASE CheckOrder
  BY <1>1 DEF CheckOrder, Fail, route, Follows, Before, Fine
<1>2. CASE CheckVehicle
  BY <1>2 DEF CheckVehicle, Fail, route, Follows, Before, Fine
<1>3. CASE VisitStart
  BY <1>3 DEF VisitStart, route, Follows, Before, Fine, Node
<1>4. CASE Load
  <2>1. CASE pc' = "returned"
    BY <2>1 DEF Follows
  <2>2. CASE pc' # "returned"
    <3>1. /\ LoadFailure(walk', vehicleId, Node) = NoEvent /\ walk' = ProcessLoad(walk, Node)
          /\ pc = "load" /\ pc' = "node" /\ pos' = pos + 1
          /\ UNCHANGED <<nodes, vehicleId, solved>>
      BY <1>4, <2>2 DEF Load, Fail, route
    <3>2. After(vehicleId, nodes, pos) = Fine(walk')
      BY <1>0, <3>1, VisitHere DEF Fine
    <3>3. pos' - 1 = pos
      BY <1>0, <3>1 DEF TypeOK
    <3>4. Before' = Fine(walk)'
      BY <3>1, <3>2, <3>3 DEF Before, Fine
    <3> QED
      BY <3>1, <3>4 DEF Follows, WrongVehicle
  <2> QED
    BY <2>1, <2>2
<1>5. CASE VisitEnd
  <2>1. CASE pc' = "returned"
    BY <2>1 DEF Follows
  <2>2. CASE pc' # "returned"
    <3>1. /\ MoveEndFailure(walk) = NoEvent /\ walk' = MoveNextEnd(walk, Node)
          /\ pc = "node" /\ pc' = "unload"
          /\ UNCHANGED <<nodes, vehicleId, solved, pos>>
      BY <1>5, <2>2 DEF VisitEnd, Fail, route
    <3> QED
      BY <3>1 DEF Follows, WrongVehicle, Before, Fine, Node
  <2> QED
    BY <2>1, <2>2
<1>6. CASE Unload
  <2>1. CASE pc' = "returned"
    BY <2>1 DEF Follows
  <2>2. CASE pc' # "returned"
    <3>1. /\ UnloadFailure(walk, vehicleId, Node) = NoEvent /\ walk' = ProcessUnload(walk, Node)
          /\ pc = "unload" /\ pc' = "node" /\ pos' = pos + 1
          /\ UNCHANGED <<nodes, vehicleId, solved>>
      BY <1>6, <2>2 DEF Unload, Fail, route
    <3>2. After(vehicleId, nodes, pos) = Fine(walk')
      BY <1>0, <3>1, VisitHere DEF Fine
    <3>3. pos' - 1 = pos
      BY <1>0, <3>1 DEF TypeOK
    <3>4. Before' = Fine(walk)'
      BY <3>1, <3>2, <3>3 DEF Before, Fine
    <3> QED
      BY <3>1, <3>4 DEF Follows, WrongVehicle
  <2> QED
    BY <2>1, <2>2
<1>7. CASE Finish
  BY <1>7 DEF Finish, Follows
<1> QED
  BY <1>1, <1>2, <1>3, <1>4, <1>5, <1>6, <1>7 DEF Next

\* a failure on the way is the event of the whole route
LEMMA FailureMatches ==
  ASSUME TypeOK, Carried, Follows, pos <= Len(nodes), pc \in {"node", "load", "unload"},
         NEW e \in WalkEvents, e # NoEvent, After(vehicleId, nodes, pos).event = e
  PROVE  /\ CheckEvent(vehicleId, nodes) = e
         /\ CheckStat(vehicleId, nodes) = NoStat
         /\ SolvedAfter(e, solved) = FALSE
<1>1. Walk(vehicleId, nodes).event = e
  BY TurnHere, FailureStays
<1>2. ~UnloadsBeforeLoad(nodes) /\ ~WrongVehicle(vehicleId, nodes)
  BY DEF Carried, Follows
<1>3. CheckEvent(vehicleId, nodes) = e
  BY <1>1, <1>2 DEF CheckEvent
<1>4. e # "TaskUnLoadBeforeLoad"
  BY DEF WalkEvents
<1> QED
  BY <1>3, <1>4 DEF CheckStat, SolvedAfter

LEMMA WalkFailures ==
  ASSUME NEW w, NEW v, NEW n
  PROVE  /\ LoadFailure(w, v, n) # NoEvent => LoadFailure(w, v, n) \in WalkEvents
         /\ MoveEndFailure(w) # NoEvent => MoveEndFailure(w) \in WalkEvents
         /\ UnloadFailure(w, v, n) # NoEvent => UnloadFailure(w, v, n) \in WalkEvents
  BY DEF LoadFailure, MoveEndFailure, UnloadFailure, WalkEvents

\* the step that returns, returns what the functions say
Returns == pc # "returned" /\ pc' = "returned" =>
              /\ event' = CheckEvent(vehicleId, nodes)
              /\ result' = CheckStat(vehicleId, nodes)
              /\ solved' = SolvedAfter(event', solved)

LEMMA StepReturns ==
  ASSUME TypeInv, Carried, Recorded, Follows, Next
  PROVE  Returns
<1> SUFFICES ASSUME pc # "returned", pc' = "returned"
             PROVE  /\ event' = CheckEvent(vehicleId, nodes)
                    /\ result' = CheckStat(vehicleId, nodes)
                    /\ solved' = SolvedAfter(event', solved)
  BY DEF Returns
<1>0. TypeOK /\ Placed
  BY DEF TypeInv
<1>1. CASE CheckOrder
  BY <1>1 DEF CheckOrder, Fail, CheckEvent, CheckStat, SolvedAfter, NoEvent
<1>2. CASE CheckVehicle
  <2>1. /\ WrongVehicle(vehicleId, nodes) /\ Fail("ImpossibleTaskToVenchile") /\ UNCHANGED solved
        /\ pc = "vehicle"
    BY <1>2 DEF CheckVehicle
  <2>2. ~UnloadsBeforeLoad(nodes) /\ solved = FALSE
    BY <2>1 DEF Carried, Follows
  <2> QED
    BY <2>1, <2>2 DEF Fail, CheckEvent, CheckStat, SolvedAfter, NoEvent
<1>3. CASE VisitStart
  BY <1>3 DEF VisitStart
<1>4. CASE Load
  <2>1. /\ Fail(LoadFailure(walk', vehicleId, Node)) /\ walk' = ProcessLoad(walk, Node)
        /\ LoadFailure(walk', vehicleId, Node) # NoEvent /\ pc = "load" /\ UNCHANGED solved
        /\ pos <= Len(nodes)
    BY <1>0, <1>4 DEF Load, Placed
  <2>2. After(vehicleId, nodes, pos).event = LoadFailure(walk', vehicleId, Node)
    BY <1>0, <2>1, VisitHere
  <2>3. LoadFailure(walk', vehicleId, Node) \in WalkEvents /\ solved = FALSE
    BY <2>1, WalkFailures DEF Follows
  <2> QED
    BY <1>0, <2>1, <2>2, <2>3, FailureMatches DEF Fail
<1>5. CASE VisitEnd
  <2>1. /\ Fail(MoveEndFailure(walk)) /\ MoveEndFailure(walk) # NoEvent
        /\ pc = "node" /\ UNCHANGED solved /\ pos <= Len(nodes) /\ ~IsTaskStart(Node)
    BY <1>5 DEF VisitEnd
  <2>2. Proceed(vehicleId, Before, Node).event = MoveEndFailure(walk)
    BY <2>1 DEF Follows, Proceed, Fine, Visit
  <2>3. After(vehicleId, nodes, pos).event = MoveEndFailure(walk)
    BY <1>0, <2>1, <2>2, TurnHere
  <2>4. MoveEndFailure(walk) \in WalkEvents /\ solved = FALSE
    BY <2>1, WalkFailures DEF Follows
  <2> QED
    BY <1>0, <2>1, <2>3, <2>4, FailureMatches DEF Fail
<1>6. CASE Unload
  <2>1. /\ Fail(UnloadFailure(walk, vehicleId, Node)) /\ UnloadFailure(walk, vehicleId, Node) # NoEvent
        /\ pc = "unload" /\ UNCHANGED solved /\ pos <= Len(nodes)
    BY <1>0, <1>6 DEF Unload, Placed
  <2>2. After(vehicleId, nodes, pos).event = UnloadFailure(walk, vehicleId, Node)
    BY <1>0, <2>1, VisitHere
  <2>3. UnloadFailure(walk, vehicleId, Node) \in WalkEvents /\ solved = FALSE
    BY <2>1, WalkFailures DEF Follows
  <2> QED
    BY <1>0, <2>1, <2>2, <2>3, FailureMatches DEF Fail
<1>7. CASE Finish
  <2>1. /\ pos > Len(nodes) /\ solved' = TRUE /\ result' = StatOfWalk(walk, vehicleId, nodes)
        /\ UNCHANGED event /\ pc = "node"
    BY <1>7 DEF Finish
  <2>2. /\ nodes \in Seq(Nodes) /\ vehicleId \in VehicleIds /\ pos - 1 = Len(nodes)
    BY <1>0, <2>1, NodesOfRoute DEF TypeOK
  <2>3. Walk(vehicleId, nodes) = Fine(walk)
    BY <2>1, <2>2, AfterStep DEF Follows, Before
  <2>4. ~UnloadsBeforeLoad(nodes) /\ ~WrongVehicle(vehicleId, nodes) /\ event = NoEvent
    BY <2>1 DEF Carried, Follows, Recorded
  <2>5. CheckEvent(vehicleId, nodes) = NoEvent
    BY <2>3, <2>4 DEF CheckEvent, Fine
  <2> QED
    BY <2>1, <2>3, <2>4, <2>5 DEF CheckStat, SolvedAfter, Fine, NoEvent
<1> QED
  BY <1>1, <1>2, <1>3, <1>4, <1>5, <1>6, <1>7 DEF Next

\* The walk, one member function at a time, returns the statistics, counts the
\* event and leaves the flag that the functions of RouteCheck give for the route:
\* what the rest of the model takes checkSingleRoute to be, it is.
THEOREM MatchesCorrect == Spec => MatchesCheck
<1> DEFINE Inv == LoadInv /\ ReportInv /\ Follows
<1>1. Init => Follows
  BY InitFollows
<1>2. LoadInv /\ ReportInv /\ Follows /\ [Next]_vars => Follows'
  <2>1. Follows /\ UNCHANGED vars => Follows'
    BY DEF Follows, Before, Fine, Node, vars, WrongVehicle
  <2> QED
    BY <2>1, NextFollows DEF LoadInv
<1>3. LoadInv /\ ReportInv /\ Follows /\ [Next]_vars =>
        [pc # "returned" /\ pc' = "returned" =>
           /\ event' = CheckEvent(vehicleId, nodes)
           /\ result' = CheckStat(vehicleId, nodes)
           /\ solved' = SolvedAfter(event', solved)]_vars
  BY StepReturns DEF LoadInv, ReportInv, Returns
<1> QED
  BY <1>1, <1>2, <1>3, ReportInvariant, PTL DEF Spec, MatchesCheck
=============================================================================
