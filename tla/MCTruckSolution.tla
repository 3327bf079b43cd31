--------------------------- MODULE MCTruckSolution ---------------------------
(***************************************************************************)
(* Up to three tasks and up to two vehicles, the second of which may only  *)
(* take the second task.  The first task is close and late, so that only   *)
(* some orders of its nodes are feasible.  Prices are counted in hundreds, *)
(* as CostUnit = 36000 / 100 says, and every cost is below MaxCost.        *)
(***************************************************************************)
EXTENDS TruckSolution

At(ts, te, dur) == [ts |-> ts, te |-> te, dur |-> dur]

MCTasks == << [start |-> At(2, 9, 1), end |-> At(3, 12, 1),
               capacity |-> 2, volume |-> 1, vip |-> TRUE],
              [start |-> At(0, 6, 1), end |-> At(2, 30, 1),
               capacity |-> 1, volume |-> 2, vip |-> FALSE],
              [start |-> At(0, 5, 1), end |-> At(2, 12, 1),
               capacity |-> 1, volume |-> 0, vip |-> FALSE] >>
MCTask == [t \in TaskIds |-> MCTasks[t + 1]]

Truck(price) == [capacity |-> 3, maxVolume |-> 0, tripMaxTasks |-> 0,
                 tripDuration |-> 20, tripLength |-> 0,
                 costOfUsing |-> price, costPerKM |-> TRUE]
MCVehicle == [v \in VehicleIds |-> Truck(IF v = 0 THEN 4 ELSE 1)]

MCDestTime   == [m \in Nodes |-> [n \in Nodes |-> IF m = n THEN 0 ELSE 12 + 5 * ((m + n) % 3)]]
MCDestMeters == [m \in Nodes |-> [n \in Nodes |-> MCDestTime[m][n] \div 4]]
MCValid == [v \in VehicleIds |-> [t \in TaskIds |-> v = 0 \/ t = 1]]
=============================================================================
