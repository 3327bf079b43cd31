----------------------------- MODULE MCRouteWalk -----------------------------
(***************************************************************************)
(* Three tasks and five vehicles, chosen so that every event of the walk   *)
(* that the code can raise is raised by some route, and every limit of a   *)
(* vehicle separates some feasible routes from infeasible ones.            *)
(***************************************************************************)
EXTENDS RouteWalk

At(ts, te, dur) == [ts |-> ts, te |-> te, dur |-> dur]

MCTask == 0 :> [start |-> At(2, 20, 1), end |-> At(6, 30, 1),
                capacity |-> 2, volume |-> 1, vip |-> TRUE]
       @@ 1 :> [start |-> At(0, 9, 1), end |-> At(0, 40, 2),
                capacity |-> 1, volume |-> 2, vip |-> FALSE]
       @@ 2 :> [start |-> At(5, 35, 0), end |-> At(12, 24, 1),
                capacity |-> 1, volume |-> 1, vip |-> FALSE]

Unlimited == [capacity |-> 0, maxVolume |-> 0, tripMaxTasks |-> 0,
              tripDuration |-> 0, tripLength |-> 0,
              costOfUsing |-> 3, costPerKM |-> TRUE]

MCVehicle == 0 :> Unlimited
          @@ 1 :> [Unlimited EXCEPT !.capacity = 3, !.tripDuration = 14,
                                    !.costPerKM = FALSE]
          @@ 2 :> [Unlimited EXCEPT !.maxVolume = 3, !.tripLength = 70]
          @@ 3 :> [Unlimited EXCEPT !.tripMaxTasks = 2]
          @@ 4 :> Unlimited

\* the nodes lie on a line, and a leg takes 1.3 seconds a step
Place == [n \in Nodes |-> <<0, 3, 1, 6, 2, 5>>[n + 1]]
Steps(m, n) == IF Place[m] < Place[n] THEN Place[n] - Place[m] ELSE Place[m] - Place[n]
MCDestTime   == [m \in Nodes |-> [n \in Nodes |-> 13 * Steps(m, n)]]
MCDestMeters == [m \in Nodes |-> [n \in Nodes |-> 7 * Steps(m, n)]]

MCValid == [v \in VehicleIds |-> [t \in TaskIds |-> v # 4 \/ t # 1]]
=============================================================================
