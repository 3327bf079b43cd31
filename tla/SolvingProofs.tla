----------------------------- MODULE SolvingProofs -----------------------------
(***************************************************************************)
(* Proofs about a colony of any size, with any limit of trials: the        *)
(* onlookers' seats are all given away, and fitter sources get no fewer;   *)
(* a colony that has won keeps the winner; and only an onlooker can make a *)
(* colony forget the best solution it knows.  And about the checker of any *)
(* zones, tasks and vehicles: no row of its matrix depends on the lookups  *)
(* for another, and it is right when the winding number is.  Together with *)
(* the report of ReportProofs, the types of all that solves a request.     *)
(***************************************************************************)
EXTENDS Solving, ReportProofs

-----------------------------------------------------------------------------
(* Seats and fitness                                                        *)

LEMMA Sizes ==
  /\ totalSolCount \in Nat /\ Seats = 1 .. totalSolCount /\ IsFiniteSet(Seats)
  /\ Fitness = 1 .. MaxFitness /\ MaxFitness \in Nat
  <1>1. \A m \in Nat : m \div 2 \in Nat
    OBVIOUS
  <1>2. totalSolCount \in Nat
    BY <1>1, ColonyAssumption DEF totalSolCount
  <1>. QED
    BY <1>2, ColonyAssumption, FS_Interval DEF Seats, Fitness

FitnessAt == [i \in Seats |-> solutions[i].fitness]

\* the sum that fitness is divided by is not zero
LEMMA SumPositive ==
  ASSUME solutions \in [Seats -> Solution]
  PROVE  /\ \A i \in Seats : FitnessAt[i] \in Nat /\ FitnessAt[i] > 0
         /\ FitnessSum = SumFunctionOnSet(FitnessAt, Seats) /\ FitnessSum \in Nat
         /\ totalSolCount > 0 => FitnessSum > 0
  <1>1. \A i \in Seats : FitnessAt[i] \in Nat /\ FitnessAt[i] > 0
    BY Sizes DEF FitnessAt, Solution
  <1>2. FitnessSum = SumFunctionOnSet(FitnessAt, Seats)
    BY Zenon DEF FitnessSum, FitnessAt, SumFunction
  <1>3. FitnessSum \in Nat
    BY <1>1, <1>2, Sizes, SumNat
  <1>4. ASSUME totalSolCount > 0 PROVE FitnessSum > 0
    <2>1. 1 \in Seats /\ IsFiniteSet(Seats) /\ IsFiniteSet(Seats \ {1})
      BY <1>4, Sizes, FS_Subset
    <2>2. FitnessSum = FitnessAt[1] + SumFunctionOnSet(FitnessAt, Seats \ {1})
      BY <1>1, <1>2, <2>1, SumRemove
    <2>3. SumFunctionOnSet(FitnessAt, Seats \ {1}) \in Nat
      BY <1>1, <2>1, SumNat
    <2>. QED
      BY <1>1, <2>1, <2>2, <2>3
  <1>. QED
    BY <1>1, <1>2, <1>3, <1>4

-----------------------------------------------------------------------------
(* The shares of the onlookers: truncated, and increased by one.            *)

\* nobody's share is less than its part of the whole
LEMMA ShareCovers ==
  ASSUME solutions \in [Seats -> Solution], NEW i \in Seats, NEW c \in Counts(i)
  PROVE  c \in Nat /\ FitnessAt[i] * totalSolCount <= c * FitnessSum
  <1>. DEFINE n == totalSolCount
              F == FitnessSum
              x == FitnessAt[i]
              share == x * n
  <1>1. n \in Nat /\ n > 0 /\ F \in Nat /\ F > 0 /\ x \in Nat
    BY Sizes, SumPositive
  <1>2. c \in IF share % F = 0 THEN {share \div F, share \div F + 1} ELSE {share \div F + 1}
    BY DEF Counts, FitnessAt
  <1>. HIDE DEF n, F, x
  <1>3. share \in Nat
    BY <1>1
  <1>. HIDE DEF share
  <1>4. share \div F \in Nat /\ (share % F) \in 0 .. F - 1 /\ share = F * (share \div F) + (share % F)
    BY <1>1, <1>3
  <1>5. (c = share \div F /\ (share % F) = 0) \/ c = share \div F + 1
    BY <1>2
  <1>6. c \in Nat
    BY <1>4, <1>5
  <1>7. share <= F * c
    <2>1. CASE c = share \div F /\ (share % F) = 0
      BY <1>1, <1>3, <1>4, <2>1
    <2>2. CASE c = share \div F + 1
      <3>1. F * c = F * (share \div F) + F
        BY <1>1, <1>4, <2>2
      <3>. QED
        BY <1>1, <1>4, <3>1
    <2>. QED
      BY <1>5, <2>1, <2>2
  <1>8. F * c = c * F
    BY <1>1, <1>6
  <1>. QED
    BY <1>6, <1>7, <1>8 DEF n, F, x, share

\* a fitter source has no smaller share, however the quotients are rounded
LEMMA ShareGrows ==
  ASSUME solutions \in [Seats -> Solution],
         NEW i \in Seats, NEW j \in Seats, FitnessAt[i] > FitnessAt[j],
         NEW c \in Counts(i), NEW d \in Counts(j)
  PROVE  d <= c
  <1>. DEFINE n == totalSolCount
              F == FitnessSum
              x == FitnessAt[i] * n
              y == FitnessAt[j] * n
  <1>1. n \in Nat /\ n > 0 /\ F \in Nat /\ F > 0 /\ FitnessAt[i] \in Nat /\ FitnessAt[j] \in Nat
    BY Sizes, SumPositive
  <1>2. /\ c \in IF x % F = 0 THEN {x \div F, x \div F + 1} ELSE {x \div F + 1}
        /\ d \in IF y % F = 0 THEN {y \div F, y \div F + 1} ELSE {y \div F + 1}
    BY DEF Counts, FitnessAt
  <1>3. x \in Nat /\ y \in Nat /\ x > y
    <2>. HIDE DEF n
    <2>1. \A a, b \in Nat : a > b => a * n > b * n /\ a * n \in Nat /\ b * n \in Nat
      BY <1>1
    <2>. QED
      BY <1>1, <2>1
  <1>. HIDE DEF n, F, x, y
  <1>4. /\ x \div F \in Nat /\ (x % F) \in 0 .. F - 1 /\ x = F * (x \div F) + (x % F)
        /\ y \div F \in Nat /\ (y % F) \in 0 .. F - 1 /\ y = F * (y \div F) + (y % F)
    BY <1>1, <1>3
  <1>. DEFINE a == x \div F
              b == y \div F
  <1>5. a \in Nat /\ b \in Nat
    BY <1>4
  <1>6. b <= a /\ (x % F = 0 => b < a)
    <2>. HIDE DEF a, b
    <2>1. x = F * a + (x % F) /\ y = F * b + (y % F)
      BY <1>4 DEF a, b
    <2>2. ASSUME a < b PROVE FALSE
      <3>1. F * (a + 1) <= F * b
        BY <1>1, <1>5, <2>2
      <3>2. F * (a + 1) = F * a + F
        BY <1>1, <1>5
      <3>. QED
        BY <1>1, <1>3, <1>4, <1>5, <2>1, <3>1, <3>2
    <2>3. ASSUME a = b, (x % F) = 0 PROVE FALSE
      BY <1>1, <1>3, <1>4, <1>5, <2>1, <2>3
    <2>. QED
      BY <1>5, <2>2, <2>3
  <1>7. /\ (c = a /\ (x % F) = 0) \/ c = a + 1
        /\ d = b \/ d = b + 1
    BY <1>2
  <1>. HIDE DEF a, b
  <1>. QED
    BY <1>5, <1>6, <1>7

-----------------------------------------------------------------------------
(* Who sits where.                                                          *)

Blocks(order, count) == [i \in Seats |-> [k \in 1 .. count[order[i]] |-> order[i]]]

\* the ends of the blocks: that of the i-th source in the ranking is e[i]
SeatEnds(e, order, count) ==
    /\ e \in [0 .. totalSolCount -> Nat] /\ e[0] = 0
    /\ \A i \in Seats : e[i] = e[i - 1] + count[order[i]]

\* the i-th source of the ranking has the places of its block and no other
SeatedIn(all, e, order) ==
    /\ all \in Seq(Seats) /\ Len(all) = e[totalSolCount]
    /\ \A i \in Seats : \A k \in 1 .. Len(all) : all[k] = order[i] <=> e[i - 1] < k /\ k <= e[i]

Injective(order) == order \in [Seats -> Seats] /\ \A i, j \in Seats : i # j => order[i] # order[j]

LEMMA EndsGrow ==
  ASSUME NEW order \in [Seats -> Seats], NEW count \in [Seats -> Nat],
         NEW e, SeatEnds(e, order, count)
  PROVE  \A i, j \in 0 .. totalSolCount : i <= j => e[i] <= e[j]
  <1>. DEFINE n == totalSolCount
              Grow(d) == \A i \in 0 .. n : i + d <= n => e[i] <= e[i + d]
              S == {d \in Nat : Grow(d)}
  <1>1. n \in Nat /\ Seats = 1 .. n
    BY Sizes
  <1>2. \A i \in 0 .. n : e[i] \in Nat
    BY DEF SeatEnds
  <1>. HIDE DEF n
  <1>3. 0 \in S
    BY <1>2
  <1>4. \A d \in Nat : d \in S => d + 1 \in S
    <2>. SUFFICES ASSUME NEW d \in Nat, Grow(d) PROVE Grow(d + 1)
      <3>. HIDE DEF Grow
      <3>. QED
        OBVIOUS
    <2>. SUFFICES ASSUME NEW i \in 0 .. n, i + (d + 1) <= n
                  PROVE  e[i] <= e[i + (d + 1)]
      OBVIOUS
    <2>. DEFINE k == i + (d + 1)
    <2>1. k \in 1 .. n /\ k - 1 = i + d /\ k - 1 \in 0 .. n /\ k \in 0 .. n
      BY <1>1
    <2>2. e[i] <= e[k - 1]
      BY <2>1
    <2>. HIDE DEF k
    <2>3. e[k] = e[k - 1] + count[order[k]] /\ count[order[k]] \in Nat
      BY <1>1, <2>1 DEF SeatEnds
    <2>4. e[i] <= e[k]
      BY <1>2, <2>1, <2>2, <2>3
    <2>. QED
      BY <2>4 DEF k
  <1>5. Nat \subseteq S
    <2>. HIDE DEF S
    <2>. QED
      BY <1>3, <1>4, Induction
  <1>6. ASSUME NEW i \in 0 .. n, NEW j \in 0 .. n, i <= j PROVE e[i] <= e[j]
    <2>1. j - i \in Nat /\ i + (j - i) = j
      BY <1>1, <1>6
    <2>2. j - i \in S
      BY <1>5, <2>1
    <2>. QED
      BY <2>1, <2>2
  <1>. QED
    BY <1>6 DEF n

LEMMA SeatingIs ==
  ASSUME NEW order, Injective(order), NEW count \in [Seats -> Nat], totalSolCount > 0
  PROVE  \E e : SeatEnds(e, order, count) /\ SeatedIn(FlattenSeq(Blocks(order, count)), e, order)
  <1>. DEFINE n == totalSolCount
              blocks == Blocks(order, count)
              all == FlattenSeq(blocks)
  <1>1. n \in Nat /\ n > 0 /\ Seats = 1 .. n /\ n \in Seats /\ 1 \in Seats
    BY Sizes
  <1>2. /\ \A i \in Seats : order[i] \in Seats /\ count[order[i]] \in Nat
        /\ \A i, j \in Seats : i # j => order[i] # order[j]
    BY DEF Injective
  <1>3. /\ \A i \in Seats : /\ blocks[i] \in Seq(Seats) /\ Len(blocks[i]) = count[order[i]]
                            /\ \A k \in 1 .. count[order[i]] : blocks[i][k] = order[i]
        /\ blocks \in Seq(Seq(Seats)) /\ Len(blocks) = n /\ blocks # << >>
    <2>1. \A i \in Seats : blocks[i] = [k \in 1 .. count[order[i]] |-> order[i]]
      BY DEF Blocks
    <2>0. \A c \in Nat, x \in Seats : LET b == [k \in 1 .. c |-> x]
                                      IN  b \in Seq(Seats) /\ Len(b) = c /\ \A k \in 1 .. c : b[k] = x
      OBVIOUS
    <2>2. \A i \in Seats : /\ blocks[i] \in Seq(Seats) /\ Len(blocks[i]) = count[order[i]]
                           /\ \A k \in 1 .. count[order[i]] : blocks[i][k] = order[i]
      <3>. SUFFICES ASSUME NEW i \in Seats
                    PROVE  /\ blocks[i] \in Seq(Seats) /\ Len(blocks[i]) = count[order[i]]
                           /\ \A k \in 1 .. count[order[i]] : blocks[i][k] = order[i]
        OBVIOUS
      <3>. DEFINE c == count[order[i]]
                  x == order[i]
                  b == [k \in 1 .. c |-> x]
      <3>1. c \in Nat /\ x \in Seats
        BY <1>2
      <3>2. blocks[i] = b
        BY <2>1
      <3>. HIDE DEF c, x
      <3>3. b \in Seq(Seats) /\ Len(b) = c /\ \A k \in 1 .. c : b[k] = x
        BY <2>0, <3>1
      <3>. QED
        BY <3>2, <3>3 DEF c, x
    <2>3. blocks \in [1 .. n -> Seq(Seats)]
      BY <1>1, <2>2 DEF Blocks
    <2>4. blocks \in Seq(Seq(Seats)) /\ Len(blocks) = n
      BY <1>1, <2>3
    <2>. QED
      BY <1>1, <2>2, <2>4
  <1>. HIDE DEF blocks, n
  <1>4. PICK f \in [1 .. Len(blocks) -> Seq(Seats)] :
            /\ f[1] = blocks[1]
            /\ \A i \in 1 .. Len(blocks) - 1 : f[i + 1] = f[i] \o blocks[i + 1]
            /\ all = f[Len(blocks)]
    <2>1. blocks \in Seq(Seq(Seats)) /\ blocks # << >>
      BY <1>3
    <2>. QED
      BY <2>1, FlattenIs, Zenon
  <1>5. /\ f \in [1 .. n -> Seq(Seats)] /\ f[1] = blocks[1] /\ all = f[n]
        /\ \A i \in 1 .. n - 1 : f[i + 1] = f[i] \o blocks[i + 1]
    BY <1>3, <1>4
  <1>. HIDE DEF all
  <1>. DEFINE e == [i \in 0 .. n |-> IF i = 0 THEN 0 ELSE Len(f[i])]
  <1>6. /\ e \in [0 .. n -> Nat] /\ e[0] = 0
        /\ \A i \in Seats : e[i] = Len(f[i]) /\ f[i] \in Seq(Seats) /\ e[i] \in Nat /\ i - 1 \in 0 .. n
    BY <1>1, <1>5
  <1>. HIDE DEF e
  <1>7. SeatEnds(e, order, count)
    <2>. SUFFICES ASSUME NEW i \in Seats PROVE e[i] = e[i - 1] + count[order[i]]
      BY <1>6 DEF SeatEnds, n
    <2>1. CASE i = 1
      BY <1>1, <1>2, <1>3, <1>5, <1>6, <2>1
    <2>2. CASE i # 1
      <3>. DEFINE j == i - 1
      <3>1. j \in 1 .. n - 1 /\ j \in Seats /\ j + 1 = i
        BY <1>1, <2>2
      <3>. HIDE DEF j
      <3>2. f[i] = f[j] \o blocks[i]
        BY <1>5, <3>1
      <3>3. Len(f[i]) = Len(f[j]) + Len(blocks[i])
        BY <1>3, <1>6, <3>1, <3>2
      <3>4. e[i] = e[j] + count[order[i]]
        BY <1>3, <1>6, <3>1, <3>3
      <3>. QED
        BY <3>4 DEF j
    <2>. QED
      BY <2>1, <2>2
  <1>8. \A i, j \in 0 .. n : i <= j => e[i] <= e[j]
    <2>1. order \in [Seats -> Seats]
      BY DEF Injective
    <2>. QED
      BY <1>7, <2>1, EndsGrow DEF n
  \* the places of the first i blocks
  <1>. DEFINE In(i, k) == e[i - 1] < k /\ k <= e[i]
              Placed(i) == \A k \in 1 .. e[i] : /\ \E j \in 1 .. i : f[i][k] = order[j]
                                                /\ \A j \in 1 .. i : f[i][k] = order[j] <=> In(j, k)
              S == {i \in Nat : i + 1 <= n => Placed(i + 1)}
  <1>9. 0 \in S
    <2>1. e[1] = count[order[1]] /\ e[1 - 1] = 0
      BY <1>1, <1>2, <1>3, <1>5, <1>6
    <2>2. \A k \in 1 .. e[1] : f[1][k] = order[1] /\ In(1, k)
      BY <1>1, <1>2, <1>3, <1>5, <2>1
    <2>3. Placed(1)
      BY <2>2
    <2>. QED
      BY <2>3
  <1>10. \A i \in Nat : i \in S => i + 1 \in S
    <2>. HIDE DEF Placed
    <2>. SUFFICES ASSUME NEW h \in Nat, h \in S, (h + 1) + 1 <= n
                  PROVE  Placed((h + 1) + 1)
      OBVIOUS
    <2>. DEFINE i == h + 1
                m == i + 1
    <2>1. /\ i \in 1 .. n - 1 /\ i \in Seats /\ m \in Seats /\ i = m - 1 /\ m \in Nat
          /\ \A j \in 1 .. m : j \in Seats /\ (j \in 1 .. i \/ j = m)
          /\ \A j \in 1 .. i : j # m /\ j \in Seats /\ j \in 1 .. m
      BY <1>1
    <2>2. Placed(i)
      BY <1>1
    <2>. HIDE DEF i, m
    <2>3. f[m] = f[i] \o blocks[m] /\ e[m] = e[i] + count[order[m]] /\ e[i] = Len(f[i])
      <3>1. i + 1 = m
        BY DEF m
      <3>2. e[m] = e[m - 1] + count[order[m]]
        BY <1>7, <2>1 DEF SeatEnds
      <3>. QED
        BY <1>5, <1>6, <2>1, <3>1, <3>2
    <2>. SUFFICES ASSUME NEW k \in 1 .. e[m]
                  PROVE  /\ \E j \in 1 .. m : f[m][k] = order[j]
                         /\ \A j \in 1 .. m : f[m][k] = order[j] <=> In(j, k)
      BY DEF Placed, i, m
    <2>4. /\ e[i] \in Nat /\ e[m] \in Nat /\ count[order[m]] \in Nat
          /\ f[i] \in Seq(Seats) /\ blocks[m] \in Seq(Seats) /\ Len(blocks[m]) = count[order[m]]
      BY <1>2, <1>3, <1>6, <2>1
    <2>. DEFINE a == f[i]
                b == blocks[m]
    <2>7. a \in Seq(Seats) /\ b \in Seq(Seats) /\ f[m] = a \o b /\ Len(a) = e[i] /\ Len(b) = count[order[m]]
      BY <2>3, <2>4
    <2>. HIDE DEF a, b
    <2>8. /\ \A l \in 1 .. e[i] : f[m][l] = a[l]
          /\ \A l \in 1 .. count[order[m]] : f[m][e[i] + l] = b[l]
      <3>1. a \in Seq(Seats) /\ b \in Seq(Seats)
        BY <2>7
      <3>2. ASSUME NEW l \in 1 .. Len(a) PROVE (a \o b)[l] = a[l]
        BY <3>1
      <3>3. ASSUME NEW l \in 1 .. Len(b) PROVE (a \o b)[Len(a) + l] = b[l]
        BY <3>1
      <3>. QED
        BY <2>7, <3>2, <3>3
    <2>5. CASE k <= e[i]
      <3>1. k \in 1 .. e[i] /\ f[m][k] = f[i][k]
        <4>1. k \in 1 .. e[i]
          BY <2>4, <2>5
        <4>2. f[m][k] = a[k]
          BY <2>8, <4>1
        <4>. QED
          BY <4>1, <4>2 DEF a
      <3>2. /\ \E j \in 1 .. i : f[m][k] = order[j]
            /\ \A j \in 1 .. i : f[m][k] = order[j] <=> In(j, k)
        BY <2>2, <3>1 DEF Placed
      <3>3. f[m][k] # order[m]
        BY <1>2, <2>1, <3>2
      <3>4. ~In(m, k)
        BY <2>1, <2>4, <2>5
      <3>. HIDE DEF In
      <3>. QED
        BY <2>1, <3>2, <3>3, <3>4
    <2>6. CASE k > e[i]
      <3>0. k - e[i] \in 1 .. count[order[m]] /\ e[i] + (k - e[i]) = k
        BY <2>3, <2>4, <2>6
      <3>1. k - e[i] \in 1 .. count[order[m]] /\ f[m][k] = blocks[m][k - e[i]]
        BY <2>8, <3>0 DEF b
      <3>2. f[m][k] = order[m]
        BY <1>3, <2>1, <3>1
      <3>3. In(m, k)
        BY <2>1, <2>6
      <3>4. \A j \in 1 .. i : ~In(j, k)
        <4>. SUFFICES ASSUME NEW j \in 1 .. i PROVE ~(k <= e[j])
          OBVIOUS
        <4>0. j \in 0 .. n /\ i \in 0 .. n /\ j <= i /\ j \in Seats
          BY <1>1, <2>1
        <4>1. e[j] <= e[i] /\ e[j] \in Nat
          BY <1>6, <1>8, <4>0
        <4>. QED
          BY <2>4, <2>6, <4>1
      <3>. HIDE DEF In
      <3>. QED
        BY <1>2, <2>1, <3>2, <3>3, <3>4
    <2>. QED
      BY <2>4, <2>5, <2>6
  <1>11. Nat \subseteq S
    <2>. HIDE DEF S
    <2>. QED
      BY <1>9, <1>10, Induction
  <1>12. Placed(n)
    <2>. HIDE DEF Placed
    <2>1. n - 1 \in Nat /\ (n - 1) + 1 = n
      BY <1>1
    <2>2. n - 1 \in S
      BY <1>11, <2>1
    <2>. QED
      BY <1>1, <2>1, <2>2
  <1>13. SeatedIn(all, e, order)
    <2>1. all \in Seq(Seats) /\ Len(all) = e[n]
      BY <1>1, <1>5, <1>6
    <2>. QED
      BY <1>1, <1>5, <1>12, <2>1 DEF SeatedIn, n
  <1>. QED
    BY <1>7, <1>13 DEF all, blocks

\* every source is in the ranking
LEMMA RankedOnto ==
  ASSUME NEW order, Injective(order)
  PROVE  {order[i] : i \in Seats} = Seats
  <1>. SUFFICES ASSUME NEW x \in Seats, \A i \in Seats : order[i] # x PROVE FALSE
    BY DEF Injective
  <1>. DEFINE T == Seats \ {x}
  <1>1. IsFiniteSet(Seats) /\ IsFiniteSet(T) /\ Cardinality(Seats) \in Nat
    BY Sizes, FS_Subset, FS_CardinalityType
  <1>2. Cardinality(T) = Cardinality(Seats) - 1
    BY <1>1, FS_RemoveElement
  <1>3. Cardinality(T) < Cardinality(Seats)
    BY <1>1, <1>2
  <1>4. order \in [Seats -> T]
    BY DEF Injective
  <1>. HIDE DEF T
  <1>5. \E a, b \in Seats : a # b /\ order[a] = order[b]
    BY <1>1, <1>3, <1>4, FS_PigeonHole
  <1>. QED
    BY <1>5 DEF Injective

Differences(f, g, n) == (\A i \in 0 .. n : g[i] \in Int) /\ \A i \in 1 .. n : f[i] = g[i] - g[i - 1]

LEMMA DifferencesAdd ==
  ASSUME NEW n \in Nat, NEW f, NEW g, Differences(f, g, n)
  PROVE  SumFunctionOnSet(f, 1 .. n) = g[n] - g[0]
  BY Telescope DEF Differences

\* the shares fill all seats
LEMMA SharesFill ==
  ASSUME solutions \in [Seats -> Solution], totalSolCount > 0,
         NEW order, Injective(order),
         NEW count \in [Seats -> Nat], \A i \in Seats : count[i] \in Counts(i),
         NEW e, SeatEnds(e, order, count)
  PROVE  e[totalSolCount] >= totalSolCount
  <1>. DEFINE n == totalSolCount
              F == FitnessSum
              g == [i \in Seats |-> count[order[i]]]
              h == [i \in Seats |-> FitnessAt[order[i]]]
              gF == [i \in Seats |-> g[i] * F]
              hn == [i \in Seats |-> h[i] * n]
  <1>1. n \in Nat /\ n > 0 /\ Seats = 1 .. n /\ F \in Nat /\ F > 0
    BY Sizes, SumPositive
  <1>2. \A i \in Seats : order[i] \in Seats
    BY DEF Injective
  <1>3. \A i \in Seats : /\ g[i] = count[order[i]] /\ g[i] \in Nat
                         /\ h[i] = FitnessAt[order[i]] /\ h[i] \in Nat
    BY <1>2, SumPositive
  <1>. HIDE DEF g, h
  <1>4. \A i \in Seats : gF[i] = g[i] * F /\ hn[i] = h[i] * n
    OBVIOUS
  <1>5. ASSUME NEW i \in Seats PROVE hn[i] \in Int /\ gF[i] \in Int /\ hn[i] <= gF[i]
    <2>1. count[order[i]] \in Counts(order[i])
      BY <1>2
    <2>2. h[i] * n <= g[i] * F
      BY <1>2, <1>3, <2>1, ShareCovers
    <2>3. h[i] * n \in Int /\ g[i] * F \in Int
      BY <1>1, <1>3
    <2>. QED
      BY <1>4, <2>2, <2>3
  <1>. HIDE DEF gF, hn
  <1>0. /\ \A i \in 0 .. n : e[i] \in Nat
        /\ e[0] = 0 /\ \A i \in Seats : e[i] = e[i - 1] + count[order[i]]
    BY DEF SeatEnds
  <1>. HIDE DEF n
  <1>6. SumFunctionOnSet(g, 1 .. n) = e[n]
    <2>1. \A i \in 0 .. n : e[i] \in Int
      BY <1>0
    <2>2. \A i \in 1 .. n : g[i] = e[i] - e[i - 1]
      <3>. SUFFICES ASSUME NEW i \in 1 .. n PROVE g[i] = e[i] - e[i - 1]
        OBVIOUS
      <3>1. i \in Seats /\ i \in 0 .. n /\ i - 1 \in 0 .. n
        BY <1>1
      <3>2. e[i] = e[i - 1] + g[i]
        BY <1>0, <1>3, <3>1
      <3>. QED
        BY <1>3, <2>1, <3>1, <3>2
    <2>5. n \in Nat /\ Differences(g, e, n)
      BY <1>1, <2>1, <2>2 DEF Differences
    <2>3. SumFunctionOnSet(g, 1 .. n) = e[n] - e[0]
      BY <2>5, DifferencesAdd, Zenon
    <2>4. e[0] = 0 /\ e[n] \in Nat
      BY <1>0, <1>1
    <2>. QED
      BY <2>3, <2>4
  <1>7. SumFunctionOnSet(h, 1 .. n) = F
    <2>1. \A i, j \in 1 .. n : i # j => order[i] # order[j]
      BY <1>1 DEF Injective
    <2>2. \A i \in 1 .. n : FitnessAt[order[i]] \in Int /\ h[i] = FitnessAt[order[i]]
      BY <1>1, <1>3
    <2>4. n \in Nat /\ Reorders(h, FitnessAt, order, n)
      BY <1>1, <2>1, <2>2 DEF Reorders
    <2>3. SumFunctionOnSet(h, 1 .. n) = SumFunctionOnSet(FitnessAt, ValuesOf(order, n))
      BY <2>4, SumReordered, Zenon
    <2>5. ValuesOf(order, n) = Seats
      BY <1>1, RankedOnto DEF ValuesOf
    <2>. QED
      BY <1>1, <2>3, <2>5, SumPositive DEF F
  <1>. HIDE DEF F
  <1>8. SumFunctionOnSet(gF, 1 .. n) = e[n] * F
    <2>1. \A i \in 1 .. n : g[i] \in Int /\ gF[i] = g[i] * F
      BY <1>1, <1>3, <1>4
    <2>2. SumFunctionOnSet(gF, 1 .. n) = SumFunctionOnSet(g, 1 .. n) * F
      BY <1>1, <2>1, SumScaled
    <2>. QED
      BY <1>6, <2>2
  <1>9. SumFunctionOnSet(hn, 1 .. n) = F * n
    <2>1. \A i \in 1 .. n : h[i] \in Int /\ hn[i] = h[i] * n
      BY <1>1, <1>3, <1>4
    <2>2. SumFunctionOnSet(hn, 1 .. n) = SumFunctionOnSet(h, 1 .. n) * n
      BY <1>1, <2>1, SumScaled
    <2>. QED
      BY <1>7, <2>2
  <1>10. F * n <= e[n] * F
    <2>1. IsFiniteSet(1 .. n)
      BY <1>1, Sizes
    <2>2. SumFunctionOnSet(hn, 1 .. n) <= SumFunctionOnSet(gF, 1 .. n)
      BY <1>1, <1>5, <2>1, SumMonotone
    <2>. QED
      BY <1>8, <1>9, <2>2
  <1>11. e[n] \in Nat
    BY <1>1 DEF SeatEnds, n
  <1>12. n <= e[n]
    <2>. DEFINE x == e[n]
    <2>1. x \in Nat /\ F * n <= x * F
      BY <1>10, <1>11
    <2>. HIDE DEF x
    <2>2. x * F = F * x
      BY <1>1, <2>1
    <2>3. ASSUME x < n PROVE FALSE
      <3>1. F * (x + 1) <= F * n /\ F * (x + 1) = F * x + F /\ F * x \in Nat
        BY <1>1, <2>1, <2>3
      <3>. QED
        BY <1>1, <2>1, <2>2, <3>1
    <2>. QED
      BY <1>1, <2>1, <2>3 DEF x
  <1>. QED
    BY <1>1, <1>11, <1>12 DEF n

\* the seats of x
Places(q, x) == {k \in DOMAIN q : q[k] = x}

\* they are those of the block from lo to hi that are among the first n, where
\* there are c in the block
CutShare(places, lo, hi, c, n) ==
    /\ Cardinality(places) \in Nat /\ Cardinality(places) <= c
    /\ hi <= n => Cardinality(places) = c
    /\ n <= lo => Cardinality(places) = 0

LEMMA CutBlock ==
  ASSUME NEW n \in Nat, NEW lo \in Nat, NEW hi \in Nat, NEW c \in Nat, hi = lo + c,
         NEW places, places \subseteq 1 .. n, \A k \in 1 .. n : k \in places <=> lo < k /\ k <= hi
  PROVE  CutShare(places, lo, hi, c, n)
  <1>. DEFINE block == lo + 1 .. hi
  <1>1. places \subseteq block
    OBVIOUS
  <1>2. IsFiniteSet(block) /\ Cardinality(block) = c
    <2>1. IF lo + 1 > hi THEN Cardinality(block) = 0 ELSE Cardinality(block) = hi - (lo + 1) + 1
      BY FS_Interval
    <2>2. IsFiniteSet(block)
      BY FS_Interval
    <2>. HIDE DEF block
    <2>. QED
      BY <2>1, <2>2
  <1>. HIDE DEF block
  <1>3. IsFiniteSet(places) /\ Cardinality(places) \in Nat /\ Cardinality(places) <= c
    BY <1>1, <1>2, FS_Subset, FS_CardinalityType
  <1>4. ASSUME hi <= n PROVE Cardinality(places) = c
    <2>0. ASSUME NEW k \in block PROVE k \in places
      <3>1. k \in 1 .. n /\ lo < k /\ k <= hi
        BY <1>4 DEF block
      <3>. QED
        BY <3>1
    <2>1. places = block
      BY <1>1, <2>0
    <2>. QED
      BY <1>2, <2>1
  <1>5. ASSUME n <= lo PROVE Cardinality(places) = 0
    <2>1. places = {}
      BY <1>5
    <2>. QED
      BY <2>1, FS_EmptySet
  <1>. QED
    BY <1>3, <1>4, <1>5 DEF CutShare

\* the seats of a source lie in its block
LEMMA SeatsOf ==
  ASSUME NEW order, Injective(order), NEW count \in [Seats -> Nat],
         NEW e, SeatEnds(e, order, count), NEW all, SeatedIn(all, e, order),
         e[totalSolCount] >= totalSolCount, NEW a \in Seats
  PROVE  CutShare(Places(SubSeq(all, 1, totalSolCount), order[a]), e[a - 1], e[a], count[order[a]],
               totalSolCount)
  <1>. DEFINE n == totalSolCount
              q == SubSeq(all, 1, n)
  <1>1. n \in Nat /\ Seats = 1 .. n /\ a \in 0 .. n /\ a - 1 \in 0 .. n /\ n \in 0 .. n
    BY Sizes
  <1>2. /\ e[a] \in Nat /\ e[a - 1] \in Nat /\ e[n] \in Nat /\ e[n] >= n
        /\ e[a] = e[a - 1] + count[order[a]] /\ count[order[a]] \in Nat
    BY <1>1 DEF SeatEnds, Injective
  <1>3. /\ all \in Seq(Seats) /\ Len(all) = e[n]
        /\ \A k \in 1 .. Len(all) : all[k] = order[a] <=> e[a - 1] < k /\ k <= e[a]
    BY DEF SeatedIn
  <1>. HIDE DEF n
  <1>4. \A k \in 1 .. n : k \in 1 .. Len(all)
    BY <1>1, <1>2, <1>3
  <1>5. q \in Seq(Seats) /\ Len(q) = n /\ DOMAIN q = 1 .. n
    <2>1. \A m \in 0 .. Len(all) : SubSeq(all, 1, m) \in Seq(Seats) /\ Len(SubSeq(all, 1, m)) = m
      BY <1>3
    <2>2. n \in 0 .. Len(all)
      BY <1>1, <1>2, <1>3
    <2>3. q \in Seq(Seats) /\ Len(q) = n
      BY <2>1, <2>2
    <2>. HIDE DEF q
    <2>. QED
      BY <2>3
  <1>6. \A k \in 1 .. n : q[k] = all[k]
    BY <1>1, <1>2, <1>3
  <1>. HIDE DEF q
  <1>. DEFINE places == Places(q, order[a])
  <1>7. places \subseteq 1 .. n /\ \A k \in 1 .. n : k \in places <=> e[a - 1] < k /\ k <= e[a]
    BY <1>3, <1>4, <1>5, <1>6 DEF Places
  <1>8. \A lo, hi, c \in Nat : hi = lo + c /\ (\A k \in 1 .. n : k \in places <=> lo < k /\ k <= hi)
                             => CutShare(places, lo, hi, c, n)
    <2>. HIDE DEF places
    <2>. QED
      BY <1>1, <1>7, CutBlock
  <1>9. CutShare(places, e[a - 1], e[a], count[order[a]], n)
    <2>. HIDE DEF places
    <2>. QED
      BY <1>2, <1>7, <1>8
  <1>. QED
    BY <1>9 DEF n, q

\* a ranking seats as many onlookers as there are sources, and of two sources
\* the fitter one gets no fewer
LEMMA RankSeats ==
  ASSUME solutions \in [Seats -> Solution],
         NEW order \in Rankings, NEW count \in [Seats -> Nat], \A i \in Seats : count[i] \in Counts(i),
         NEW q, q = Seating(order, count)
  PROVE  /\ q \in Seq(Seats) /\ Len(q) = totalSolCount
         /\ \A i, j \in Seats : solutions[i].fitness > solutions[j].fitness =>
               Cardinality(Places(q, i)) >= Cardinality(Places(q, j))
  <1>. DEFINE n == totalSolCount
              all == FlattenSeq(Blocks(order, count))
  <1>1. n \in Nat /\ Seats = 1 .. n
    BY Sizes
  <1>2. q = SubSeq(all, 1, IF Len(all) < n THEN Len(all) ELSE n)
    BY DEF Seating, Blocks
  <1>3. Injective(order) /\ \A i, j \in Seats : i < j =>
              solutions[order[i]].fitness >= solutions[order[j]].fitness
    BY DEF Rankings, Injective
  <1>4. CASE n = 0
    <2>1. Blocks(order, count) = << >>
      BY <1>1, <1>4 DEF Blocks
    <2>2. all = << >>
      BY <2>1 DEF FlattenSeq
    <2>3. q = << >>
      BY <1>2, <1>4, <2>2
    <2>. QED
      BY <1>1, <1>4, <2>3
  <1>5. CASE n > 0
    <2>. HIDE DEF n
    <2>1. PICK e : SeatEnds(e, order, count) /\ SeatedIn(all, e, order)
      BY <1>3, <1>5, SeatingIs DEF n
    <2>2. e[n] >= n
      BY <1>3, <1>5, <2>1, SharesFill DEF n
    <2>. HIDE DEF all
    <2>3. all \in Seq(Seats) /\ Len(all) = e[n] /\ e[n] \in Nat
      BY <1>1, <2>1 DEF SeatedIn, SeatEnds, n
    <2>4. q = SubSeq(all, 1, n)
      BY <1>1, <1>2, <2>2, <2>3
    <2>5. q \in Seq(Seats) /\ Len(q) = n
      BY <1>1, <2>2, <2>3, <2>4
    <2>6. ASSUME NEW i \in Seats, NEW j \in Seats, solutions[i].fitness > solutions[j].fitness
          PROVE  Cardinality(Places(q, i)) >= Cardinality(Places(q, j))
      <3>1. PICK a \in Seats : order[a] = i
        BY <1>3, RankedOnto
      <3>2. PICK b \in Seats : order[b] = j
        BY <1>3, RankedOnto
      <3>3. solutions[i].fitness \in Nat /\ solutions[j].fitness \in Nat
        BY Sizes DEF Solution
      <3>4. a < b
        <4>1. a # b
          BY <2>6, <3>1, <3>2, <3>3
        <4>2. ~(b < a)
          BY <1>3, <2>6, <3>1, <3>2, <3>3
        <4>. QED
          BY <1>1, <4>1, <4>2
      <3>5. /\ a \in 0 .. n /\ b - 1 \in 0 .. n /\ a <= b - 1
        BY <1>1, <3>4
      <3>6. e[a] <= e[b - 1] /\ e[a] \in Nat /\ e[b - 1] \in Nat
        BY <1>3, <2>1, <3>5, EndsGrow DEF Injective, SeatEnds, n
      <3>7. CutShare(Places(q, i), e[a - 1], e[a], count[i], n)
        <4>1. CutShare(Places(q, order[a]), e[a - 1], e[a], count[order[a]], n)
          BY <1>3, <2>1, <2>2, <2>4, SeatsOf, Zenon DEF n
        <4>. QED
          BY <3>1, <4>1
      <3>8. CutShare(Places(q, j), e[b - 1], e[b], count[j], n)
        <4>1. CutShare(Places(q, order[b]), e[b - 1], e[b], count[order[b]], n)
          BY <1>3, <2>1, <2>2, <2>4, SeatsOf, Zenon DEF n
        <4>. QED
          BY <3>2, <4>1
      <3>9. count[j] <= count[i] /\ count[i] \in Nat /\ count[j] \in Nat
        <4>1. FitnessAt[i] > FitnessAt[j]
          BY <2>6 DEF FitnessAt
        <4>. QED
          BY <4>1, ShareGrows
      <3>. QED
        <4>. DEFINE x == Cardinality(Places(q, i))
                    y == Cardinality(Places(q, j))
        <4>1. x \in Nat /\ x <= count[i] /\ (e[a] <= n => x = count[i])
          BY <3>7 DEF CutShare
        <4>2. y \in Nat /\ y <= count[j] /\ (n <= e[b - 1] => y = 0)
          BY <3>8 DEF CutShare
        <4>. HIDE DEF x, y
        <4>3. x >= y
          BY <1>1, <3>6, <3>9, <4>1, <4>2
        <4>. QED
          BY <4>3 DEF x, y
    <2>. QED
      BY <2>5, <2>6 DEF n
  <1>. QED
    BY <1>1, <1>4, <1>5

-----------------------------------------------------------------------------
(* Types                                                                    *)

\* what a bee may make of a source
LEMMA SourceTypes ==
  /\ \A f \in Fitness : New(f) \in Solution /\ New(f).fitness = f
  /\ \A sol \in Solution : /\ Tried(sol) \in Solution /\ Tried(sol).fitness = sol.fitness
                           /\ sol.fitness \in Fitness
                           /\ sol.trial < TrialCountMax => Tried(sol).trial <= TrialCountMax
  /\ Populations \subseteq [Seats -> Solution]
  <1>1. Trials = 0 .. TrialCountMax + 1 /\ TrialCountMax \in Nat
    BY ColonyAssumption DEF Trials
  <1>2. \A f \in Fitness : New(f) \in Solution /\ New(f).fitness = f
    BY <1>1 DEF New, Solution
  <1>3. \A sol \in Solution : /\ Tried(sol) \in Solution /\ Tried(sol).fitness = sol.fitness
                              /\ sol.fitness \in Fitness
                              /\ sol.trial < TrialCountMax => Tried(sol).trial <= TrialCountMax
    BY <1>1 DEF Tried, Solution
  <1>4. Populations \subseteq [Seats -> Solution]
    BY <1>2 DEF Populations
  <1>. QED
    BY <1>2, <1>3, <1>4

\* the best of what is known is known, and nothing known is better
LEMMA BestKnown ==
  ASSUME ColonyTypeOK
  PROVE  /\ Known \subseteq Fitness
         /\ Max(Known) \in Known /\ \A f \in Known : f <= Max(Known)
  <1>1. Known \subseteq Fitness /\ Known # {}
    BY DEF Known, ColonyTypeOK, Solution
  <1>2. Known \in SUBSET (1 .. MaxFitness) /\ MaxFitness \in Nat
    BY <1>1, Sizes
  <1>. QED
    <2>1. Max(Known) \in Known /\ \A f \in Known : f <= Max(Known)
      <3>. HIDE DEF Known
      <3>. QED
        BY <1>1, <1>2, MaxPicks
    <2>. QED
      BY <1>1, <2>1

LEMMA InitTypes == ColonyInit => ColonyTypeOK
  <1>. SUFFICES ASSUME ColonyInit PROVE ColonyTypeOK
    OBVIOUS
  <1>1. solutions \in [Seats -> Solution]
    BY SourceTypes DEF ColonyInit
  <1>2. << >> \in Seq(Seats) /\ Len(<< >>) <= totalSolCount /\ 1 \in 1 .. totalSolCount + 1
    BY Sizes
  <1>. QED
    BY <1>1, <1>2 DEF ColonyInit, ColonyTypeOK

\* one step of the colony keeps the types
LEMMA NextTypes == ColonyTypeOK /\ [ColonyNext]_colonyVars => ColonyTypeOK'
  <1>. SUFFICES ASSUME ColonyTypeOK, [ColonyNext]_colonyVars PROVE ColonyTypeOK'
    OBVIOUS
  <1>0. totalSolCount \in Nat /\ Seats = 1 .. totalSolCount
    BY Sizes
  <1>1. CASE Employ
    <2>1. bee \in Seats /\ bee + 1 \in 1 .. totalSolCount + 1
      BY <1>0, <1>1 DEF Employ, ColonyTypeOK
    <2>2. PICK f \in Fitness : solutions' = [solutions EXCEPT ![bee] = IF f > @.fitness THEN New(f) ELSE Tried(@)]
      BY <1>1 DEF Employ
    <2>3. solutions[bee] \in Solution /\ New(f) \in Solution /\ Tried(solutions[bee]) \in Solution
      BY <2>1, SourceTypes DEF ColonyTypeOK
    <2>4. solutions' \in [Seats -> Solution]
      BY <2>1, <2>2, <2>3 DEF ColonyTypeOK
    <2>. QED
      BY <1>1, <2>1, <2>4 DEF Employ, ColonyTypeOK
  <1>2. CASE Rank
    <2>1. PICK order \in Rankings, count \in [Seats -> 0 .. totalSolCount + 1] :
             (\A i \in Seats : count[i] \in Counts(i)) /\ seekers' = Seating(order, count)
      BY <1>2 DEF Rank
    <2>2. count \in [Seats -> Nat]
      BY <1>0, <2>1
    <2>3. seekers' \in Seq(Seats) /\ Len(seekers') = totalSolCount
      BY <2>1, <2>2, RankSeats DEF ColonyTypeOK
    <2>. QED
      BY <1>0, <1>2, <2>3 DEF Rank, ColonyTypeOK
  <1>3. CASE Onlook
    <2>1. bee \in Seats /\ bee + 1 \in 1 .. totalSolCount + 1 /\ seekers[bee] \in Seats
      BY <1>0, <1>3 DEF Onlook, ColonyTypeOK
    <2>2. solutions[seekers[bee]] \in Solution /\ Tried(solutions[seekers[bee]]) \in Solution
      BY <2>1, SourceTypes DEF ColonyTypeOK
    <2>3. \A f \in Fitness : New(f) \in Solution
      BY SourceTypes
    <2>4. solutions' \in [Seats -> Solution]
      BY <1>3, <2>1, <2>2, <2>3 DEF Onlook, ColonyTypeOK
    <2>. QED
      BY <1>3, <2>1, <2>4 DEF Onlook, ColonyTypeOK
  <1>4. CASE Record
    <2>1. bestSolution' = Max(Known) /\ Max(Known) \in Fitness
      BY <1>4, BestKnown DEF Record, Known
    <2>. QED
      BY <1>0, <1>4, <2>1 DEF Record, ColonyTypeOK
  <1>5. CASE Win
    BY <1>0, <1>5 DEF Win, ColonyTypeOK
  <1>6. CASE Lose
    <2>1. solutions' \in [Seats -> Solution] /\ 1 \in 1 .. totalSolCount + 1
      BY <1>0, <1>6, SourceTypes DEF Lose
    <2>2. syncBest' \in Fitness
      BY <1>6 DEF Lose, Others
    <2>. QED
      BY <1>6, <2>1, <2>2 DEF Lose, ColonyTypeOK
  <1>7. CASE Again
    BY <1>0, <1>7 DEF Again, ColonyTypeOK
  <1>8. CASE Stop
    BY <1>8 DEF Stop, ColonyTypeOK
  <1>9. CASE Stopped \/ UNCHANGED colonyVars
    BY <1>9 DEF Stopped, colonyVars, ColonyTypeOK
  <1>. QED
    BY <1>1, <1>2, <1>3, <1>4, <1>5, <1>6, <1>7, <1>8, <1>9 DEF ColonyNext

\* every local of the loop keeps its type, in a colony of any size: no bee looks
\* outside of the sources, and no onlooker is sent to one that does not exist
THEOREM ColonyTypeCorrect == ColonySpec => []ColonyTypeOK
  <1>1. ColonyInit => ColonyTypeOK
    BY InitTypes
  <1>2. ColonyTypeOK /\ [ColonyNext]_colonyVars => ColonyTypeOK'
    BY NextTypes
  <1>. QED
    BY <1>1, <1>2, PTL DEF ColonySpec

-----------------------------------------------------------------------------
(* Onlookers follow fitness, and the winner stays.                          *)

\* only a parallel colony publishes
OnlyParallelWins == ~parallel => ~our_is_best

\* within a cycle, the best solution of a colony that shares is no better than
\* the shared one, unless it is still the one drawn before the first cycle
BestWasShared ==
    parallel /\ ~seeded /\ phase \in {"employed", "onlooker"} => bestSolution <= syncBest

\* what was recorded is among the sources, or it was shared before
BestIsASource ==
    parallel /\ ~seeded /\ phase = "recorded" =>
        bestSolution <= syncBest \/ \E i \in Seats : solutions[i].fitness = bestSolution

\* after the recording no source is better than the best solution
NoneIsBetter == phase = "recorded" => \A i \in Seats : solutions[i].fitness <= bestSolution

\* the inductive invariant
ColonyInv ==
    /\ ColonyTypeOK
    /\ EveryOnlookerSeated
    /\ FitterGetsMore
    /\ OnlyParallelWins
    /\ BestWasShared
    /\ BestIsASource
    /\ NoneIsBetter
    /\ WinnerKeepsElite

LEMMA InvInit == ColonyInit => ColonyInv
  BY InitTypes, Zenon DEF ColonyInit, ColonyInv, EveryOnlookerSeated, FitterGetsMore, OnlyParallelWins,
     BestWasShared, BestIsASource, NoneIsBetter, WinnerKeepsElite

\* the elite: each step keeps the four facts about the best solution
Elite == OnlyParallelWins /\ BestWasShared /\ BestIsASource /\ NoneIsBetter /\ WinnerKeepsElite

LEMMA EliteKept == ColonyTypeOK /\ Elite /\ [ColonyNext]_colonyVars => Elite'
  <1>. SUFFICES ASSUME ColonyTypeOK, Elite, [ColonyNext]_colonyVars PROVE Elite'
    OBVIOUS
  <1>. USE DEF Elite, OnlyParallelWins, BestWasShared, BestIsASource, NoneIsBetter, WinnerKeepsElite
  <1>0. bee \in Int /\ bestSolution \in Nat /\ syncBest \in Nat
    BY Sizes DEF ColonyTypeOK
  <1>1. CASE Employ
    BY <1>0, <1>1 DEF Employ, ColonyTypeOK
  <1>2. CASE Rank
    BY <1>2 DEF Rank
  <1>3. CASE Onlook
    BY <1>3 DEF Onlook
  <1>4. CASE Record
    <2>1. bestSolution' = Max(Known)
      BY <1>4 DEF Record, Known
    <2>2. bestSolution' \in Known /\ \A f \in Known : f <= bestSolution'
      BY <2>1, BestKnown
    <2>3. bestSolution' = bestSolution \/ \E i \in Seats : solutions[i].fitness = bestSolution'
      BY <2>2 DEF Known
    <2>4. NoneIsBetter'
      BY <1>4, <2>2 DEF Record, Known
    <2>5. BestIsASource'
      BY <1>4, <2>3 DEF Record
    <2>. QED
      BY <1>4, <2>4, <2>5 DEF Record
  <1>5. CASE Win
    <2>1. bestSolution > syncBest
      BY <1>0, <1>5, Sizes DEF Win, Others
    <2>2. ~seeded => \E i \in Seats : solutions[i].fitness = bestSolution
      BY <1>0, <1>5, <2>1 DEF Win
    <2>. QED
      BY <1>0, <1>5, <2>2 DEF Win
  <1>6. CASE Lose
    BY <1>0, <1>6, Sizes DEF Lose, Others
  <1>7. CASE Again
    BY <1>7 DEF Again
  <1>8. CASE Stop
    BY <1>8 DEF Stop
  <1>9. CASE Stopped \/ UNCHANGED colonyVars
    BY <1>9 DEF Stopped, colonyVars
  <1>. QED
    BY <1>1, <1>2, <1>3, <1>4, <1>5, <1>6, <1>7, <1>8, <1>9 DEF ColonyNext

\* the seats: filled at the ranking, and not touched while the onlookers fly
LEMMA SeatsKept ==
  ColonyTypeOK /\ EveryOnlookerSeated /\ FitterGetsMore /\ [ColonyNext]_colonyVars
    => EveryOnlookerSeated' /\ FitterGetsMore'
  <1>. SUFFICES ASSUME ColonyTypeOK, EveryOnlookerSeated, FitterGetsMore, [ColonyNext]_colonyVars
                PROVE  EveryOnlookerSeated' /\ FitterGetsMore'
    OBVIOUS
  <1>1. CASE Rank
    <2>1. PICK order \in Rankings, count \in [Seats -> 0 .. totalSolCount + 1] :
             (\A i \in Seats : count[i] \in Counts(i)) /\ seekers' = Seating(order, count)
      BY <1>1 DEF Rank
    <2>2. count \in [Seats -> Nat]
      BY <2>1, Sizes
    <2>3. /\ Len(seekers') = totalSolCount
          /\ \A i, j \in Seats : solutions[i].fitness > solutions[j].fitness =>
               Cardinality(Places(seekers', i)) >= Cardinality(Places(seekers', j))
      BY <2>1, <2>2, RankSeats DEF ColonyTypeOK
    <2>4. solutions' = solutions
      BY <1>1 DEF Rank
    <2>5. FitterGetsMore'
      BY <2>3, <2>4, Zenon DEF FitterGetsMore, Seated, Places
    <2>. QED
      BY <2>3, <2>5 DEF EveryOnlookerSeated
  <1>2. CASE Onlook
    <2>1. phase = "onlooker" /\ seekers' = seekers /\ bee' = bee + 1 /\ bee \in Nat /\ bee > 0
      BY <1>2, Sizes DEF Onlook, ColonyTypeOK
    <2>. QED
      BY <2>1 DEF EveryOnlookerSeated, FitterGetsMore
  <1>3. CASE UNCHANGED colonyVars
    BY <1>3, Zenon DEF colonyVars, EveryOnlookerSeated, FitterGetsMore, Seated
  <1>4. ASSUME Employ \/ Record \/ Win \/ Lose \/ Again \/ Stop \/ Stopped, ~UNCHANGED colonyVars
        PROVE  phase' # "onlooker"
    BY <1>4 DEF Employ, Record, Win, Lose, Again, Stop, Stopped
  <1>. QED
    BY <1>1, <1>2, <1>3, <1>4 DEF ColonyNext, EveryOnlookerSeated, FitterGetsMore

LEMMA InvNext == ColonyInv /\ [ColonyNext]_colonyVars => ColonyInv'
  <1>. SUFFICES ASSUME ColonyInv, [ColonyNext]_colonyVars PROVE ColonyInv'
    OBVIOUS
  <1>1. ColonyTypeOK'
    BY NextTypes DEF ColonyInv
  <1>2. EveryOnlookerSeated' /\ FitterGetsMore'
    BY SeatsKept DEF ColonyInv
  <1>3. Elite'
    BY EliteKept DEF ColonyInv, Elite
  <1>. QED
    BY <1>1, <1>2, <1>3 DEF ColonyInv, Elite

\* BeesFollowFitness for a colony of any size: however the fitness quotients are
\* rounded and ties are ranked, each onlooker has a source and a fitter source
\* has no fewer of them (abc.hpp 64-85), and what a colony won with is among the
\* sources it goes on with (abc_parallel.hpp 137-160)
THEOREM BeesCorrect == ColonySpec => []BeesFollowFitness
  <1>1. ColonyInit => ColonyInv
    BY InvInit
  <1>2. ColonyInv /\ [ColonyNext]_colonyVars => ColonyInv'
    BY InvNext
  <1>3. ColonyInv => BeesFollowFitness
    BY DEF ColonyInv, BeesFollowFitness
  <1>. QED
    BY <1>1, <1>2, <1>3, PTL DEF ColonySpec

-----------------------------------------------------------------------------
(* Where the best solution can be lost.                                     *)

Lost == \E f \in Known : \A g \in Known' : g < f

LossAllowed ==
    /\ phase = "onlooker"
    /\ bee \in DOMAIN seekers
    /\ \/ seekers[bee] # bee
       \/ solutions[bee].trial >= TrialCountMax

LEMMA StepLoses == ColonyInv /\ [ColonyNext]_colonyVars /\ Lost => LossAllowed
  <1>. SUFFICES ASSUME ColonyInv, [ColonyNext]_colonyVars,
                       NEW f \in Known, \A g \in Known' : g < f
                PROVE  LossAllowed
    BY DEF Lost
  <1>0. f \in Int /\ bestSolution \in Int /\ ColonyTypeOK
    BY BestKnown, Sizes DEF ColonyInv, ColonyTypeOK
  <1>1. f \notin Known'
    BY <1>0
  <1>2. bestSolution' \in Known' /\ \A i \in Seats : solutions'[i].fitness \in Known'
    BY DEF Known
  <1>3. CASE Employ
    <2>1. bee \in Seats
      <3>1. totalSolCount \in Nat /\ Seats = 1 .. totalSolCount
        BY Sizes
      <3>2. bee \in 1 .. totalSolCount + 1 /\ bee <= totalSolCount
        BY <1>0, <1>3 DEF Employ, ColonyTypeOK
      <3>. QED
        BY <3>1, <3>2
    <2>2. PICK h \in Fitness : solutions' = [solutions EXCEPT ![bee] = IF h > @.fitness THEN New(h) ELSE Tried(@)]
      BY <1>3 DEF Employ
    <2>3. /\ solutions'[bee].fitness >= solutions[bee].fitness
          /\ solutions[bee].fitness \in Int /\ solutions'[bee].fitness \in Int
      BY <1>0, <2>1, <2>2, SourceTypes, Sizes DEF ColonyTypeOK
    <2>4. f = solutions[bee].fitness
      BY <1>1, <1>2, <1>3, <2>2 DEF Known, Employ
    <2>. QED
      BY <1>0, <1>2, <2>1, <2>3, <2>4
  <1>4. CASE Rank \/ Win \/ Again \/ Stop \/ Stopped \/ UNCHANGED colonyVars
    BY <1>1, <1>4 DEF Rank, Win, Again, Stop, Stopped, colonyVars, Known
  <1>5. CASE Record
    <2>1. bestSolution' = Max(Known)
      BY <1>5 DEF Record, Known
    <2>2. f <= bestSolution'
      BY <1>0, <2>1, BestKnown
    <2>3. bestSolution' < f /\ bestSolution' \in Int
      <3>1. bestSolution' \in 1 .. MaxFitness
        BY <1>0, <2>1, BestKnown, Sizes
      <3>. QED
        BY <1>2, <3>1
    <2>. QED
      BY <1>0, <2>2, <2>3
  <1>6. CASE Lose
    <2>1. bestSolution' = bestSolution /\ phase = "recorded"
      BY <1>6 DEF Lose
    <2>2. f <= bestSolution
      BY <1>0, <2>1 DEF ColonyInv, NoneIsBetter, Known
    <2>. QED
      BY <1>0, <1>2, <2>1, <2>2
  <1>7. CASE Onlook
    <2>1. phase = "onlooker" /\ bee \in Seats /\ bee \in DOMAIN seekers /\ bestSolution' = bestSolution
      BY <1>7, Sizes DEF Onlook, ColonyTypeOK, ColonyInv
    <2>2. CASE seekers[bee] # bee
      BY <2>1, <2>2 DEF LossAllowed
    <2>3. CASE seekers[bee] = bee /\ solutions[bee].trial >= TrialCountMax
      BY <2>1, <2>3 DEF LossAllowed
    <2>4. CASE seekers[bee] = bee /\ ~(solutions[bee].trial >= TrialCountMax)
      <3>. DEFINE old == solutions[bee]
      <3>1. /\ old \in Solution /\ Tried(old).fitness = old.fitness /\ old.fitness \in Int
            /\ Tried(old).trial <= TrialCountMax /\ Tried(old).trial \in Int /\ TrialCountMax \in Int
        <4>1. old \in Solution
          BY <1>0, <2>1 DEF ColonyTypeOK
        <4>2. old.trial < TrialCountMax /\ TrialCountMax \in Int
          BY <2>4, <4>1, ColonyAssumption DEF Solution, Trials
        <4>3. Tried(old) \in Solution /\ Tried(old).trial <= TrialCountMax
          BY <4>1, <4>2, SourceTypes
        <4>4. Tried(old).trial \in Int
          BY <4>2, <4>3 DEF Solution, Trials
        <4>. QED
          BY <4>1, <4>2, <4>3, <4>4, SourceTypes, Sizes
      <3>2. \/ \E h \in Fitness : h > old.fitness /\ solutions' = [solutions EXCEPT ![bee] = New(h)]
            \/ solutions' = [solutions EXCEPT ![bee] = Tried(old)]
        BY <1>7, <2>4, <3>1 DEF Onlook
      <3>3. /\ solutions'[bee].fitness >= old.fitness /\ solutions'[bee].fitness \in Int
            /\ \A i \in Seats : i # bee => solutions'[i] = solutions[i]
        <4>. HIDE DEF old
        <4>1. solutions \in [Seats -> Solution]
          BY <1>0 DEF ColonyTypeOK
        <4>2. CASE solutions' = [solutions EXCEPT ![bee] = Tried(old)]
          BY <2>1, <3>1, <4>1, <4>2
        <4>3. ASSUME NEW h \in Fitness, h > old.fitness, solutions' = [solutions EXCEPT ![bee] = New(h)]
              PROVE  /\ solutions'[bee].fitness >= old.fitness /\ solutions'[bee].fitness \in Int
                     /\ \A i \in Seats : i # bee => solutions'[i] = solutions[i]
          <5>1. New(h).fitness = h /\ h \in Int
            BY SourceTypes, Sizes
          <5>. QED
            BY <2>1, <3>1, <4>1, <4>3, <5>1
        <4>. QED
          BY <3>2, <4>2, <4>3
      <3>4. f = old.fitness
        BY <1>1, <1>2, <2>1, <3>3 DEF Known
      <3>. QED
        BY <1>0, <1>2, <2>1, <3>1, <3>3, <3>4
    <2>. QED
      BY <2>2, <2>3, <2>4
  <1>. QED
    BY <1>3, <1>4, <1>5, <1>6, <1>7 DEF ColonyNext

\* LostOnlyAmongOnlookers for a colony of any size: the best solution a colony
\* knows survives the employed bees, the recording, the publication and the
\* restart (abc.hpp 44-63 and 108-134, abc_parallel.hpp 137-168)
THEOREM LossesCorrect == ColonySpec => LostOnlyAmongOnlookers
  <1>1. ColonyInit => ColonyInv
    BY InvInit
  <1>2. ColonyInv /\ [ColonyNext]_colonyVars => ColonyInv'
    BY InvNext
  <1>3. ColonyInv /\ [ColonyNext]_colonyVars => [Lost => LossAllowed]_colonyVars
    BY StepLoses
  <1>4. [][Lost => LossAllowed]_colonyVars => LostOnlyAmongOnlookers
    BY PTL DEF LostOnlyAmongOnlookers, Lost, LossAllowed
  <1>. QED
    BY <1>1, <1>2, <1>3, <1>4, PTL DEF ColonySpec

-----------------------------------------------------------------------------
(* The vehicle-to-task checker, for any zones, tasks and vehicles: what the *)
(* map of ids is asked for does not depend on what it was asked before.     *)

\* the inputs of a checker, and how many zones and vehicles there are
Inputs == zones \in ZoneInputs /\ tasks \in TaskInputs /\ vehicles \in VehicleInputs

LEMMA InputsAre ==
  ASSUME Inputs
  PROVE  /\ \E n \in Nat : DOMAIN zones = 0 .. n - 1 /\ Cardinality(DOMAIN zones) = n
         /\ \E n \in Nat : DOMAIN vehicles = 0 .. n - 1 /\ Cardinality(DOMAIN vehicles) = n
  <1>1. Positions(zones) /\ Positions(vehicles)
    BY CheckerAssumption DEF Inputs
  <1>2. Cardinality(DOMAIN zones) \in Nat /\ Cardinality(DOMAIN vehicles) \in Nat
    BY <1>1, FS_CardinalityType DEF Positions
  <1>. QED
    BY <1>1, <1>2 DEF Positions

\* the last of the first n zones that has an id, or the first of all
Named(id, n)     == {z \in DOMAIN zones : z < n /\ zones[z].externalId = id}
LastNamed(id, n) == IF Named(id, n) = {} THEN 0 ELSE Max(Named(id, n))

LEMMA NamedNext ==
  ASSUME Inputs, NEW n \in DOMAIN zones, NEW id
  PROVE  LastNamed(id, n + 1) = IF zones[n].externalId = id THEN n ELSE LastNamed(id, n)
  <1>1. DOMAIN zones \subseteq Nat /\ n \in Nat
    BY InputsAre
  <1>2. CASE zones[n].externalId = id
    <2>1. n \in Named(id, n + 1) /\ \A z \in Named(id, n + 1) : z \in Nat /\ z <= n
      BY <1>1, <1>2 DEF Named
    <2>2. Max(Named(id, n + 1)) = n
      BY <1>1, <2>1 DEF Max
    <2>. QED
      BY <1>2, <2>1, <2>2 DEF LastNamed
  <1>3. CASE zones[n].externalId # id
    <2>1. Named(id, n + 1) = Named(id, n)
      BY <1>1, <1>3 DEF Named
    <2>. QED
      BY <1>3, <2>1 DEF LastNamed
  <1>. QED
    BY <1>2, <1>3

LEMMA NamedAll ==
  ASSUME Inputs, NEW n \in Nat, n = Cardinality(DOMAIN zones), NEW id
  PROVE  LastNamed(id, n) = LastZone(id)
  <1>1. \A z \in DOMAIN zones : z < n
    BY InputsAre
  <1>2. Named(id, n) = {z \in DOMAIN zones : zones[z].externalId = id}
    BY <1>1 DEF Named
  <1>. QED
    BY <1>2 DEF LastNamed, LastZone

\* every id that the inputs name
Ids == {zones[z].externalId : z \in DOMAIN zones} \cup UNION {vehicles[v].workZones : v \in DOMAIN vehicles}

\* an id that was looked up and not found gives the same the next time
MapRight == \A id \in Ids : Lookup(externalIdToLocal, id) = LastNamed(id, nextZone)

RowsAfterZones == nextVehicle # 0 => nextZone \notin DOMAIN zones

CheckerInv == Inputs /\ CheckerTypeOK /\ MapRight /\ RowsAfterZones /\ RowsIndependent /\ AllowedTaskFits

\* at the start the map is empty and no row is filled
LEMMA CheckerBegins == CheckerInit => CheckerInv
  <1>. SUFFICES ASSUME CheckerInit PROVE CheckerInv
    OBVIOUS
  <1>1. Inputs
    BY DEF CheckerInit, Inputs
  <1>2. /\ 0 \in DOMAIN zones \cup {Cardinality(DOMAIN zones)}
        /\ 0 \in DOMAIN vehicles \cup {Cardinality(DOMAIN vehicles)}
        /\ \A v \in DOMAIN vehicles : ~ v < 0
        /\ \A z \in DOMAIN zones : ~ z < 0
    BY <1>1, InputsAre
  <1>3. CheckerTypeOK
    BY <1>2 DEF CheckerInit, CheckerTypeOK
  <1>4. MapRight
    <2>. SUFFICES ASSUME NEW id \in Ids PROVE Lookup(externalIdToLocal, id) = LastNamed(id, nextZone)
      BY DEF MapRight
    <2>1. Named(id, 0) = {}
      BY <1>2 DEF Named
    <2>. QED
      BY <2>1 DEF CheckerInit, Lookup, LastNamed
  <1>5. RowsAfterZones /\ RowsIndependent
    BY <1>2 DEF CheckerInit, RowsAfterZones, RowsIndependent
  <1>6. \A v \in DOMAIN vehicles, t \in DOMAIN tasks : possibility[v][t] # 1
    BY DEF CheckerInit
  <1>7. AllowedTaskFits
    BY <1>6 DEF AllowedTaskFits
  <1>. QED
    BY <1>1, <1>3, <1>4, <1>5, <1>7 DEF CheckerInv

\* a zone is indexed: its id now means this zone, and no row is there yet
LEMMA ZoneKeeps == CheckerInv /\ IndexZone => CheckerInv'
  <1>. SUFFICES ASSUME CheckerInv, IndexZone PROVE CheckerInv'
    OBVIOUS
  <1>. USE DEF CheckerInv
  <1>. DEFINE id0 == zones[nextZone].externalId
  <1>1. /\ nextZone \in DOMAIN zones /\ nextZone' = nextZone + 1 /\ nextVehicle = 0 /\ nextVehicle' = 0
        /\ zones' = zones /\ tasks' = tasks /\ vehicles' = vehicles /\ possibility' = possibility
        /\ externalIdToLocal' = Put(externalIdToLocal, id0, nextZone)
    BY DEF IndexZone, inputs, RowsAfterZones
  <1>2. PICK found \in SUBSET DOMAIN tasks : zoneAndTask' = Put(zoneAndTask, nextZone, found)
    BY DEF IndexZone
  <1>3. nextZone + 1 \in DOMAIN zones \cup {Cardinality(DOMAIN zones)}
    BY <1>1, InputsAre
  <1>4. CheckerTypeOK'
    <2>1. \A z \in DOMAIN zoneAndTask' : zoneAndTask'[z] \subseteq DOMAIN tasks
      BY <1>2 DEF Put, CheckerTypeOK
    <2>2. \A id \in DOMAIN externalIdToLocal' : externalIdToLocal'[id] \in {0} \cup DOMAIN zones
      BY <1>1 DEF Put, CheckerTypeOK
    <2>. QED
      BY <1>1, <1>3, <2>1, <2>2 DEF CheckerTypeOK
  <1>5. MapRight'
    <2>. SUFFICES ASSUME NEW id \in Ids PROVE Lookup(externalIdToLocal', id) = LastNamed(id, nextZone + 1)
      BY <1>1 DEF MapRight, Ids, LastNamed, Named
    <2>1. Lookup(externalIdToLocal', id) = IF id = id0 THEN nextZone ELSE Lookup(externalIdToLocal, id)
      BY <1>1 DEF Lookup, Put
    <2>2. LastNamed(id, nextZone + 1) = IF id0 = id THEN nextZone ELSE LastNamed(id, nextZone)
      BY <1>1, NamedNext
    <2>. QED
      BY <2>1, <2>2 DEF MapRight
  <1>6. \A v \in DOMAIN vehicles : ~ v < 0
    BY InputsAre
  <1>7. RowsAfterZones' /\ RowsIndependent'
    BY <1>1, <1>6 DEF RowsAfterZones, RowsIndependent
  <1>8. AllowedTaskFits'
    BY <1>1 DEF AllowedTaskFits
  <1>9. Inputs'
    BY <1>1 DEF Inputs
  <1>. QED
    BY <1>4, <1>5, <1>7, <1>8, <1>9

\* the row of a vehicle, from its own zones
RowOf(v, t) ==
    /\ CanTakeTask(vehicles[v], tasks[t])
    /\ \/ vehicles[v].workZones = {}
       \/ \E id \in vehicles[v].workZones : t \in TasksOfZone(LastZone(id))

\* what the loop over a vehicle's zones finds, once all zones are indexed
LEMMA ReachableByZones ==
  ASSUME CheckerInv, nextZone \notin DOMAIN zones, NEW v \in DOMAIN vehicles, NEW t \in DOMAIN tasks
  PROVE  t \in Reachable(vehicles[v]) <=>
            \/ vehicles[v].workZones = {}
            \/ \E id \in vehicles[v].workZones : t \in TasksOfZone(LastZone(id))
  <1>1. nextZone \in Nat /\ nextZone = Cardinality(DOMAIN zones)
    BY InputsAre DEF CheckerInv, CheckerTypeOK
  <1>2. \A id \in vehicles[v].workZones : Lookup(externalIdToLocal, id) = LastZone(id)
    <2>. TAKE id \in vehicles[v].workZones
    <2>1. Lookup(externalIdToLocal, id) = LastNamed(id, nextZone)
      BY DEF CheckerInv, MapRight, Ids
    <2>. QED
      BY <1>1, <2>1, NamedAll DEF CheckerInv
  <1>3. CASE vehicles[v].workZones = {}
    BY <1>3 DEF Reachable
  <1>4. CASE vehicles[v].workZones # {}
    BY <1>2, <1>4 DEF Reachable
  <1>. QED
    BY <1>3, <1>4

\* a task that a vehicle can take does not exceed its limits
LEMMA TakenFits ==
  ASSUME Inputs, NEW v \in DOMAIN vehicles, NEW t \in DOMAIN tasks, CanTakeTask(vehicles[v], tasks[t])
  PROVE  /\ ~ tasks[t].capacity > vehicles[v].capacity
         /\ ~ tasks[t].volume > vehicles[v].width * vehicles[v].length * vehicles[v].height
  <1>1. /\ vehicles[v].capacity \in Int /\ vehicles[v].width \in Int
        /\ vehicles[v].length \in Int /\ vehicles[v].height \in Int
        /\ tasks[t].capacity \in Int /\ tasks[t].volume \in Int
    BY CheckerAssumption DEF Inputs
  <1>2. \A a, b, c \in Int : a * b * c \in Int
    OBVIOUS
  <1>. DEFINE volume == vehicles[v].width * vehicles[v].length * vehicles[v].height
  <1>3. volume \in Int
    BY <1>1, <1>2
  <1>4. vehicles[v].capacity >= tasks[t].capacity /\ volume >= tasks[t].volume
    BY DEF CanTakeTask
  <1>. HIDE DEF volume
  <1>5. ~ tasks[t].capacity > vehicles[v].capacity /\ ~ tasks[t].volume > volume
    BY <1>1, <1>3, <1>4
  <1>. QED
    BY <1>5 DEF volume

\* a row is filled: the others stay, and what it looked up changes no answer
LEMMA RowKeeps == CheckerInv /\ FillRow => CheckerInv'
  <1>. SUFFICES ASSUME CheckerInv, FillRow PROVE CheckerInv'
    OBVIOUS
  <1>. USE DEF CheckerInv
  <1>. DEFINE row == [t \in DOMAIN tasks |->
                         IF t \in Reachable(vehicles[nextVehicle]) /\ CanTakeTask(vehicles[nextVehicle], tasks[t])
                         THEN 1 ELSE 0]
              asked == vehicles[nextVehicle].workZones
  <1>1. /\ nextVehicle \in DOMAIN vehicles /\ nextVehicle' = nextVehicle + 1
        /\ nextZone \notin DOMAIN zones /\ nextZone' = nextZone
        /\ zones' = zones /\ tasks' = tasks /\ vehicles' = vehicles /\ zoneAndTask' = zoneAndTask
        /\ possibility' = [possibility EXCEPT ![nextVehicle] = row]
        /\ externalIdToLocal' = Looked(externalIdToLocal, asked)
    BY DEF FillRow, inputs
  <1>2. /\ nextVehicle + 1 \in DOMAIN vehicles \cup {Cardinality(DOMAIN vehicles)}
        /\ DOMAIN vehicles \subseteq Nat
        /\ \A v \in DOMAIN vehicles : v < nextVehicle + 1 => v < nextVehicle \/ v = nextVehicle
    BY <1>1, InputsAre
  <1>3. possibility \in [DOMAIN vehicles -> [DOMAIN tasks -> {0, 1}]]
    BY DEF CheckerTypeOK
  <1>4. \A t \in DOMAIN tasks : row[t] = 1 <=> RowOf(nextVehicle, t)
    BY <1>1, ReachableByZones DEF RowOf
  <1>5. row \in [DOMAIN tasks -> {0, 1}]
    OBVIOUS
  <1>. HIDE DEF row
  <1>6. /\ possibility' \in [DOMAIN vehicles -> [DOMAIN tasks -> {0, 1}]]
        /\ possibility'[nextVehicle] = row
        /\ \A v \in DOMAIN vehicles : v # nextVehicle => possibility'[v] = possibility[v]
    BY <1>1, <1>3, <1>5
  <1>7. \A id : Lookup(externalIdToLocal', id) = Lookup(externalIdToLocal, id)
    BY <1>1 DEF Looked, Lookup
  <1>8. CheckerTypeOK'
    <2>1. \A id \in DOMAIN externalIdToLocal' : externalIdToLocal'[id] \in {0} \cup DOMAIN zones
      BY <1>1 DEF Looked, Lookup, CheckerTypeOK
    <2>. QED
      BY <1>1, <1>2, <1>6, <2>1 DEF CheckerTypeOK
  <1>9. MapRight'
    <2>. SUFFICES ASSUME NEW id \in Ids PROVE Lookup(externalIdToLocal', id) = LastNamed(id, nextZone)
      BY <1>1 DEF MapRight, Ids, LastNamed, Named
    <2>. QED
      BY <1>7 DEF MapRight
  <1>10. RowsAfterZones'
    BY <1>1 DEF RowsAfterZones
  <1>11. RowsIndependent'
    <2>3. ASSUME NEW id PROVE TasksOfZone(LastZone(id))' = TasksOfZone(LastZone(id))
      <3>1. LastZone(id)' = LastZone(id)
        BY <1>1 DEF LastZone
      <3>. QED
        BY <1>1, <3>1 DEF TasksOfZone
    <2>. SUFFICES ASSUME NEW v \in DOMAIN vehicles, v < nextVehicle + 1, NEW t \in DOMAIN tasks
                  PROVE  possibility'[v][t] = 1 <=> RowOf(v, t)
      BY <1>1, <2>3 DEF RowsIndependent, RowOf
    <2>1. CASE v = nextVehicle
      BY <1>4, <1>6, <2>1
    <2>2. CASE v # nextVehicle /\ v < nextVehicle
      BY <1>6, <2>2 DEF RowsIndependent, RowOf
    <2>. QED
      BY <1>2, <2>1, <2>2
  <1>12. AllowedTaskFits'
    <2>. SUFFICES ASSUME NEW v \in DOMAIN vehicles, NEW t \in DOMAIN tasks, possibility'[v][t] = 1
                  PROVE  LET V == vehicles[v]
                             volume == V.width * V.length * V.height
                         IN  /\ ~(V.capacity # 0 /\ tasks[t].capacity > V.capacity)
                             /\ ~(volume # 0 /\ tasks[t].volume > volume)
      BY <1>1 DEF AllowedTaskFits
    <2>1. CASE v = nextVehicle
      <3>1. CanTakeTask(vehicles[v], tasks[t])
        BY <1>4, <1>6, <2>1 DEF RowOf
      <3>. QED
        BY <3>1, TakenFits
    <2>2. CASE v # nextVehicle
      BY <1>6, <2>2 DEF AllowedTaskFits
    <2>. QED
      BY <2>1, <2>2
  <1>13. Inputs'
    BY <1>1 DEF Inputs
  <1>. QED
    BY <1>8, <1>9, <1>10, <1>11, <1>12, <1>13

LEMMA CheckerKeeps == CheckerInv /\ [CheckerNext]_checkerVars => CheckerInv'
  <1>. SUFFICES ASSUME CheckerInv, [CheckerNext]_checkerVars PROVE CheckerInv'
    OBVIOUS
  <1>1. CASE IndexZone
    BY <1>1, ZoneKeeps
  <1>2. CASE FillRow
    BY <1>2, RowKeeps
  <1>3. CASE UNCHANGED checkerVars
    <2>1. /\ zones' = zones /\ tasks' = tasks /\ vehicles' = vehicles /\ possibility' = possibility
          /\ externalIdToLocal' = externalIdToLocal /\ zoneAndTask' = zoneAndTask
          /\ nextZone' = nextZone /\ nextVehicle' = nextVehicle
      BY <1>3 DEF checkerVars, inputs
    <2>2. Inputs' /\ CheckerTypeOK' /\ RowsAfterZones' /\ AllowedTaskFits'
      BY <2>1 DEF CheckerInv, Inputs, CheckerTypeOK, RowsAfterZones, AllowedTaskFits
    <2>3. MapRight'
      <3>1. \A id : LastNamed(id, nextZone)' = LastNamed(id, nextZone)
        BY <2>1 DEF LastNamed, Named
      <3>. QED
        BY <2>1, <3>1 DEF CheckerInv, MapRight, Ids
    <2>4. RowsIndependent'
      <3>1. ASSUME NEW id PROVE TasksOfZone(LastZone(id))' = TasksOfZone(LastZone(id))
        <4>1. LastZone(id)' = LastZone(id)
          BY <2>1 DEF LastZone
        <4>. QED
          BY <2>1, <4>1 DEF TasksOfZone
      <3>. QED
        BY <2>1, <3>1 DEF CheckerInv, RowsIndependent
    <2>. QED
      BY <2>2, <2>3, <2>4 DEF CheckerInv
  <1>. QED
    BY <1>1, <1>2, <1>3 DEF CheckerNext

\* Every local and member of the checker keeps its type, for any zones, tasks
\* and vehicles: no row and no zone's list has a task that there is not
\* (vehicle_to_task_checker.cpp 10-80)
THEOREM CheckerTypeCorrect == CheckerSpec => []CheckerTypeOK
  <1>1. CheckerInv => CheckerTypeOK
    BY DEF CheckerInv
  <1>. QED
    BY <1>1, CheckerBegins, CheckerKeeps, PTL DEF CheckerSpec

\* A vehicle's row is what its own zones and limits say, for any zones, tasks
\* and vehicles, although each row looks its zones up in a map to which the
\* lookups of the rows before it have added (vehicle_to_task_checker.cpp 34-62)
THEOREM RowsCorrect == CheckerSpec => [](RowsIndependent /\ AllowedTaskFits)
  <1>1. CheckerInv => RowsIndependent /\ AllowedTaskFits
    BY DEF CheckerInv
  <1>. QED
    BY <1>1, CheckerBegins, CheckerKeeps, PTL DEF CheckerSpec

\* Every variable of what solves a request has its type: of the checker, of the
\* bees of a colony, and of a source on its way to the answer.
THEOREM SolvingTypesCorrect == ReportSpec /\ ColonySpec /\ CheckerSpec => []SolvingTypeOK
  BY ReportTypeCorrect, ColonyTypeCorrect, CheckerTypeCorrect, PTL DEF SolvingTypeOK
=============================================================================
