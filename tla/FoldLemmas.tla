------------------------------ MODULE FoldLemmas ------------------------------
(***************************************************************************)
(* Induction, recursion and folds, in a form the provers can use: over     *)
(* sets and functions rather than operators.                               *)
(***************************************************************************)
EXTENDS Integers, FiniteSetTheorems, FiniteSetsExt, SequencesExt, TLAPS

-----------------------------------------------------------------------------
(* Induction *)

LEMMA LessIsWF ==
  \E R : IsWellFoundedOn(R, Nat) /\ \A m, n \in Nat : m < n => <<m, n>> \in R
<1>1. IsWellFoundedOn(OpToRel(<, Nat), Nat)
  BY NatLessThanWellFounded
<1>2. \A m, n \in Nat : m < n => <<m, n>> \in OpToRel(<, Nat)
  BY DEF OpToRel
<1> QED
  BY <1>1, <1>2

\* a set of natural numbers has a least one
LEMMA Least ==
  ASSUME NEW S, S \subseteq Nat, S # {}
  PROVE  \E m \in S : \A k \in S : m <= k
<1>1. PICK R : IsWellFoundedOn(R, Nat) /\ \A m, n \in Nat : m < n => <<m, n>> \in R
  BY LessIsWF
<1>2. IsWellFoundedOn(R, Nat)
  BY <1>1
<1>3. \E m \in S : \A k \in S : ~ (<<k, m>> \in R)
  BY <1>2, WFMin
<1>4. PICK m \in S : \A k \in S : ~ (<<k, m>> \in R)
  BY <1>3
<1>5. \A k \in S : ~ (k < m)
  BY <1>1, <1>4
<1> QED
  BY <1>5

\* the numbers with a property, given as a set
LEMMA Induction ==
  ASSUME NEW S, 0 \in S, \A n \in Nat : n \in S => n + 1 \in S
  PROVE  Nat \subseteq S
<1> SUFFICES ASSUME NEW n \in Nat, n \notin S PROVE FALSE
  OBVIOUS
<1> DEFINE Out == {k \in Nat : k \notin S}
<1>0. Out \subseteq Nat /\ Out # {}
  OBVIOUS
<1>1. PICK m \in Out : \A k \in Out : m <= k
  BY <1>0, Least
<1>2. m # 0 /\ m - 1 \in Nat
  BY <1>1
<1>3. m - 1 \in S
  BY <1>1, <1>2
<1> QED
  BY <1>1, <1>2, <1>3

\* the subsets of a finite set with a property, smaller ones first
LEMMA SetInduction ==
  ASSUME NEW S, IsFiniteSet(S), NEW P \in SUBSET (SUBSET S),
         \A T \in SUBSET S : (\A U \in SUBSET T : U # T => U \in P) => T \in P
  PROVE  S \in P
<1> DEFINE N == {n \in Nat : \A T \in SUBSET S : Cardinality(T) <= n => T \in P}
<1>1. \A T \in SUBSET S : IsFiniteSet(T) /\ Cardinality(T) \in Nat
  BY FS_Subset, FS_CardinalityType
<1>2. \A T \in SUBSET S : \A U \in SUBSET T : U # T => Cardinality(U) < Cardinality(T)
  BY <1>1, FS_Subset
<1>3. 0 \in N
  BY <1>1, <1>2
<1>4. \A n \in Nat : n \in N => n + 1 \in N
  <2> SUFFICES ASSUME NEW n \in Nat, n \in N,
                      NEW T \in SUBSET S, Cardinality(T) <= n + 1
               PROVE  T \in P
    OBVIOUS
  <2>1. \A U \in SUBSET T : U # T => U \in P
    BY <1>1, <1>2
  <2> QED
    BY <2>1
<1>5. Nat \subseteq N
  BY <1>3, <1>4, Induction
<1> QED
  BY <1>1, <1>5
-----------------------------------------------------------------------------
(* Recursion over the subsets of a finite set: pick[T] is the element that  *)
(* is taken out of T, and step[a][x] what becomes of the result a of the    *)
(* rest.                                                                    *)

IsFold(f, base, step, pick, D) ==
    f = [T \in D |-> IF T = {} THEN base ELSE step[f[T \ {pick[T]}]][pick[T]]]

Picks(pick, S) == \A T \in SUBSET S : T # {} => pick[T] \in T

\* such a function exists
LEMMA FoldExists ==
  ASSUME NEW S, IsFiniteSet(S), NEW A, NEW base \in A, NEW step \in [A -> [S -> A]],
         NEW pick, Picks(pick, S)
  PROVE  \E f \in [SUBSET S -> A] : IsFold(f, base, step, pick, SUBSET S)
<1> DEFINE Upto(n) == {T \in SUBSET S : Cardinality(T) <= n}
           N == {n \in Nat : \E f \in [Upto(n) -> A] : IsFold(f, base, step, pick, Upto(n))}
<1>1. \A T \in SUBSET S : IsFiniteSet(T) /\ Cardinality(T) \in Nat
  BY FS_Subset, FS_CardinalityType
<1>2. \A T \in SUBSET S : T # {} =>
         /\ pick[T] \in S
         /\ T \ {pick[T]} \in SUBSET S
         /\ Cardinality(T \ {pick[T]}) = Cardinality(T) - 1
  BY <1>1, FS_RemoveElement DEF Picks
<1>3. 0 \in N
  <2>1. Upto(0) = {{}}
    <3>1. \A T \in SUBSET S : Cardinality(T) <= 0 => T = {}
      BY <1>1, FS_EmptySet
    <3>2. Cardinality({}) = 0
      BY FS_EmptySet
    <3>3. {} \in Upto(0)
      BY <3>2
    <3>4. \A T \in Upto(0) : T = {}
      BY <3>1
    <3> QED
      BY <3>3, <3>4
  <2> DEFINE f == [T \in {{}} |-> base]
  <2>2. f \in [Upto(0) -> A] /\ IsFold(f, base, step, pick, Upto(0))
    BY <2>1 DEF IsFold
  <2> QED
    BY <2>2
<1>4. \A n \in Nat : n \in N => n + 1 \in N
  <2> SUFFICES ASSUME NEW n \in Nat, n \in N PROVE n + 1 \in N
    OBVIOUS
  <2>1. PICK f \in [Upto(n) -> A] : IsFold(f, base, step, pick, Upto(n))
    OBVIOUS
  <2>2. \A T \in Upto(n) : f[T] = IF T = {} THEN base ELSE step[f[T \ {pick[T]}]][pick[T]]
    BY <2>1 DEF IsFold
  <2> DEFINE g == [T \in Upto(n + 1) |-> IF T = {} THEN base
                                         ELSE step[f[T \ {pick[T]}]][pick[T]]]
  <2>3. \A T \in Upto(n + 1) : T # {} => T \ {pick[T]} \in Upto(n) /\ T \ {pick[T]} \in Upto(n + 1)
    <3> SUFFICES ASSUME NEW T \in Upto(n + 1), T # {}
                 PROVE  T \ {pick[T]} \in Upto(n) /\ T \ {pick[T]} \in Upto(n + 1)
      OBVIOUS
    <3>1. T \in SUBSET S /\ Cardinality(T) \in Nat /\ Cardinality(T) <= n + 1
      BY <1>1
    <3>2. T \ {pick[T]} \in SUBSET S /\ Cardinality(T \ {pick[T]}) = Cardinality(T) - 1
      BY <1>2, <3>1
    <3> QED
      BY <3>1, <3>2
  <2>4. \A T \in Upto(n) : T \in Upto(n + 1) /\ g[T] = f[T]
    <3> SUFFICES ASSUME NEW T \in Upto(n) PROVE T \in Upto(n + 1) /\ g[T] = f[T]
      OBVIOUS
    <3>1. T \in Upto(n + 1)
      BY <1>1
    <3> QED
      BY <2>2, <3>1
  <2>5. g \in [Upto(n + 1) -> A]
    <3> SUFFICES ASSUME NEW T \in Upto(n + 1), T # {}
                 PROVE  step[f[T \ {pick[T]}]][pick[T]] \in A
      OBVIOUS
    <3>1. f[T \ {pick[T]}] \in A /\ pick[T] \in S
      BY <1>2, <2>3
    <3>2. step[f[T \ {pick[T]}]] \in [S -> A]
      BY <3>1
    <3> QED
      BY <3>1, <3>2
  <2>6. g = [T \in Upto(n + 1) |-> IF T = {} THEN base ELSE step[g[T \ {pick[T]}]][pick[T]]]
    BY <2>3, <2>4
  <2>7. IsFold(g, base, step, pick, Upto(n + 1))
    BY <2>6 DEF IsFold
  <2> HIDE DEF g, Upto
  <2>8. \E h \in [Upto(n + 1) -> A] : IsFold(h, base, step, pick, Upto(n + 1))
    BY <2>5, <2>7
  <2> QED
    BY <2>8
<1>5. Cardinality(S) \in N
  BY <1>1, <1>3, <1>4, Induction
<1>6. Upto(Cardinality(S)) = SUBSET S
  BY <1>1, FS_Subset
<1> QED
  BY <1>5, <1>6

\* two of them agree where both are defined
LEMMA FoldUnique ==
  ASSUME NEW S, IsFiniteSet(S), NEW U \in SUBSET S, NEW base, NEW step, NEW f, NEW g,
         NEW pick, Picks(pick, S),
         IsFold(f, base, step, pick, SUBSET S), IsFold(g, base, step, pick, SUBSET U)
  PROVE  f[U] = g[U]
<1> DEFINE P == {T \in SUBSET U : f[T] = g[T]}
<1>1. \A T \in SUBSET U : (\A V \in SUBSET T : V # T => V \in P) => T \in P
  <2> SUFFICES ASSUME NEW T \in SUBSET U, \A V \in SUBSET T : V # T => V \in P
               PROVE  f[T] = g[T]
    OBVIOUS
  <2>1. /\ f[T] = IF T = {} THEN base ELSE step[f[T \ {pick[T]}]][pick[T]]
        /\ g[T] = IF T = {} THEN base ELSE step[g[T \ {pick[T]}]][pick[T]]
    BY DEF IsFold
  <2>2. T # {} => f[T \ {pick[T]}] = g[T \ {pick[T]}]
    BY DEF Picks
  <2> QED
    BY <2>1, <2>2
<1>2. IsFiniteSet(U) /\ P \in SUBSET (SUBSET U)
  BY FS_Subset
<1> HIDE DEF P
<1>3. U \in P
  BY <1>1, <1>2, SetInduction
<1> QED
  BY <1>3 DEF P

-----------------------------------------------------------------------------
(* Sums: SumFunctionOnSet(f, S) of the module Functions adds f[x] for the   *)
(* x of S, in the order in which CHOOSE takes them out of S.                *)

Some(T) == CHOOSE x \in T : TRUE
SumIter(g, f, S) ==
    g = [T \in SUBSET S |-> IF T = {} THEN 0 ELSE f[Some(T)] + g[T \ {Some(T)}]]

LEMMA SomeIn == ASSUME NEW T, T # {} PROVE Some(T) \in T
  BY DEF Some

LEMMA SumIterUnique ==
  ASSUME NEW S, IsFiniteSet(S), NEW U \in SUBSET S, NEW f, NEW g, NEW h,
         SumIter(g, f, S), SumIter(h, f, U)
  PROVE  g[U] = h[U]
<1> DEFINE P == {T \in SUBSET U : g[T] = h[T]}
<1>1. \A T \in SUBSET U : (\A V \in SUBSET T : V # T => V \in P) => T \in P
  <2> SUFFICES ASSUME NEW T \in SUBSET U, \A V \in SUBSET T : V # T => V \in P
               PROVE  g[T] = h[T]
    OBVIOUS
  <2>1. /\ g[T] = IF T = {} THEN 0 ELSE f[Some(T)] + g[T \ {Some(T)}]
        /\ h[T] = IF T = {} THEN 0 ELSE f[Some(T)] + h[T \ {Some(T)}]
    BY DEF SumIter
  <2>2. T # {} => g[T \ {Some(T)}] = h[T \ {Some(T)}]
    BY SomeIn
  <2> QED
    BY <2>1, <2>2
<1>2. IsFiniteSet(U) /\ P \in SUBSET (SUBSET U)
  BY FS_Subset
<1> HIDE DEF P
<1>3. U \in P
  BY <1>1, <1>2, SetInduction
<1> QED
  BY <1>3 DEF P

LEMMA SumIterExists ==
  ASSUME NEW S, IsFiniteSet(S), NEW f, \A x \in S : f[x] \in Int
  PROVE  \E g \in [SUBSET S -> Int] : SumIter(g, f, S)
<1> DEFINE pick == [T \in SUBSET S |-> Some(T)]
           step == [a \in Int |-> [x \in S |-> f[x] + a]]
<1>1. Picks(pick, S)
  BY SomeIn DEF Picks
<1>2. step \in [Int -> [S -> Int]]
  OBVIOUS
<1> HIDE DEF step
<1>3. PICK g \in [SUBSET S -> Int] : IsFold(g, 0, step, pick, SUBSET S)
  <2> HIDE DEF pick
  <2>1. 0 \in Int
    OBVIOUS
  <2> QED
    BY <1>1, <1>2, <2>1, FoldExists, Zenon
<1>4. \A T \in SUBSET S : T # {} =>
         step[g[T \ {pick[T]}]][pick[T]] = f[Some(T)] + g[T \ {Some(T)}]
  <2> SUFFICES ASSUME NEW T \in SUBSET S, T # {}
               PROVE  step[g[T \ {pick[T]}]][pick[T]] = f[Some(T)] + g[T \ {Some(T)}]
    OBVIOUS
  <2>1. pick[T] = Some(T) /\ Some(T) \in S /\ g[T \ {Some(T)}] \in Int
    BY SomeIn
  <2> QED
    BY <2>1 DEF step
<1>5. SumIter(g, f, S)
  BY <1>3, <1>4 DEF SumIter, IsFold
<1> QED
  BY <1>5

\* the iteration that MapThenFoldSet chooses is one
LEMMA SumIsIter ==
  ASSUME NEW S, IsFiniteSet(S), NEW f, \A x \in S : f[x] \in Int
  PROVE  \E g \in [SUBSET S -> Int] : SumIter(g, f, S) /\ SumFunctionOnSet(f, S) = g[S]
<1> DEFINE h == CHOOSE g : SumIter(g, f, S)
<1>1. SumFunctionOnSet(f, S) = h[S]
  BY Zenon DEF SumFunctionOnSet, FoldFunctionOnSet, MapThenFoldSet, SumIter, Some
<1>2. PICK g \in [SUBSET S -> Int] : SumIter(g, f, S)
  BY SumIterExists
<1>3. SumIter(h, f, S)
  BY <1>2
<1> HIDE DEF h
<1>4. g[S] = h[S]
  BY <1>2, <1>3, SumIterUnique
<1> QED
  BY <1>1, <1>2, <1>4

LEMMA SumOfNone == ASSUME NEW f PROVE SumFunctionOnSet(f, {}) = 0
<1>1. IsFiniteSet({})
  BY FS_EmptySet
<1>2. PICK g : SumIter(g, f, {}) /\ SumFunctionOnSet(f, {}) = g[{}]
  BY <1>1, SumIsIter
<1> QED
  BY <1>2 DEF SumIter

LEMMA SumOfSome ==
  ASSUME NEW S, IsFiniteSet(S), NEW f, \A x \in S : f[x] \in Int, S # {}
  PROVE  SumFunctionOnSet(f, S) = f[Some(S)] + SumFunctionOnSet(f, S \ {Some(S)})
<1> DEFINE R == S \ {Some(S)}
<1>1. R \in SUBSET S /\ IsFiniteSet(R) /\ \A x \in R : f[x] \in Int
  BY FS_Subset
<1>2. PICK g : SumIter(g, f, S) /\ SumFunctionOnSet(f, S) = g[S]
  BY SumIsIter
<1>3. PICK h : SumIter(h, f, R) /\ SumFunctionOnSet(f, R) = h[R]
  BY <1>1, SumIsIter
<1>4. g[S] = f[Some(S)] + g[R]
  BY <1>2 DEF SumIter
<1> HIDE DEF R
<1>5. g[R] = h[R]
  BY <1>1, <1>2, <1>3, SumIterUnique
<1> QED
  BY <1>2, <1>3, <1>4, <1>5 DEF R

\* a sum of integers is one
LEMMA SumType ==
  ASSUME NEW S, IsFiniteSet(S), NEW f, \A x \in S : f[x] \in Int
  PROVE  SumFunctionOnSet(f, S) \in Int
<1>1. PICK g \in [SUBSET S -> Int] : SumFunctionOnSet(f, S) = g[S]
  BY SumIsIter
<1> QED
  BY <1>1

\* any element can be taken out first
LEMMA SumRemove ==
  ASSUME NEW S, IsFiniteSet(S), NEW f, \A x \in S : f[x] \in Int, NEW x \in S
  PROVE  SumFunctionOnSet(f, S) = f[x] + SumFunctionOnSet(f, S \ {x})
<1> DEFINE Sum(T) == SumFunctionOnSet(f, T)
           P == {T \in SUBSET S : \A y \in T : Sum(T) = f[y] + Sum(T \ {y})}
<1>1. \A T \in SUBSET S : IsFiniteSet(T) /\ (\A y \in T : f[y] \in Int) /\ Sum(T) \in Int
  BY FS_Subset, SumType
<1>2. \A T \in SUBSET S : T # {} => Sum(T) = f[Some(T)] + Sum(T \ {Some(T)})
  BY <1>1, SumOfSome
<1> HIDE DEF Sum
<1>3. \A T \in SUBSET S : (\A V \in SUBSET T : V # T => V \in P) => T \in P
  <2> SUFFICES ASSUME NEW T \in SUBSET S, \A V \in SUBSET T : V # T => V \in P,
                      NEW y \in T
               PROVE  Sum(T) = f[y] + Sum(T \ {y})
    OBVIOUS
  <2> DEFINE c == Some(T)
  <2>1. c \in T /\ Sum(T) = f[c] + Sum(T \ {c})
    BY <1>2, SomeIn
  <2> HIDE DEF c
  <2>2. CASE c = y
    BY <2>1, <2>2
  <2>3. CASE c # y
    <3> DEFINE rest == Sum((T \ {c}) \ {y})
    <3>1. Sum(T \ {c}) = f[y] + rest
      BY <2>1, <2>3
    <3>2. Sum(T \ {y}) = f[c] + Sum((T \ {y}) \ {c})
      BY <2>1, <2>3
    <3>3. (T \ {c}) \ {y} = (T \ {y}) \ {c}
      OBVIOUS
    <3>4. Sum(T \ {y}) = f[c] + rest
      BY <3>2, <3>3
    <3>5. f[c] \in Int /\ f[y] \in Int /\ rest \in Int
      BY <1>1, <2>1
    <3> HIDE DEF rest
    <3>6. f[c] + (f[y] + rest) = f[y] + (f[c] + rest)
      BY <3>5
    <3> QED
      BY <2>1, <3>1, <3>4, <3>6
  <2> QED
    BY <2>2, <2>3
<1>4. P \in SUBSET (SUBSET S)
  OBVIOUS
<1> HIDE DEF P
<1>5. S \in P
  BY <1>3, <1>4, SetInduction
<1> QED
  BY <1>5 DEF P, Sum

LEMMA SumAdd ==
  ASSUME NEW S, IsFiniteSet(S), NEW x, x \notin S, NEW f, \A y \in S \cup {x} : f[y] \in Int
  PROVE  SumFunctionOnSet(f, S \cup {x}) = f[x] + SumFunctionOnSet(f, S)
<1> DEFINE T == S \cup {x}
<1>1. IsFiniteSet(T)
  BY FS_AddElement
<1>2. T \ {x} = S /\ x \in T
  OBVIOUS
<1> HIDE DEF T
<1>3. \A y \in T : f[y] \in Int
  BY DEF T
<1> QED
  BY <1>1, <1>2, <1>3, SumRemove DEF T

\* only the values at the elements count
LEMMA SumEqual ==
  ASSUME NEW S, IsFiniteSet(S), NEW f, NEW g,
         \A x \in S : f[x] \in Int /\ g[x] = f[x]
  PROVE  SumFunctionOnSet(g, S) = SumFunctionOnSet(f, S)
<1>1. \A x \in S : g[x] \in Int
  OBVIOUS
<1>2. PICK i : SumIter(i, f, S) /\ SumFunctionOnSet(f, S) = i[S]
  BY SumIsIter
<1>3. PICK j : SumIter(j, g, S) /\ SumFunctionOnSet(g, S) = j[S]
  BY <1>1, SumIsIter
<1>4. SumIter(j, f, S)
  <2>1. \A T \in SUBSET S : T # {} => g[Some(T)] = f[Some(T)]
    BY SomeIn
  <2> QED
    BY <1>3, <2>1 DEF SumIter
<1>5. j[S] = i[S]
  BY <1>2, <1>4, SumIterUnique
<1> QED
  BY <1>2, <1>3, <1>5

\* a sum grows with its terms
LEMMA SumMonotone ==
  ASSUME NEW S, IsFiniteSet(S), NEW f, NEW g,
         \A x \in S : f[x] \in Int /\ g[x] \in Int /\ f[x] <= g[x]
  PROVE  SumFunctionOnSet(f, S) <= SumFunctionOnSet(g, S)
<1> DEFINE P == {T \in SUBSET S : SumFunctionOnSet(f, T) <= SumFunctionOnSet(g, T)}
<1>1. \A T \in SUBSET S : (\A V \in SUBSET T : V # T => V \in P) => T \in P
  <2> SUFFICES ASSUME NEW T \in SUBSET S, \A V \in SUBSET T : V # T => V \in P
               PROVE  SumFunctionOnSet(f, T) <= SumFunctionOnSet(g, T)
    OBVIOUS
  <2>1. CASE T = {}
    BY <2>1, SumOfNone
  <2>2. CASE T # {}
    <3> DEFINE R == T \ {Some(T)}
    <3>1. /\ IsFiniteSet(T) /\ IsFiniteSet(R) /\ R \in SUBSET T /\ R # T
          /\ Some(T) \in S
      BY <2>2, FS_Subset, SomeIn
    <3>2. /\ \A x \in T : f[x] \in Int /\ g[x] \in Int
          /\ \A x \in R : f[x] \in Int /\ g[x] \in Int
      OBVIOUS
    <3>3. SumFunctionOnSet(f, T) = f[Some(T)] + SumFunctionOnSet(f, R)
      BY <2>2, <3>1, <3>2, SumOfSome
    <3>4. SumFunctionOnSet(g, T) = g[Some(T)] + SumFunctionOnSet(g, R)
      BY <2>2, <3>1, <3>2, SumOfSome
    <3>5. SumFunctionOnSet(f, R) \in Int /\ SumFunctionOnSet(g, R) \in Int
      BY <3>1, <3>2, SumType
    <3>6. SumFunctionOnSet(f, R) <= SumFunctionOnSet(g, R)
      BY <3>1
    <3>7. f[Some(T)] \in Int /\ g[Some(T)] \in Int /\ f[Some(T)] <= g[Some(T)]
      BY <3>1
    <3> HIDE DEF R
    <3> QED
      BY <3>3, <3>4, <3>5, <3>6, <3>7
  <2> QED
    BY <2>1, <2>2
<1>2. P \in SUBSET (SUBSET S)
  OBVIOUS
<1> HIDE DEF P
<1>3. S \in P
  BY <1>1, <1>2, SetInduction
<1> QED
  BY <1>3 DEF P

\* a sum of natural numbers is one
LEMMA SumNat ==
  ASSUME NEW S, IsFiniteSet(S), NEW f, \A x \in S : f[x] \in Nat
  PROVE  SumFunctionOnSet(f, S) \in Nat
<1> DEFINE P == {T \in SUBSET S : SumFunctionOnSet(f, T) \in Nat}
<1>1. \A T \in SUBSET S : (\A V \in SUBSET T : V # T => V \in P) => T \in P
  <2> SUFFICES ASSUME NEW T \in SUBSET S, \A V \in SUBSET T : V # T => V \in P
               PROVE  SumFunctionOnSet(f, T) \in Nat
    OBVIOUS
  <2>1. CASE T = {}
    BY <2>1, SumOfNone
  <2>2. CASE T # {}
    <3>1. IsFiniteSet(T) /\ Some(T) \in T /\ f[Some(T)] \in Nat /\ \A x \in T : f[x] \in Int
      BY <2>2, FS_Subset, SomeIn
    <3>2. SumFunctionOnSet(f, T) = f[Some(T)] + SumFunctionOnSet(f, T \ {Some(T)})
      BY <2>2, <3>1, SumOfSome
    <3>3. SumFunctionOnSet(f, T \ {Some(T)}) \in Nat
      BY <3>1
    <3> QED
      BY <3>1, <3>2, <3>3
  <2> QED
    BY <2>1, <2>2
<1>2. P \in SUBSET (SUBSET S)
  OBVIOUS
<1> HIDE DEF P
<1>3. S \in P
  BY <1>1, <1>2, SetInduction
<1> QED
  BY <1>3 DEF P

\* a sum over an interval gains its last term
LEMMA SumNext ==
  ASSUME NEW k \in Nat, NEW f, NEW g, \A i \in 1 .. k : f[i] \in Int /\ g[i] = f[i],
         g[k + 1] \in Int
  PROVE  SumFunctionOnSet(g, 1 .. k + 1) = SumFunctionOnSet(f, 1 .. k) + g[k + 1]
<1>1. IsFiniteSet(1 .. k)
  BY FS_Interval
<1>2. 1 .. k + 1 = (1 .. k) \cup {k + 1} /\ k + 1 \notin 1 .. k
  OBVIOUS
<1>3. \A i \in (1 .. k) \cup {k + 1} : g[i] \in Int
  BY <1>2
<1>4. SumFunctionOnSet(g, (1 .. k) \cup {k + 1}) = g[k + 1] + SumFunctionOnSet(g, 1 .. k)
  BY <1>1, <1>2, <1>3, SumAdd
<1>5. SumFunctionOnSet(g, 1 .. k) = SumFunctionOnSet(f, 1 .. k)
  BY <1>1, SumEqual
<1>6. SumFunctionOnSet(f, 1 .. k) \in Int
  BY <1>1, SumType
<1>7. SumFunctionOnSet(g, 1 .. k + 1) = g[k + 1] + SumFunctionOnSet(f, 1 .. k)
  BY <1>2, <1>4, <1>5
<1> QED
  BY <1>6, <1>7

\* the differences of a sequence of numbers add up to the last less the first
LEMMA Telescope ==
  ASSUME NEW n \in Nat, NEW f, NEW g, \A i \in 0 .. n : g[i] \in Int,
         \A i \in 1 .. n : f[i] = g[i] - g[i - 1]
  PROVE  SumFunctionOnSet(f, 1 .. n) = g[n] - g[0]
<1> DEFINE S == {k \in Nat : k <= n => SumFunctionOnSet(f, 1 .. k) = g[k] - g[0]}
<1>1. 0 \in S
  <2>1. 1 .. 0 = {} /\ g[0] \in Int
    OBVIOUS
  <2> QED
    BY <2>1, SumOfNone
<1>2. \A k \in Nat : k \in S => k + 1 \in S
  <2> SUFFICES ASSUME NEW k \in Nat, k + 1 <= n, k \in S
               PROVE  SumFunctionOnSet(f, 1 .. k + 1) = g[k + 1] - g[0]
    OBVIOUS
  <2>1. \A i \in 1 .. k + 1 : i \in 1 .. n /\ i \in 0 .. n /\ i - 1 \in 0 .. n
    OBVIOUS
  <2>2. \A i \in 1 .. k + 1 : f[i] \in Int
    BY <2>1
  <2>3. \A i \in 1 .. k : f[i] \in Int /\ f[i] = f[i]
    BY <2>2
  <2>4. f[k + 1] \in Int /\ f[k + 1] = g[k + 1] - g[k]
    BY <2>1, <2>2
  <2>5. SumFunctionOnSet(f, 1 .. k + 1) = SumFunctionOnSet(f, 1 .. k) + f[k + 1]
    BY <2>3, <2>4, SumNext
  <2>6. SumFunctionOnSet(f, 1 .. k) = g[k] - g[0]
    OBVIOUS
  <2>7. g[k] \in Int /\ g[0] \in Int /\ g[k + 1] \in Int
    BY <2>1
  <2> QED
    BY <2>4, <2>5, <2>6, <2>7
<1>3. Nat \subseteq S
  BY <1>1, <1>2, Induction
<1> QED
  BY <1>3

\* FoldLeft takes the elements of 1 .. k + 1 from the last to the first
LEMMA MaxOfInterval == ASSUME NEW k \in Nat PROVE Max(1 .. k + 1) = k + 1
  BY DEF Max

LEMMA MaxPicks ==
  ASSUME NEW n \in Nat, NEW T \in SUBSET (1 .. n), T # {}
  PROVE  Max(T) \in T /\ \A k \in T : k <= Max(T)
<1> DEFINE Out == {n - i : i \in T}
<1>0. \A i \in T : i \in Int /\ n - i \in Nat
  OBVIOUS
<1>1. Out \subseteq Nat /\ Out # {}
  BY <1>0
<1>2. PICK m \in Out : \A k \in Out : m <= k
  BY <1>1, Least
<1>3. PICK i \in T : m = n - i
  BY <1>2
<1>4. \A j \in T : i >= j
  <2> SUFFICES ASSUME NEW j \in T PROVE i >= j
    OBVIOUS
  <2>1. n - j \in Out
    OBVIOUS
  <2>2. n - i <= n - j
    BY <1>2, <1>3, <2>1
  <2> HIDE DEF Out
  <2> QED
    BY <1>0, <2>2
<1>5. Max(T) \in T /\ \A k \in T : Max(T) >= k
  BY <1>4 DEF Max
<1>6. T \subseteq Int
  OBVIOUS
<1> QED
  BY <1>5, <1>6

\* a sum over some of the indices, of smaller terms, is not the larger one
LEMMA SumLess ==
  ASSUME NEW S, IsFiniteSet(S), NEW R \in SUBSET S, NEW f, NEW g,
         \A x \in S : g[x] \in Nat,
         \A x \in R : f[x] \in Int /\ f[x] <= g[x]
  PROVE  SumFunctionOnSet(f, R) <= SumFunctionOnSet(g, S)
<1> DEFINE P == {T \in SUBSET S : SumFunctionOnSet(f, T \cap R) <= SumFunctionOnSet(g, T)}
<1>1. \A T \in SUBSET S : (\A V \in SUBSET T : V # T => V \in P) => T \in P
  <2> SUFFICES ASSUME NEW T \in SUBSET S, \A V \in SUBSET T : V # T => V \in P
               PROVE  SumFunctionOnSet(f, T \cap R) <= SumFunctionOnSet(g, T)
    OBVIOUS
  <2>1. CASE T = {}
    <3>1. T \cap R = {}
      BY <2>1
    <3> QED
      BY <2>1, <3>1, SumOfNone
  <2>2. CASE T # {}
    <3> PICK x \in T : TRUE
      BY <2>2
    <3> DEFINE U == T \ {x}
               A == SumFunctionOnSet(f, U \cap R)
               B == SumFunctionOnSet(g, U)
    <3>1. IsFiniteSet(T) /\ IsFiniteSet(U) /\ IsFiniteSet(T \cap R) /\ IsFiniteSet(U \cap R)
      <4>1. T \cap R \in SUBSET S /\ U \in SUBSET S /\ U \cap R \in SUBSET S
        OBVIOUS
      <4> QED
        BY <4>1, FS_Subset
    <3>2. /\ \A y \in T : g[y] \in Int
          /\ \A y \in U : g[y] \in Int
          /\ \A y \in T \cap R : f[y] \in Int
          /\ \A y \in U \cap R : f[y] \in Int
      OBVIOUS
    <3>3. SumFunctionOnSet(g, T) = g[x] + B
      BY <3>1, <3>2, SumRemove
    <3>4. A <= B
      OBVIOUS
    <3>5. A \in Int /\ B \in Int /\ g[x] \in Nat
      BY <3>1, <3>2, SumType
    <3>6. CASE x \in R
      <4>1. x \in T \cap R /\ (T \cap R) \ {x} = U \cap R
        BY <3>6
      <4>2. SumFunctionOnSet(f, T \cap R) = f[x] + SumFunctionOnSet(f, (T \cap R) \ {x})
        BY <3>1, <3>2, <4>1, SumRemove
      <4>3. SumFunctionOnSet(f, T \cap R) = f[x] + A
        BY <4>1, <4>2
      <4>4. f[x] \in Int /\ f[x] <= g[x]
        BY <3>6
      <4> HIDE DEF A, B
      <4> QED
        BY <3>3, <3>4, <3>5, <4>3, <4>4
    <3>7. CASE x \notin R
      <4>1. T \cap R = U \cap R
        BY <3>7
      <4>2. SumFunctionOnSet(f, T \cap R) = A
        BY <4>1
      <4> HIDE DEF A, B
      <4> QED
        BY <3>3, <3>4, <3>5, <4>2
    <3> QED
      BY <3>6, <3>7
  <2> QED
    BY <2>1, <2>2
<1>2. P \in SUBSET (SUBSET S)
  OBVIOUS
<1> HIDE DEF P
<1>3. S \in P
  BY <1>1, <1>2, SetInduction
<1>4. S \cap R = R
  OBVIOUS
<1> QED
  BY <1>3, <1>4 DEF P

\* when every term is at most c elements for each element of a set of its own,
\* the sum is at most c for each element of their union
LEMMA SumDisjoint ==
  ASSUME NEW S, IsFiniteSet(S), NEW f, NEW X, NEW c \in Nat,
         \A i \in S : IsFiniteSet(X[i]) /\ f[i] \in Int /\ f[i] <= c * Cardinality(X[i]),
         \A i, j \in S : i # j => X[i] \cap X[j] = {}
  PROVE  /\ IsFiniteSet(UNION {X[i] : i \in S})
         /\ SumFunctionOnSet(f, S) <= c * Cardinality(UNION {X[i] : i \in S})
<1> DEFINE All(T) == UNION {X[i] : i \in T}
           P == {T \in SUBSET S : /\ IsFiniteSet(All(T))
                                  /\ SumFunctionOnSet(f, T) <= c * Cardinality(All(T))}
<1>1. \A T \in SUBSET S : (\A V \in SUBSET T : V # T => V \in P) => T \in P
  <2> SUFFICES ASSUME NEW T \in SUBSET S, \A V \in SUBSET T : V # T => V \in P
               PROVE  T \in P
    OBVIOUS
  <2>1. CASE T = {}
    <3>1. All(T) = {}
      BY <2>1
    <3>2. IsFiniteSet(All(T)) /\ Cardinality(All(T)) = 0 /\ SumFunctionOnSet(f, T) = 0
      BY <2>1, <3>1, FS_EmptySet, SumOfNone
    <3>3. 0 <= c * 0
      OBVIOUS
    <3> QED
      BY <3>2, <3>3
  <2>2. CASE T # {}
    <3> PICK x \in T : TRUE
      BY <2>2
    <3> DEFINE U == T \ {x}
    <3>1. /\ U \in SUBSET T /\ U # T /\ IsFiniteSet(T) /\ IsFiniteSet(U)
          /\ \A y \in T : f[y] \in Int
          /\ \A y \in U : f[y] \in Int
      BY FS_Subset
    <3>2. SumFunctionOnSet(f, T) = f[x] + SumFunctionOnSet(f, U)
      BY <3>1, SumRemove
    <3>3. IsFiniteSet(All(U)) /\ SumFunctionOnSet(f, U) <= c * Cardinality(All(U))
      BY <3>1
    <3>4. SumFunctionOnSet(f, U) \in Int
      BY <3>1, SumType
    <3>5. All(T) = All(U) \cup X[x]
      OBVIOUS
    <3>6. All(U) \cap X[x] = {}
      OBVIOUS
    <3> HIDE DEF All, U
    <3>7. IsFiniteSet(X[x]) /\ f[x] \in Int /\ f[x] <= c * Cardinality(X[x])
      OBVIOUS
    <3>8. /\ IsFiniteSet(All(T))
          /\ Cardinality(All(T)) = Cardinality(All(U)) + Cardinality(X[x]) - Cardinality({})
      BY <3>3, <3>5, <3>6, <3>7, FS_Union
    <3>9. Cardinality({}) = 0 /\ Cardinality(All(U)) \in Nat /\ Cardinality(X[x]) \in Nat
      BY <3>3, <3>7, FS_EmptySet, FS_CardinalityType
    <3>10. c * Cardinality(All(T)) = c * Cardinality(All(U)) + c * Cardinality(X[x])
      BY <3>8, <3>9
    <3>11. c * Cardinality(All(U)) \in Int /\ c * Cardinality(X[x]) \in Int
      BY <3>9
    <3>12. SumFunctionOnSet(f, T) <= c * Cardinality(All(T))
      BY <3>2, <3>3, <3>4, <3>7, <3>10, <3>11
    <3> QED
      BY <3>8, <3>12
  <2> QED
    BY <2>1, <2>2
<1>2. P \in SUBSET (SUBSET S)
  OBVIOUS
<1> HIDE DEF P
<1>3. S \in P
  BY <1>1, <1>2, SetInduction
<1> QED
  BY <1>3 DEF P

-----------------------------------------------------------------------------
(* FoldLeft over a sequence: its iteration, which FoldLeft chooses, is a     *)
(* function h of the sets of indices; what the first k elements come to is  *)
(* h[1 .. k].                                                               *)

IsLeftFold(f, base, step, q) ==
    f = [T \in SUBSET DOMAIN q |-> IF T = {} THEN base
                                   ELSE step[f[T \ {Max(T)}]][q[Max(T)]]]

\* h is one as long as its values are in A
StepsLeft(h, base, step, q, A) ==
    /\ h[{}] = base
    /\ \A T \in SUBSET DOMAIN q :
          T # {} /\ h[T \ {Max(T)}] \in A => h[T] = step[h[T \ {Max(T)}]][q[Max(T)]]

\* there is one, for a step that stays in A
LEMMA LeftExists ==
  ASSUME NEW S, NEW q \in Seq(S), NEW A, NEW base \in A, NEW step \in [A -> [S -> A]]
  PROVE  \E f \in [SUBSET DOMAIN q -> A] : IsLeftFold(f, base, step, q)
<1> DEFINE D == DOMAIN q
           turn == [a \in A |-> [i \in D |-> step[a][q[i]]]]
           pick == [T \in SUBSET D |-> Max(T)]
<1>0. D = 1 .. Len(q) /\ Len(q) \in Nat /\ \A i \in D : q[i] \in S
  OBVIOUS
<1>1. IsFiniteSet(D)
  BY <1>0, FS_Interval
<1>2. \A T \in SUBSET D : T # {} => Max(T) \in T
  BY <1>0, MaxPicks
<1>3. Picks(pick, D)
  BY <1>2 DEF Picks
<1>4. turn \in [A -> [D -> A]]
  BY <1>0
<1> HIDE DEF D
<1>5. \E f \in [SUBSET D -> A] : IsFold(f, base, turn, pick, SUBSET D)
  <2> HIDE DEF turn, pick
  <2> QED
    BY <1>1, <1>3, <1>4, FoldExists, Zenon
<1>6. PICK f \in [SUBSET D -> A] : IsFold(f, base, turn, pick, SUBSET D)
  BY <1>5
<1>7. \A T \in SUBSET D : T # {} =>
         turn[f[T \ {pick[T]}]][pick[T]] = step[f[T \ {Max(T)}]][q[Max(T)]]
  <2> SUFFICES ASSUME NEW T \in SUBSET D, T # {}
               PROVE  turn[f[T \ {pick[T]}]][pick[T]] = step[f[T \ {Max(T)}]][q[Max(T)]]
    OBVIOUS
  <2>1. pick[T] = Max(T) /\ Max(T) \in D /\ f[T \ {Max(T)}] \in A
    BY <1>2
  <2> QED
    BY <2>1
<1>8. f = [T \in SUBSET D |-> IF T = {} THEN base ELSE step[f[T \ {Max(T)}]][q[Max(T)]]]
  <2> HIDE DEF turn, pick
  <2> QED
    BY <1>6, <1>7 DEF IsFold
<1> QED
  BY <1>8 DEF D, IsLeftFold

\* what the first elements come to, one by one
FoldsLeft(h, base, step, q, A) ==
    /\ h[1 .. 0] = base
    /\ \A k \in 0 .. Len(q) : h[1 .. k] \in A
    /\ \A k \in 0 .. Len(q) - 1 : h[1 .. k + 1] = step[h[1 .. k]][q[k + 1]]

LEMMA LeftStep ==
  ASSUME NEW S, NEW q \in Seq(S), NEW A, NEW base \in A, NEW step \in [A -> [S -> A]],
         NEW h, StepsLeft(h, base, step, q, A)
  PROVE  FoldsLeft(h, base, step, q, A)
<1> DEFINE N == {k \in Nat : k <= Len(q) => h[1 .. k] \in A}
<1>0. DOMAIN q = 1 .. Len(q) /\ Len(q) \in Nat /\ \A i \in DOMAIN q : q[i] \in S
  OBVIOUS
<1>1. h[1 .. 0] = base
  <2>1. 1 .. 0 = {}
    OBVIOUS
  <2> QED
    BY <2>1 DEF StepsLeft
<1>2. ASSUME NEW k \in 0 .. Len(q) - 1, h[1 .. k] \in A
      PROVE  h[1 .. k + 1] = step[h[1 .. k]][q[k + 1]] /\ h[1 .. k + 1] \in A
  <2>1. k \in Nat /\ k + 1 \in DOMAIN q
    BY <1>0
  <2>2. Max(1 .. k + 1) = k + 1
    BY <2>1, MaxOfInterval
  <2>3. (1 .. k + 1) \ {k + 1} = 1 .. k /\ 1 .. k + 1 # {}
    <3>1. k + 1 \in 1 .. k + 1
      BY <2>1
    <3>2. \A i \in Int : i \in (1 .. k + 1) \ {k + 1} <=> i \in 1 .. k
      BY <2>1
    <3>3. (1 .. k + 1) \ {k + 1} \subseteq Int /\ 1 .. k \subseteq Int
      BY <2>1
    <3> QED
      BY <3>1, <3>2, <3>3
  <2>4. 1 .. k + 1 \in SUBSET DOMAIN q
    BY <1>0
  <2>5. h[1 .. k + 1] = step[h[1 .. k]][q[k + 1]]
    BY <1>2, <2>2, <2>3, <2>4 DEF StepsLeft
  <2>6. q[k + 1] \in S
    BY <1>0, <2>1
  <2> QED
    BY <1>2, <2>5, <2>6
<1>3. 0 \in N
  BY <1>1
<1>4. \A k \in Nat : k \in N => k + 1 \in N
  <2> SUFFICES ASSUME NEW k \in Nat, k \in N, k + 1 <= Len(q)
               PROVE  h[1 .. k + 1] \in A
    OBVIOUS
  <2>1. k \in 0 .. Len(q) - 1 /\ h[1 .. k] \in A
    BY <1>0
  <2> QED
    BY <1>2, <2>1
<1>5. Nat \subseteq N
  BY <1>3, <1>4, Induction
<1>6. \A k \in 0 .. Len(q) : h[1 .. k] \in A
  BY <1>0, <1>5
<1>7. \A k \in 0 .. Len(q) - 1 : k \in 0 .. Len(q)
  BY <1>0
<1> QED
  BY <1>1, <1>2, <1>6, <1>7 DEF FoldsLeft

-----------------------------------------------------------------------------
(* Sequences of sequences *)

\* the concatenation of the first i of them, for each i
LEMMA FlattenIs ==
  ASSUME NEW A, NEW seqs \in Seq(Seq(A)), seqs # << >>
  PROVE  \E f \in [1 .. Len(seqs) -> Seq(A)] :
            /\ f[1] = seqs[1]
            /\ \A i \in 1 .. Len(seqs) - 1 : f[i + 1] = f[i] \o seqs[i + 1]
            /\ FlattenSeq(seqs) = f[Len(seqs)]
<1> DEFINE Flat(f) == f = [i \in 1 .. Len(seqs) |-> IF i = 1 THEN seqs[i] ELSE f[i - 1] \o seqs[i]]
           Upto(f, m) == \A i \in 1 .. m : f[i] = IF i = 1 THEN seqs[i] ELSE f[i - 1] \o seqs[i]
           S == {m \in Nat : m <= Len(seqs) => \E f \in [1 .. m -> Seq(A)] : Upto(f, m)}
<1>1. Len(seqs) \in Nat /\ Len(seqs) > 0 /\ \A i \in 1 .. Len(seqs) : seqs[i] \in Seq(A)
  OBVIOUS
<1>2. 0 \in S
  <2>1. [i \in 1 .. 0 |-> << >>] \in [1 .. 0 -> Seq(A)] /\ Upto([i \in 1 .. 0 |-> << >>], 0)
    OBVIOUS
  <2> QED
    BY <2>1
<1>3. \A m \in Nat : m \in S => m + 1 \in S
  <2> HIDE DEF Upto
  <2> SUFFICES ASSUME NEW m \in Nat, m \in S, m + 1 <= Len(seqs)
               PROVE  \E f \in [1 .. m + 1 -> Seq(A)] : Upto(f, m + 1)
    OBVIOUS
  <2>1. PICK f \in [1 .. m -> Seq(A)] : Upto(f, m)
    BY <1>1
  <2> DEFINE next == IF m + 1 = 1 THEN seqs[m + 1] ELSE f[m] \o seqs[m + 1]
             g == [i \in 1 .. m + 1 |-> IF i <= m THEN f[i] ELSE next]
  <2>2. next \in Seq(A)
    <3>1. seqs[m + 1] \in Seq(A)
      BY <1>1
    <3>2. m + 1 # 1 => f[m] \in Seq(A)
      BY <2>1
    <3> QED
      BY <3>1, <3>2
  <2> HIDE DEF next
  <2>3. g \in [1 .. m + 1 -> Seq(A)]
    BY <2>1, <2>2
  <2>4. /\ \A i \in 1 .. m : g[i] = f[i]
        /\ g[m + 1] = next
    OBVIOUS
  <2> HIDE DEF g
  <2>5. ASSUME NEW i \in 1 .. m + 1
        PROVE  g[i] = IF i = 1 THEN seqs[i] ELSE g[i - 1] \o seqs[i]
    <3>1. CASE i \in 1 .. m
      <4>1. f[i] = IF i = 1 THEN seqs[i] ELSE f[i - 1] \o seqs[i]
        BY <2>1, <3>1 DEF Upto
      <4>2. i # 1 => i - 1 \in 1 .. m
        BY <3>1
      <4> QED
        BY <2>4, <3>1, <4>1, <4>2
    <3>2. CASE i = m + 1
      <4>1. i # 1 => m \in 1 .. m
        BY <3>2
      <4> QED
        BY <2>4, <3>2, <4>1 DEF next
    <3> QED
      BY <3>1, <3>2
  <2> QED
    BY <2>3, <2>5 DEF Upto
<1>4. Nat \subseteq S
  <2> HIDE DEF S
  <2> QED
    BY <1>2, <1>3, Induction
<1>5. PICK f \in [1 .. Len(seqs) -> Seq(A)] :
         \A i \in 1 .. Len(seqs) : f[i] = IF i = 1 THEN seqs[i] ELSE f[i - 1] \o seqs[i]
  <2>1. Len(seqs) \in S
    BY <1>1, <1>4
  <2> QED
    BY <1>1, <2>1
<1> HIDE DEF S
<1> DEFINE h == CHOOSE k : Flat(k)
<1>6. Flat(f)
  BY <1>5
<1>7. Flat(h)
  <2> HIDE DEF Flat
  <2> QED
    BY <1>6
<1>8. FlattenSeq(seqs) = h[Len(seqs)]
  <2>1. Len(seqs) # 0
    BY <1>1
  <2> QED
    BY <2>1, Zenon DEF FlattenSeq
<1> HIDE DEF h
<1>9. \A i \in 1 .. Len(seqs) : h[i] = IF i = 1 THEN seqs[i] ELSE h[i - 1] \o seqs[i]
  BY <1>7
<1> DEFINE R == {i \in Nat : i + 1 <= Len(seqs) => h[i + 1] = f[i + 1]}
<1>10. 0 \in R
  <2>1. 0 + 1 \in 1 .. Len(seqs) /\ 0 + 1 = 1
    BY <1>1
  <2> QED
    BY <1>5, <1>9, <2>1
<1>11. \A i \in Nat : i \in R => i + 1 \in R
  <2> SUFFICES ASSUME NEW i \in Nat, i \in R, (i + 1) + 1 <= Len(seqs)
               PROVE  h[(i + 1) + 1] = f[(i + 1) + 1]
    OBVIOUS
  <2>1. (i + 1) + 1 \in 1 .. Len(seqs) /\ (i + 1) + 1 # 1 /\ ((i + 1) + 1) - 1 = i + 1
    BY <1>1
  <2>2. h[i + 1] = f[i + 1]
    BY <1>1
  <2> DEFINE k == (i + 1) + 1
  <2>3. k \in 1 .. Len(seqs) /\ k # 1 /\ k - 1 = i + 1
    BY <2>1
  <2> HIDE DEF R, k
  <2>4. h[k] = h[k - 1] \o seqs[k] /\ f[k] = f[k - 1] \o seqs[k]
    BY <1>5, <1>9, <2>3
  <2>5. h[k] = f[k]
    BY <2>2, <2>3, <2>4
  <2> QED
    BY <2>5 DEF k
<1>12. Nat \subseteq R
  <2> HIDE DEF R
  <2> QED
    BY <1>10, <1>11, Induction
<1>13. FlattenSeq(seqs) = f[Len(seqs)]
  <2>1. Len(seqs) - 1 \in Nat /\ (Len(seqs) - 1) + 1 = Len(seqs)
    BY <1>1
  <2>2. Len(seqs) - 1 \in R
    BY <1>12, <2>1
  <2>3. h[(Len(seqs) - 1) + 1] = f[(Len(seqs) - 1) + 1]
    BY <2>1, <2>2
  <2> QED
    BY <1>8, <2>1, <2>3
<1>14. \A i \in 1 .. Len(seqs) - 1 : f[i + 1] = f[i] \o seqs[i + 1]
  <2> SUFFICES ASSUME NEW i \in 1 .. Len(seqs) - 1 PROVE f[i + 1] = f[i] \o seqs[i + 1]
    OBVIOUS
  <2>1. i + 1 \in 1 .. Len(seqs) /\ i + 1 # 1 /\ (i + 1) - 1 = i
    BY <1>1
  <2> QED
    BY <1>5, <2>1
<1>15. f[1] = seqs[1]
  <2>1. 1 \in 1 .. Len(seqs)
    BY <1>1
  <2> QED
    BY <1>5, <2>1
<1> QED
  BY <1>13, <1>14, <1>15

\* the terms of a sum in another order
Reorders(g, f, o, n) ==
    /\ \A i, j \in 1 .. n : i # j => o[i] # o[j]
    /\ \A i \in 1 .. n : f[o[i]] \in Int /\ g[i] = f[o[i]]

ValuesOf(o, n) == {o[i] : i \in 1 .. n}

LEMMA SumReordered ==
  ASSUME NEW n \in Nat, NEW f, NEW g, NEW o, Reorders(g, f, o, n)
  PROVE  SumFunctionOnSet(g, 1 .. n) = SumFunctionOnSet(f, ValuesOf(o, n))
<1> USE DEF Reorders
<1> DEFINE Im(k) == {o[i] : i \in 1 .. k}
           Done(k) == IsFiniteSet(Im(k)) /\ SumFunctionOnSet(g, 1 .. k) = SumFunctionOnSet(f, Im(k))
           S == {k \in Nat : k <= n => Done(k)}
<1>1. 0 \in S
  <2>1. Im(0) = {} /\ 1 .. 0 = {}
    OBVIOUS
  <2> QED
    BY <2>1, SumOfNone, FS_EmptySet
<1>2. \A k \in Nat : k \in S => k + 1 \in S
  <2> SUFFICES ASSUME NEW k \in Nat, k \in S, k + 1 <= n
               PROVE  Done(k + 1)
    <3> HIDE DEF Done, Reorders
    <3> QED
      OBVIOUS
  <2>1. IsFiniteSet(Im(k)) /\ SumFunctionOnSet(g, 1 .. k) = SumFunctionOnSet(f, Im(k))
    OBVIOUS
  <2> DEFINE x == o[k + 1]
  <2>2. /\ Im(k + 1) = Im(k) \cup {x} /\ x \notin Im(k)
        /\ \A y \in Im(k) \cup {x} : f[y] \in Int
    OBVIOUS
  <2> HIDE DEF Im, x
  <2>3. SumFunctionOnSet(f, Im(k + 1)) = f[x] + SumFunctionOnSet(f, Im(k))
    BY <2>1, <2>2, SumAdd
  <2>4. /\ \A i \in 1 .. k : g[i] \in Int /\ g[i] = g[i]
        /\ g[k + 1] \in Int /\ g[k + 1] = f[x]
    BY DEF x
  <2>5. SumFunctionOnSet(g, 1 .. k + 1) = SumFunctionOnSet(g, 1 .. k) + g[k + 1]
    BY <2>4, SumNext
  <2>6. SumFunctionOnSet(g, 1 .. k) \in Int
    <3>1. IsFiniteSet(1 .. k)
      BY FS_Interval
    <3> QED
      BY <2>4, <3>1, SumType
  <2> QED
    BY <2>1, <2>2, <2>3, <2>4, <2>5, <2>6, FS_AddElement
<1>3. Nat \subseteq S
  <2> HIDE DEF S
  <2> QED
    BY <1>1, <1>2, Induction
<1>4. Done(n)
  <2> HIDE DEF Done
  <2> QED
    BY <1>3
<1> QED
  BY <1>4 DEF ValuesOf

\* a common factor
LEMMA SumScaled ==
  ASSUME NEW n \in Nat, NEW c \in Int, NEW f, \A i \in 1 .. n : f[i] \in Int,
         NEW g, \A i \in 1 .. n : g[i] = f[i] * c
  PROVE  SumFunctionOnSet(g, 1 .. n) = SumFunctionOnSet(f, 1 .. n) * c
<1> DEFINE S == {k \in Nat : k <= n => SumFunctionOnSet(g, 1 .. k) = SumFunctionOnSet(f, 1 .. k) * c}
<1>1. 0 \in S
  <2>1. 1 .. 0 = {} /\ 0 * c = 0
    OBVIOUS
  <2> QED
    BY <2>1, SumOfNone
<1>2. \A k \in Nat : k \in S => k + 1 \in S
  <2> SUFFICES ASSUME NEW k \in Nat, k \in S, k + 1 <= n
               PROVE  SumFunctionOnSet(g, 1 .. k + 1) = SumFunctionOnSet(f, 1 .. k + 1) * c
    OBVIOUS
  <2>1. SumFunctionOnSet(g, 1 .. k) = SumFunctionOnSet(f, 1 .. k) * c
    OBVIOUS
  <2>2. /\ \A i \in 1 .. k : f[i] \in Int /\ f[i] = f[i] /\ g[i] \in Int /\ g[i] = g[i]
        /\ f[k + 1] \in Int /\ g[k + 1] = f[k + 1] * c /\ g[k + 1] \in Int
    OBVIOUS
  <2>3. SumFunctionOnSet(g, 1 .. k + 1) = SumFunctionOnSet(g, 1 .. k) + g[k + 1]
    BY <2>2, SumNext
  <2>4. SumFunctionOnSet(f, 1 .. k + 1) = SumFunctionOnSet(f, 1 .. k) + f[k + 1]
    BY <2>2, SumNext
  <2>5. SumFunctionOnSet(f, 1 .. k) \in Int
    <3>1. IsFiniteSet(1 .. k)
      BY FS_Interval
    <3> QED
      BY <2>2, <3>1, SumType
  <2>6. \A a, b \in Int : a * c + b * c = (a + b) * c
    OBVIOUS
  <2> QED
    BY <2>1, <2>2, <2>3, <2>4, <2>5, <2>6
<1>3. Nat \subseteq S
  <2> HIDE DEF S
  <2> QED
    BY <1>1, <1>2, Induction
<1> QED
  BY <1>3
=============================================================================
