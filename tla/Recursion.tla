------------------------------ MODULE Recursion ------------------------------
(***************************************************************************)
(* What the proofs about chains of clusters, searches along them and texts *)
(* need of recursive definitions: induction over the natural numbers, the  *)
(* existence of a function defined by recursion on them, and a bound after *)
(* which a growing set stays as it is.                                     *)
(*                                                                         *)
(* The induction theorems of the library take the induction hypothesis as  *)
(* an operator.  Here it is the set of the numbers it is true of, so that  *)
(* the lemmas can be cited with BY; what they assume of functions is named *)
(* by an operator for the same reason.                                     *)
(***************************************************************************)
EXTENDS Integers, FiniteSetsExt, FiniteSetTheorems, WellFoundedInduction, TLAPS

\* Every non-empty set of natural numbers has a least element.
LEMMA LeastNatural ==
  ASSUME NEW S, S \subseteq Nat, S # {}
  PROVE  \E m \in S : \A k \in S : m <= k
<1> DEFINE R == OpToRel(<, Nat)
<1>1. IsWellFoundedOn(R, Nat)
  BY NatLessThanWellFounded
<1>2. \A x, y \in Nat : x < y => <<x, y>> \in R
  BY DEF OpToRel
<1> HIDE DEF R
<1>3. PICK m \in S : \A k \in S : ~(<<k, m>> \in R)
  BY <1>1, WFMin
<1>4. ASSUME NEW k \in S PROVE m <= k
  <2>1. ~(k < m)
    BY <1>2, <1>3
  <2> QED BY <2>1
<1> QED BY <1>4

\* Induction: a set that has 0 and the successors of its numbers has all numbers.
LEMMA Induction ==
  ASSUME NEW S, 0 \in S, \A n \in Nat : n \in S => n + 1 \in S
  PROVE  Nat \subseteq S
<1> SUFFICES ASSUME ~(Nat \subseteq S) PROVE FALSE
  OBVIOUS
<1> DEFINE T == Nat \ S
<1>1. PICK m \in T : \A k \in T : m <= k
  <2>1. T \subseteq Nat /\ T # {} OBVIOUS
  <2> HIDE DEF T
  <2> QED BY <2>1, LeastNatural
<1>2. m # 0 /\ m \in Nat
  OBVIOUS
<1>3. m - 1 \in Nat /\ m - 1 \notin T
  BY <1>1, <1>2
<1> QED BY <1>2, <1>3

-----------------------------------------------------------------------------
\* f starts with base, and step[n] leads from its value at n to that at n + 1.
IsStep(step, V) == step \in [Nat -> [V -> V]]

Iterates(f, V, base, step) ==
    /\ f \in [Nat -> V]
    /\ f[0] = base
    /\ \A n \in Nat : f[n + 1] = step[n][f[n]]

\* Recursion: such a function exists, whatever the base and the steps are.
LEMMA Iteration ==
  ASSUME NEW V, NEW base, NEW step, base \in V, IsStep(step, V)
  PROVE  \E f : Iterates(f, V, base, step)
<1> USE DEF IsStep
<1> DEFINE Upto(n) == {g \in [0 .. n -> V] :
                          /\ g[0] = base
                          /\ \A i \in 0 .. n - 1 : g[i + 1] = step[i][g[i]]}
<1>1. \A n \in Nat : Upto(n) # {}
  <2> DEFINE S == {n \in Nat : Upto(n) # {}}
  <2>1. 0 \in S
    <3>1. [i \in 0 .. 0 |-> base] \in Upto(0)
      OBVIOUS
    <3> QED BY <3>1
  <2>2. ASSUME NEW n \in Nat, n \in S
        PROVE  n + 1 \in S
    <3>1. PICK g \in Upto(n) : TRUE
      BY <2>2
    <3> DEFINE h == [i \in 0 .. n + 1 |-> IF i = n + 1 THEN step[n][g[n]] ELSE g[i]]
    <3>0. g \in [0 .. n -> V] /\ g[0] = base /\ \A i \in 0 .. n - 1 : g[i + 1] = step[i][g[i]]
      BY <3>1
    <3>2. g[n] \in V /\ step[n] \in [V -> V] /\ step[n][g[n]] \in V
      BY <3>0
    <3>3a. ASSUME NEW i \in 0 .. n + 1 PROVE h[i] \in V
      BY <3>0, <3>2
    <3>3. h \in [0 .. n + 1 -> V] /\ h[0] = base
      BY <3>0, <3>3a
    <3>4. ASSUME NEW i \in 0 .. n + 1 - 1
          PROVE  h[i + 1] = step[i][h[i]]
      <4>1. CASE i = n
        BY <4>1
      <4>2. CASE i # n
        BY <4>2, <3>0
      <4> QED BY <4>1, <4>2
    <3>5. h \in Upto(n + 1)
      BY <3>3, <3>4
    <3> QED BY <3>5
  <2> HIDE DEF S
  <2>3. Nat \subseteq S
    BY <2>1, <2>2, Induction
  <2> QED BY <2>3 DEF S
<1>2. \A n \in Nat : \A g, h \in Upto(n) : g[n] = h[n]
  <2> DEFINE S == {n \in Nat : \A g, h \in Upto(n) : g[n] = h[n]}
  <2>1. 0 \in S
    OBVIOUS
  <2>2. ASSUME NEW n \in Nat, n \in S
        PROVE  n + 1 \in S
    <3> SUFFICES ASSUME NEW g \in Upto(n + 1), NEW h \in Upto(n + 1)
                 PROVE  g[n + 1] = h[n + 1]
      OBVIOUS
    <3> DEFINE gg == [i \in 0 .. n |-> g[i]]
               hh == [i \in 0 .. n |-> h[i]]
    <3>1. gg \in Upto(n) /\ hh \in Upto(n)
      OBVIOUS
    <3>2. gg[n] = hh[n]
      BY <2>2, <3>1
    <3>3. g[n] = h[n]
      BY <3>2
    <3> QED BY <3>3
  <2> HIDE DEF S
  <2>3. Nat \subseteq S
    BY <2>1, <2>2, Induction
  <2> QED BY <2>3 DEF S
<1> DEFINE at(n) == CHOOSE g \in Upto(n) : TRUE
           f == [n \in Nat |-> at(n)[n]]
<1>3. ASSUME NEW n \in Nat
      PROVE  /\ at(n) \in [0 .. n -> V] /\ at(n)[0] = base
             /\ \A i \in 0 .. n - 1 : at(n)[i + 1] = step[i][at(n)[i]]
  <2>1. at(n) \in Upto(n)
    BY <1>1
  <2> QED BY <2>1
<1>4. f \in [Nat -> V] /\ f[0] = base
  <2> HIDE DEF at
  <2> QED BY <1>3
<1>5. ASSUME NEW n \in Nat
      PROVE  f[n + 1] = step[n][f[n]]
  <2> HIDE DEF at
  <2>0. PICK h : h = at(n + 1)
    OBVIOUS
  <2>1. /\ h \in [0 .. n + 1 -> V] /\ h[0] = base
        /\ \A i \in 0 .. n : h[i + 1] = step[i][h[i]]
    BY <2>0, <1>3
  <2> DEFINE hh == [i \in 0 .. n |-> h[i]]
  <2>2. hh \in Upto(n)
    BY <2>1
  <2>3. at(n) \in Upto(n)
    BY <1>3
  <2>4. hh[n] = at(n)[n]
    BY <2>2, <2>3, <1>2
  <2>5. h[n] = f[n] /\ h[n + 1] = f[n + 1]
    BY <2>0, <2>4
  <2> QED BY <2>1, <2>5
<1>6. Iterates(f, V, base, step)
  BY <1>4, <1>5 DEF Iterates
<1> QED BY <1>6

-----------------------------------------------------------------------------
\* r grows inside S, and once it has not grown it never grows again.
GrowsIn(r, S) ==
    \A n \in Nat :
        /\ r[n] \subseteq S /\ r[n] \subseteq r[n + 1]
        /\ r[n + 1] = r[n] => r[n + 2] = r[n + 1]

\* A set that grows inside a finite one is complete after as many steps as that
\* one has elements.
LEMMA GrowthStops ==
  ASSUME NEW S, NEW r, IsFiniteSet(S), GrowsIn(r, S), NEW n \in Nat, Cardinality(S) <= n
  PROVE  r[n + 1] = r[n]
<1> DEFINE T == {k \in Nat : r[k + 1] = r[k] \/ Cardinality(r[k]) >= k}
<1>1. \A k \in Nat : IsFiniteSet(r[k]) /\ Cardinality(r[k]) \in Nat
  BY FS_Subset, FS_CardinalityType DEF GrowsIn
<1>2. 0 \in T
  BY <1>1
<1>3. ASSUME NEW k \in Nat, k \in T
      PROVE  k + 1 \in T
  <2>1. CASE r[k + 1] = r[k]
    <3>1. r[k + 2] = r[k + 1]
      BY <2>1 DEF GrowsIn
    <3> QED BY <3>1
  <2>2. CASE r[k + 1] # r[k]
    <3>1. r[k] \subseteq r[k + 1]
      BY DEF GrowsIn
    <3>2. Cardinality(r[k]) < Cardinality(r[k + 1])
      <4>1. k + 1 \in Nat
        OBVIOUS
      <4>2. IsFiniteSet(r[k + 1])
        BY <4>1, <1>1
      <4>3. Cardinality(r[k]) <= Cardinality(r[k + 1])
        BY <4>2, <3>1, FS_Subset
      <4>4. Cardinality(r[k]) # Cardinality(r[k + 1])
        BY <4>2, <3>1, <2>2, FS_Subset
      <4> QED BY <4>1, <4>3, <4>4, <1>1
    <3>3. Cardinality(r[k]) >= k
      BY <1>3, <2>2
    <3> QED BY <3>2, <3>3, <1>1
  <2> QED BY <2>1, <2>2
<1> HIDE DEF T
<1>4. n \in T
  BY <1>2, <1>3, Induction
<1>5. ASSUME Cardinality(r[n]) >= n
      PROVE  r[n + 1] = r[n]
  <2>1. Cardinality(r[n]) = Cardinality(S)
    <3>1. Cardinality(r[n]) <= Cardinality(S)
      BY FS_Subset DEF GrowsIn
    <3> QED BY <3>1, <1>5, <1>1, FS_CardinalityType
  <2>2. r[n] = S
    BY <2>1, FS_Subset DEF GrowsIn
  <2>3. n + 1 \in Nat
    OBVIOUS
  <2>4. r[n] \subseteq r[n + 1] /\ r[n + 1] \subseteq S
    BY <2>3 DEF GrowsIn
  <2> QED BY <2>2, <2>4
<1> QED BY <1>4, <1>5 DEF T

-----------------------------------------------------------------------------
(* Folds: FoldLeft goes through the places of a sequence by taking the      *)
(* greatest away, with a function on the sets of places.                    *)

LEMMA MaxOfSome ==
  ASSUME NEW n \in Nat, NEW s \in SUBSET (1 .. n), s # {}
  PROVE  Max(s) \in s
<1> DEFINE T == {k \in Nat : n - k \in s}
<1>1. T # {}
  <2>1. PICK x \in s : TRUE
    OBVIOUS
  <2>2. n - x \in Nat /\ n - (n - x) = x
    BY <2>1
  <2> QED BY <2>2
<1>2. PICK m \in T : \A k \in T : m <= k
  <2>1. T \subseteq Nat
    OBVIOUS
  <2> HIDE DEF T
  <2> QED BY <1>1, <2>1, LeastNatural
<1>3. ASSUME NEW y \in s PROVE n - m >= y
  <2>1. y \in 1 .. n
    OBVIOUS
  <2>2. n - y \in Nat /\ n - (n - y) = y
    BY <2>1
  <2>3. n - y \in T
    BY <2>2
  <2>4. m <= n - y /\ m \in Nat
    BY <1>2, <2>3
  <2> QED BY <2>1, <2>4
<1>4. n - m \in s
  BY <1>2
<1> QED BY <1>3, <1>4 DEF Max

LEMMA MaxUpto ==
  ASSUME NEW n \in Nat
  PROVE  Max(1 .. n + 1) = n + 1 /\ (1 .. n + 1) \ {n + 1} = 1 .. n
<1>1. n + 1 \in 1 .. n + 1 /\ \A y \in 1 .. n + 1 : n + 1 >= y
  OBVIOUS
<1>2. Max(1 .. n + 1) \in 1 .. n + 1 /\ \A y \in 1 .. n + 1 : Max(1 .. n + 1) >= y
  BY <1>1 DEF Max
<1>3. Max(1 .. n + 1) = n + 1
  BY <1>1, <1>2
<1> QED BY <1>3

FoldsOver(g, n, V, base, step) ==
    /\ g \in [SUBSET (1 .. n) -> V]
    /\ g[{}] = base
    /\ \A s \in SUBSET (1 .. n) : s # {} => g[s] = step[Max(s)][g[s \ {Max(s)}]]

\* Such a function exists.
LEMMA Folding ==
  ASSUME NEW n \in Nat, NEW V, NEW base, NEW step, base \in V, IsStep(step, V)
  PROVE  \E g : FoldsOver(g, n, V, base, step)
<1> DEFINE P == SUBSET (1 .. n)
           W == [P -> V]
           next(h) == [s \in P |-> IF s = {} THEN base ELSE step[Max(s)][h[s \ {Max(s)}]]]
           start == [s \in P |-> base]
           steps == [k \in Nat |-> [h \in W |-> next(h)]]
<1>1. ASSUME NEW s \in P, s # {}
      PROVE  Max(s) \in Nat /\ s \ {Max(s)} \in P
  <2>1. Max(s) \in s
    BY <1>1, MaxOfSome
  <2>2. \A x \in s : x \in 1 .. n /\ x \in Nat
    OBVIOUS
  <2>3. s \ {Max(s)} \subseteq 1 .. n
    BY <2>2
  <2> QED BY <2>1, <2>2, <2>3
<1>2. ASSUME NEW h \in W PROVE next(h) \in W
  <2>1. ASSUME NEW s \in P PROVE next(h)[s] \in V
    <3>1. CASE s = {}
      BY <3>1
    <3>2. CASE s # {}
      <4>1. Max(s) \in Nat /\ h[s \ {Max(s)}] \in V
        BY <1>1, <3>2
      <4>2. step[Max(s)][h[s \ {Max(s)}]] \in V
        BY <4>1 DEF IsStep
      <4>3. next(h)[s] = step[Max(s)][h[s \ {Max(s)}]]
        BY <3>2
      <4> QED BY <4>2, <4>3
    <3> QED BY <3>1, <3>2
  <2> QED BY <2>1
<1>3. PICK r : Iterates(r, W, start, steps)
  <2>1. IsStep(steps, W)
    <3> HIDE DEF W, next
    <3> QED BY <1>2 DEF IsStep
  <2>2. start \in W
    OBVIOUS
  <2> HIDE DEF W, start, steps
  <2> QED BY <2>1, <2>2, Iteration
<1>4. ASSUME NEW k \in Nat PROVE r[k] \in W /\ r[k + 1] = next(r[k])
  <2> HIDE DEF W, next
  <2> QED BY <1>3 DEF Iterates
<1>5. r[0] = start
  BY <1>3 DEF Iterates
<1>6. ASSUME NEW s \in P
      PROVE  IsFiniteSet(s) /\ Cardinality(s) \in Nat /\ Cardinality(s) <= n
  <2>1. IsFiniteSet(1 .. n) /\ Cardinality(1 .. n) = n
    BY FS_Interval
  <2> QED BY <2>1, FS_Subset, FS_CardinalityType
<1> DEFINE T == {k \in Nat : \A s \in P : Cardinality(s) <= k => r[k + 1][s] = r[k][s]}
<1>7. 0 \in T
  <2> SUFFICES ASSUME NEW s \in P, Cardinality(s) <= 0
               PROVE  r[0 + 1][s] = r[0][s]
    OBVIOUS
  <2>1. s = {}
    BY <1>6, FS_EmptySet
  <2>2. r[0 + 1] = next(r[0])
    <3> HIDE DEF next
    <3> QED BY <1>4
  <2>3. next(r[0])[s] = base /\ start[s] = base
    BY <2>1
  <2> HIDE DEF next, start
  <2> QED BY <1>5, <2>2, <2>3
<1>8. ASSUME NEW k \in Nat, k \in T PROVE k + 1 \in T
  <2> SUFFICES ASSUME NEW s \in P, Cardinality(s) <= k + 1
               PROVE  r[(k + 1) + 1][s] = r[k + 1][s]
    <3> HIDE DEF P, next
    <3> QED OBVIOUS
  <2>1. r[(k + 1) + 1] = next(r[k + 1]) /\ r[k + 1] = next(r[k])
    <3> HIDE DEF next
    <3> QED BY <1>4
  <2>2. CASE s = {}
    <3>1. \A h : next(h)[s] = base
      BY <2>2
    <3> HIDE DEF next
    <3> QED BY <2>1, <3>1
  <2>3. CASE s # {}
    <3>1. Max(s) \in s /\ s \ {Max(s)} \in P
      BY <2>3, <1>1, MaxOfSome
    <3>2. Cardinality(s \ {Max(s)}) <= k
      BY <1>6, <3>1, FS_RemoveElement
    <3>3. r[k + 1][s \ {Max(s)}] = r[k][s \ {Max(s)}]
      BY <1>8, <3>1, <3>2
    <3>4. \A h : next(h)[s] = step[Max(s)][h[s \ {Max(s)}]]
      BY <2>3
    <3> HIDE DEF next
    <3> QED BY <2>1, <3>3, <3>4
  <2> QED BY <2>2, <2>3
<1> HIDE DEF T
<1>9. n \in T
  BY <1>7, <1>8, Induction
<1>10. \A s \in P : r[n + 1][s] = r[n][s]
  BY <1>9, <1>6 DEF T
<1>11. ASSUME NEW s \in P PROVE r[n][s] = next(r[n])[s]
  <2> HIDE DEF next, P
  <2> QED BY <1>4, <1>10
<1>12. r[n] \in W
  BY <1>4
<1>13. FoldsOver(r[n], n, V, base, step)
  <2>1. ASSUME NEW g, g \in W, \A s \in P : g[s] = next(g)[s]
        PROVE  FoldsOver(g, n, V, base, step)
    <3>1. {} \in P
      OBVIOUS
    <3>2. g[{}] = base
      BY <2>1, <3>1
    <3>3. ASSUME NEW s \in P, s # {}
          PROVE  g[s] = step[Max(s)][g[s \ {Max(s)}]]
      BY <2>1, <3>3
    <3> QED BY <2>1, <3>2, <3>3 DEF FoldsOver
  <2> HIDE DEF next, W, P
  <2> QED BY <1>11, <1>12, <2>1
<1> QED BY <1>13
-----------------------------------------------------------------------------
(* The values that f leads to from base, one after the other, whatever they *)
(* are.                                                                     *)

OrbitOf(r, f, base) == r = [n \in Nat |-> IF n = 0 THEN base ELSE f[r[n - 1]]]

LEMMA Orbit ==
  ASSUME NEW f, NEW base
  PROVE  \E r : OrbitOf(r, f, base)
<1> DEFINE Upto(g, n) == g = [i \in 0 .. n |-> IF i = 0 THEN base ELSE f[g[i - 1]]]
<1>0. ASSUME NEW n \in Nat, NEW g, Upto(g, n)
      PROVE  /\ g[0] = base
             /\ \A i \in 0 .. n : i # 0 => g[i] = f[g[i - 1]]
  <2>1. PICK e : e = [i \in 0 .. n |-> IF i = 0 THEN base ELSE f[g[i - 1]]]
    OBVIOUS
  <2>2. g = e
    BY <1>0, <2>1
  <2>3. \A i \in 0 .. n : e[i] = IF i = 0 THEN base ELSE f[g[i - 1]]
    BY <2>1
  <2>4. 0 \in 0 .. n
    OBVIOUS
  <2> HIDE DEF Upto
  <2> QED BY <2>2, <2>3, <2>4
<1>1. \A n \in Nat : \E g : Upto(g, n)
  <2> DEFINE S == {n \in Nat : \E g : Upto(g, n)}
  <2>1. 0 \in S
    <3> DEFINE g == [i \in 0 .. 0 |-> base]
    <3>1. g = [i \in 0 .. 0 |-> IF i = 0 THEN base ELSE f[g[i - 1]]]
      OBVIOUS
    <3> QED BY <3>1
  <2>2. ASSUME NEW n \in Nat, n \in S
        PROVE  n + 1 \in S
    <3>1. PICK g : Upto(g, n)
      BY <2>2
    <3> DEFINE h == [i \in 0 .. n + 1 |-> IF i = n + 1 THEN f[g[n]] ELSE g[i]]
    <3>2. ASSUME NEW i \in 0 .. n + 1
          PROVE  h[i] = IF i = 0 THEN base ELSE f[h[i - 1]]
      <4>1. g[0] = base /\ \A j \in 0 .. n : j # 0 => g[j] = f[g[j - 1]]
        BY <3>1, <1>0
      <4>2. CASE i = n + 1
        <5>1. i # 0 /\ i - 1 = n /\ n \in 0 .. n + 1 /\ n # n + 1
          BY <4>2
        <5>2. h[i] = f[g[n]] /\ h[i - 1] = g[n]
          BY <4>2, <5>1
        <5> QED BY <5>1, <5>2
      <4>3. CASE i # n + 1 /\ i # 0
        <5>1. i \in 0 .. n /\ i - 1 \in 0 .. n + 1 /\ i - 1 # n + 1
          BY <4>3
        <5>2. h[i] = g[i] /\ h[i - 1] = g[i - 1]
          BY <4>3, <5>1
        <5> QED BY <4>1, <4>3, <5>1, <5>2
      <4>4. CASE i = 0
        BY <4>1, <4>4
      <4> QED BY <4>2, <4>3, <4>4
    <3>3. h = [i \in 0 .. n + 1 |-> IF i = 0 THEN base ELSE f[h[i - 1]]]
      <4>1. h = [i \in 0 .. n + 1 |-> h[i]]
        OBVIOUS
      <4> HIDE DEF h
      <4> QED BY <3>2, <4>1
    <3> HIDE DEF h
    <3>4. \E g2 : Upto(g2, n + 1)
      BY <3>3
    <3> QED BY <3>4
  <2> HIDE DEF S
  <2>3. Nat \subseteq S
    BY <2>1, <2>2, Induction
  <2> QED BY <2>3 DEF S
<1>2. ASSUME NEW n \in Nat, NEW g, NEW h, Upto(g, n + 1), Upto(h, n)
      PROVE  g[n] = h[n]
  <2> DEFINE S == {k \in Nat : k <= n => g[k] = h[k]}
  <2>1. /\ g[0] = base /\ \A i \in 0 .. n + 1 : i # 0 => g[i] = f[g[i - 1]]
        /\ h[0] = base /\ \A i \in 0 .. n : i # 0 => h[i] = f[h[i - 1]]
    <3>1. n + 1 \in Nat
      OBVIOUS
    <3> HIDE DEF Upto
    <3> QED BY <1>0, <1>2, <3>1
  <2>2. 0 \in S
    BY <2>1
  <2>3. ASSUME NEW k \in Nat, k \in S
        PROVE  k + 1 \in S
    <3> SUFFICES ASSUME k + 1 <= n PROVE g[k + 1] = h[k + 1]
      OBVIOUS
    <3>1. k + 1 \in 0 .. n /\ k + 1 \in 0 .. n + 1 /\ k + 1 # 0 /\ (k + 1) - 1 = k /\ k <= n
      OBVIOUS
    <3>2. g[k] = h[k]
      BY <2>3, <3>1
    <3> QED BY <2>1, <3>1, <3>2
  <2> HIDE DEF S
  <2>4. Nat \subseteq S
    BY <2>2, <2>3, Induction
  <2> QED BY <2>4 DEF S
<1> DEFINE at(n) == CHOOSE g : Upto(g, n)
           r == [n \in Nat |-> at(n)[n]]
<1>3. ASSUME NEW n \in Nat PROVE Upto(at(n), n)
  <2> HIDE DEF Upto
  <2> QED BY <1>1
<1>4. ASSUME NEW n \in Nat PROVE r[n] = IF n = 0 THEN base ELSE f[r[n - 1]]
  <2>1. /\ at(n)[0] = base /\ \A i \in 0 .. n : i # 0 => at(n)[i] = f[at(n)[i - 1]]
    <3> HIDE DEF Upto, at
    <3> QED BY <1>0, <1>3
  <2>2. r[n] = at(n)[n]
    OBVIOUS
  <2>3. CASE n # 0
    <3>1. n - 1 \in Nat /\ (n - 1) + 1 = n /\ n \in 0 .. n
      BY <2>3
    <3>2. at(n)[n - 1] = at(n - 1)[n - 1]
      <4> HIDE DEF Upto, at
      <4> QED BY <1>2, <1>3, <3>1
    <3>3. r[n - 1] = at(n - 1)[n - 1]
      BY <3>1
    <3> HIDE DEF at, r
    <3> QED BY <2>1, <2>2, <2>3, <3>1, <3>2, <3>3
  <2> HIDE DEF at, r
  <2> QED BY <2>1, <2>2, <2>3
<1>5. r = [n \in Nat |-> r[n]]
  OBVIOUS
<1> HIDE DEF r
<1>6. OrbitOf(r, f, base)
  BY <1>4, <1>5 DEF OrbitOf
<1> QED BY <1>6
=============================================================================
