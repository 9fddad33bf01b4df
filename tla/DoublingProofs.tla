--------------------------- MODULE DoublingProofs ----------------------------
(***************************************************************************)
(* The equations of Pow2, and what a delay that doubles below a cap does.  *)
(*                                                                         *)
(* Pow2 is a recursive function, a CHOOSE: that there is a function with   *)
(* its equations is proved here, by induction in the form of the least     *)
(* number principle.                                                       *)
(***************************************************************************)
EXTENDS Doubling, NaturalsInduction, WellFoundedInduction, TLAPS

\* The first n + 1 values of Pow2, as functions on 0 .. n.
FirstPowers(n) == {g \in [0 .. n -> Nat] : g[0] = 1 /\ \A i \in 1 .. n : g[i] = 2 * g[i - 1]}

-----------------------------------------------------------------------------
\* A set of naturals that is not empty has a least element.
LEMMA LeastNumber ==
    ASSUME NEW T \in SUBSET Nat, T # {}
    PROVE  \E n \in T : \A m \in T : n <= m
<1> DEFINE R == OpToRel(<, Nat)
<1>1. IsWellFoundedOn(R, Nat)
  BY NatLessThanWellFounded
<1>2. PICK n \in T : \A m \in T : ~(<<m, n>> \in R)
  BY <1>1, WFMin
<1>3. \A m \in T : ~(m < n)
  BY <1>2 DEF OpToRel
<1> QED
  BY <1>3

\* The prefixes exist, ...
LEMMA PrefixExists ==
    ASSUME NEW n \in Nat
    PROVE  FirstPowers(n) # {}
<1> DEFINE T == {k \in Nat : FirstPowers(k) = {}}
<1>1. SUFFICES ASSUME T # {} PROVE FALSE
  OBVIOUS
<1>2. PICK k \in T : \A m \in T : k <= m
  BY <1>1, LeastNumber
<1>3. k # 0
  <2>1. [i \in 0 .. 0 |-> 1] \in FirstPowers(0)
    BY DEF FirstPowers
  <2> QED
    BY <2>1
<1>4. PICK g \in FirstPowers(k - 1) : TRUE
  <2>1. k - 1 \in Nat /\ k - 1 \notin T
    BY <1>2, <1>3
  <2> QED
    BY <2>1
<1> DEFINE h == [i \in 0 .. k |-> IF i = k THEN 2 * g[k - 1] ELSE g[i]]
<1>5. h \in FirstPowers(k)
  <2>1. k \in Nat \ {0} /\ g \in [0 .. k - 1 -> Nat] /\ g[0] = 1
    BY <1>3, <1>4 DEF FirstPowers
  <2>2. h \in [0 .. k -> Nat] /\ h[0] = 1
    BY <2>1
  <2>3. ASSUME NEW i \in 1 .. k PROVE h[i] = 2 * h[i - 1]
    BY <1>4, <2>1 DEF FirstPowers
  <2> QED
    BY <2>2, <2>3 DEF FirstPowers
<1> QED
  BY <1>5

\* ... and agree.
LEMMA PrefixesAgree ==
    ASSUME NEW m \in Nat, NEW n \in Nat, NEW g \in FirstPowers(m), NEW h \in FirstPowers(n),
           NEW i \in Nat, i <= m, i <= n
    PROVE  g[i] = h[i]
<1> DEFINE T == {k \in Nat : k <= m /\ k <= n /\ g[k] # h[k]}
<1>1. SUFFICES ASSUME T # {} PROVE FALSE
  OBVIOUS
<1>2. PICK k \in T : \A l \in T : k <= l
  BY <1>1, LeastNumber
<1>3. k # 0
  BY DEF FirstPowers
<1>4. k - 1 \in Nat /\ k - 1 \notin T
  BY <1>2, <1>3
<1>5. g[k - 1] = h[k - 1]
  BY <1>4
<1>6. g[k] = 2 * g[k - 1] /\ h[k] = 2 * h[k - 1]
  BY <1>3 DEF FirstPowers
<1> QED
  BY <1>5, <1>6

\* Pow2 satisfies its equations, and its values are positive naturals.
LEMMA Pow2Def ==
    /\ Pow2[0] = 1
    /\ \A n \in Nat : Pow2[n + 1] = 2 * Pow2[n]
    /\ \A n \in Nat : Pow2[n] \in Nat \ {0}
<1> DEFINE g(n) == CHOOSE g \in FirstPowers(n) : TRUE
           f == [n \in Nat |-> g(n)[n]]
           Eq(p) == p = [n \in Nat |-> IF n = 0 THEN 1 ELSE 2 * p[n - 1]]
<1>1. \A n \in Nat : g(n) \in FirstPowers(n)
  BY PrefixExists
<1>2. Eq(f)
  <2>1. ASSUME NEW n \in Nat PROVE f[n] = IF n = 0 THEN 1 ELSE 2 * f[n - 1]
    <3>1. CASE n = 0
      BY <1>1, <3>1 DEF FirstPowers
    <3>2. CASE n # 0
      <4>1. n - 1 \in Nat /\ n \in 1 .. n
        BY <3>2
      <4>2. g(n)[n] = 2 * g(n)[n - 1]
        BY <1>1, <4>1 DEF FirstPowers
      <4>3. g(n)[n - 1] = g(n - 1)[n - 1]
        <5>1. g(n) \in FirstPowers(n) /\ g(n - 1) \in FirstPowers(n - 1)
          BY <1>1, <4>1
        <5> HIDE DEF g
        <5> QED
          BY <4>1, <5>1, PrefixesAgree
      <4>4. f[n] = g(n)[n] /\ f[n - 1] = g(n - 1)[n - 1]
        BY <4>1
      <4> HIDE DEF f, g
      <4> QED
        BY <3>2, <4>2, <4>3, <4>4
    <3> QED
      BY <3>1, <3>2
  <2>2. f = [n \in Nat |-> f[n]]
    OBVIOUS
  <2> HIDE DEF f
  <2>3. [n \in Nat |-> f[n]] = [n \in Nat |-> IF n = 0 THEN 1 ELSE 2 * f[n - 1]]
    BY <2>1
  <2> QED
    BY <2>2, <2>3
<1>3. Eq(Pow2)
  <2>1. Pow2 = CHOOSE p : Eq(p)
    BY DEF Pow2
  <2> HIDE DEF Eq, f
  <2> QED
    BY <1>2, <2>1
<1>4. /\ Pow2[0] = 1
      /\ \A n \in Nat : Pow2[n + 1] = 2 * Pow2[n]
  <2> DEFINE q == Pow2
  <2>1. q = [n \in Nat |-> IF n = 0 THEN 1 ELSE 2 * q[n - 1]]
    BY <1>3
  <2> HIDE DEF q
  <2>2. \A n \in Nat : q[n] = IF n = 0 THEN 1 ELSE 2 * q[n - 1]
    BY <2>1
  <2>3. q[0] = 1 /\ \A n \in Nat : q[n + 1] = 2 * q[n]
    BY <2>2
  <2> QED
    BY <2>3 DEF q
<1>5. \A n \in Nat : Pow2[n] \in Nat \ {0}
  <2> DEFINE T == {n \in Nat : Pow2[n] \notin Nat \ {0}}
  <2>1. SUFFICES ASSUME T # {} PROVE FALSE
    OBVIOUS
  <2>2. PICK k \in T : \A m \in T : k <= m
    BY <2>1, LeastNumber
  <2>3. k # 0
    BY <1>4
  <2>4. k - 1 \in Nat /\ Pow2[k - 1] \in Nat \ {0}
    BY <2>2, <2>3
  <2>5. Pow2[k] = 2 * Pow2[k - 1]
    BY <1>4, <2>4
  <2> QED
    BY <2>4, <2>5
<1> QED
  BY <1>4, <1>5

\* Pow2 grows, ...
LEMMA Pow2Grows ==
    ASSUME NEW m \in Nat, NEW n \in Nat, m < n
    PROVE  Pow2[m] < Pow2[n]
<1> DEFINE T == {k \in Nat : m < k /\ ~(Pow2[m] < Pow2[k])}
<1>1. SUFFICES ASSUME T # {} PROVE FALSE
  OBVIOUS
<1>2. PICK k \in T : \A l \in T : k <= l
  BY <1>1, LeastNumber
<1>3. k - 1 \in Nat /\ k - 1 \notin T /\ (m < k - 1 \/ m = k - 1)
  BY <1>2
<1>4. Pow2[m] <= Pow2[k - 1]
  BY <1>3, Pow2Def
<1>5. Pow2[k] = 2 * Pow2[k - 1] /\ Pow2[k - 1] \in Nat \ {0} /\ Pow2[m] \in Nat
  BY <1>3, Pow2Def
<1>6. Pow2[m] < Pow2[k]
  BY <1>4, <1>5
<1> QED
  BY <1>6

\* ... and is past its argument.
LEMMA Pow2Exceeds ==
    ASSUME NEW n \in Nat
    PROVE  n < Pow2[n]
<1> DEFINE T == {k \in Nat : ~(k < Pow2[k])}
<1>1. SUFFICES ASSUME T # {} PROVE FALSE
  OBVIOUS
<1>2. PICK k \in T : \A l \in T : k <= l
  BY <1>1, LeastNumber
<1>3. k # 0
  BY Pow2Def
<1>4. k - 1 \in Nat /\ k - 1 < Pow2[k - 1]
  BY <1>2, <1>3
<1>5. Pow2[k] = 2 * Pow2[k - 1] /\ Pow2[k - 1] \in Nat
  BY <1>4, Pow2Def
<1> QED
  BY <1>4, <1>5

\* A delay that is a doubling of a first one and below a cap that is a doubling of it too, doubled
\* once more, is a doubling and not past the cap.
LEMMA DoublesBelowCap ==
    ASSUME NEW first \in Nat \ {0}, NEW k \in Nat, NEW c \in Nat, first * Pow2[k] < first * Pow2[c]
    PROVE  /\ first * Pow2[k + 1] = 2 * (first * Pow2[k])
           /\ first * Pow2[k + 1] <= first * Pow2[c]
<1>1. Pow2[k] \in Nat /\ Pow2[c] \in Nat /\ Pow2[k + 1] \in Nat /\ Pow2[k + 1] = 2 * Pow2[k]
  BY Pow2Def
<1>2. ~(c < k) /\ c # k
  <2>1. ASSUME Pow2[c] <= Pow2[k] PROVE FALSE
    <3>1. first * Pow2[c] <= first * Pow2[k]
      BY <1>1, <2>1
    <3> QED
      BY <1>1, <3>1
  <2>2. Pow2[k] < Pow2[c]
    BY <1>1, <2>1
  <2>3. ASSUME c < k PROVE FALSE
    BY <1>1, <2>2, <2>3, Pow2Grows
  <2> QED
    BY <2>2, <2>3, <1>1
<1>3. k + 1 = c \/ k + 1 < c
  BY <1>2
<1>4. Pow2[k + 1] <= Pow2[c]
  BY <1>1, <1>3, Pow2Grows
<1> QED
  BY <1>1, <1>4

\* A doubling of a delay exceeds the number of times it was doubled.
LEMMA DoublingExceeds ==
    ASSUME NEW first \in Nat \ {0}, NEW k \in Nat
    PROVE  first * Pow2[k] \in Nat /\ k < first * Pow2[k]
<1>1. Pow2[k] \in Nat /\ k < Pow2[k]
  BY Pow2Def, Pow2Exceeds
<1>2. Pow2[k] <= first * Pow2[k]
  BY <1>1
<1> QED
  BY <1>1, <1>2
=============================================================================
