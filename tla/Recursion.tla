------------------------------- MODULE Recursion -------------------------------
(***************************************************************************)
(* Lemmas about numbers and about functions that are defined from one      *)
(* number to the next, for the modules that prove what such functions      *)
(* yield.                                                                  *)
(***************************************************************************)
EXTENDS Naturals, WellFoundedInduction, TLAPS

\* A set of numbers that holds 0 and the successor of each of its members is
\* Nat.
LEMMA AllNumbers ==
  ASSUME NEW T \in SUBSET Nat, 0 \in T, \A n \in T : n + 1 \in T
  PROVE  T = Nat
<1> DEFINE Others == Nat \ T
<1> SUFFICES ASSUME Others # {}
             PROVE  FALSE
  OBVIOUS
<1>0. Others \subseteq Nat
  OBVIOUS
<1> HIDE DEF Others
<1>1. PICK n \in Others : \A m \in Others : <<m, n>> \notin OpToRel(<, Nat)
  BY <1>0, NatLessThanWellFounded, WFMin
<1>2. n \in Nat /\ n \notin T
  BY <1>1 DEF Others
<1>3. n - 1 \in Nat /\ n - 1 < n /\ n = (n - 1) + 1
  <2>1. n # 0
    BY <1>2
  <2>2. QED
    BY <1>2, <2>1
<1>4. <<n - 1, n>> \in {ss \in Nat \X Nat : ss[1] < ss[2]}
  BY <1>2, <1>3
<1>5. <<n - 1, n>> \in OpToRel(<, Nat)
  BY <1>4, Zenon DEF OpToRel
<1>6. n - 1 \notin T
  BY <1>2, <1>3
<1>7. n - 1 \in Others
  BY <1>3, <1>6 DEF Others
<1>8. QED
  BY <1>1, <1>5, <1>7

\* A set of numbers has a least one, unless it is empty.
LEMMA LeastNumber ==
  ASSUME NEW T \in SUBSET Nat, T # {}
  PROVE  \E x \in T : \A y \in T : x <= y
<1>1. PICK x \in T : \A y \in T : <<y, x>> \notin OpToRel(<, Nat)
  BY NatLessThanWellFounded, WFMin
<1>2. \A y \in T : ~(y < x)
  BY <1>1 DEF OpToRel
<1>3. QED
  BY <1>2

\* A set of numbers that holds whatever number it holds all smaller ones of is
\* Nat.
LEMMA AllBelow ==
  ASSUME NEW T \in SUBSET Nat,
         \A n \in Nat : (\A k \in 0 .. n - 1 : k \in T) => n \in T
  PROVE  T = Nat
<1> SUFFICES ASSUME Nat \ T # {}
             PROVE  FALSE
  OBVIOUS
<1>1. PICK n \in Nat \ T : \A m \in Nat \ T : n <= m
  BY LeastNumber
<1>2. \A k \in 0 .. n - 1 : k \in Nat /\ ~(n <= k)
  OBVIOUS
<1>3. QED
  BY <1>1, <1>2

\* What holds of f[0], and of each f[k] if it does of the one before, holds of
\* all of them.
LEMMA AllAlong ==
  ASSUME NEW T, NEW n \in Nat, NEW f, f[0] \in T,
         \A k \in 1 .. n : f[k - 1] \in T => f[k] \in T
  PROVE  \A k \in 0 .. n : f[k] \in T
<1> DEFINE U == {k \in Nat : k <= n => f[k] \in T}
<1>1. 0 \in U
  OBVIOUS
<1>2. ASSUME NEW k \in U
      PROVE  k + 1 \in U
  <2>1. CASE k + 1 <= n
    <3>1. k + 1 \in 1 .. n /\ (k + 1) - 1 = k /\ f[k] \in T
      BY <2>1
    <3>2. f[k + 1] \in T
      BY <3>1
    <3>3. QED
      BY <3>2
  <2>2. QED
    BY <2>1
<1>3. U \in SUBSET Nat
  OBVIOUS
<1> HIDE DEF U
<1>4. U = Nat
  BY <1>1, <1>2, <1>3, AllNumbers
<1>5. QED
  BY <1>4 DEF U

\* The first n values of the function that starts with z and goes on with g.
Steps(f, z, g, n) == f = [k \in 0 .. n |-> IF k = 0 THEN z ELSE g[f[k - 1], k]]

\* There is such a function.
LEMMA StepsExist ==
  ASSUME NEW z, NEW g, NEW n \in Nat
  PROVE  \E f : Steps(f, z, g, n)
<1> DEFINE T == {m \in Nat : \E f : Steps(f, z, g, m)}
<1>1. 0 \in T
  <2> DEFINE f == [k \in 0 .. 0 |-> z]
  <2>1. Steps(f, z, g, 0)
    BY DEF Steps
  <2>2. QED
    BY <2>1
<1>2. ASSUME NEW m \in T
      PROVE  m + 1 \in T
  <2>0. m \in Nat
    OBVIOUS
  <2>1. PICK f : Steps(f, z, g, m)
    OBVIOUS
  <2> DEFINE h == [k \in 0 .. m + 1 |-> IF k = m + 1 THEN g[f[m], m + 1]
                                        ELSE f[k]]
  <2>2. \A k \in 0 .. m : f[k] = IF k = 0 THEN z ELSE g[f[k - 1], k]
    BY <2>1 DEF Steps
  <2>3. \A k \in 0 .. m + 1 : h[k] = IF k = 0 THEN z ELSE g[h[k - 1], k]
    <3>1. h[m + 1] = g[f[m], m + 1] /\ \A k \in 0 .. m : h[k] = f[k]
      <4>1. m + 1 \in 0 .. m + 1
        BY <2>0
      <4>2. \A k \in 0 .. m : k \in 0 .. m + 1 /\ k # m + 1
        BY <2>0
      <4>3. QED
        BY <4>1, <4>2, Zenon
    <3> HIDE DEF h
    <3>2. SUFFICES ASSUME NEW k \in 0 .. m + 1
                   PROVE  h[k] = IF k = 0 THEN z ELSE g[h[k - 1], k]
      OBVIOUS
    <3>3. CASE k = m + 1
      <4>1. k # 0 /\ k - 1 = m /\ m \in 0 .. m
        BY <2>0, <3>3
      <4>2. QED
        BY <3>1, <3>3, <4>1
    <3>4. CASE k \in 0 .. m
      <4>1. k # 0 => k - 1 \in 0 .. m
        BY <2>0, <3>4
      <4>2. QED
        BY <2>2, <3>1, <3>4, <4>1
    <3>5. k = m + 1 \/ k \in 0 .. m
      BY <2>0
    <3>6. QED
      BY <3>3, <3>4, <3>5
  <2>4. h = [k \in 0 .. m + 1 |-> h[k]]
    OBVIOUS
  <2> HIDE DEF h
  <2>5. Steps(h, z, g, m + 1)
    BY <2>3, <2>4 DEF Steps
  <2>6. QED
    BY <2>5
<1>3. T \in SUBSET Nat
  OBVIOUS
<1> HIDE DEF T
<1>4. T = Nat
  BY <1>1, <1>2, <1>3, AllNumbers
<1>5. QED
  BY <1>4 DEF T
===============================================================================
