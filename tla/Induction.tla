----------------------------- MODULE Induction ------------------------------
(***************************************************************************)
(* Facts about numbers and sequences that the proofs of several components *)
(* need: induction over the naturals, least and greatest elements, and     *)
(* what loops over a sequence compute.                                     *)
(***************************************************************************)
EXTENDS Integers, Sequences, FiniteSetsExt, FiniteSetTheorems, TLAPS

(***************************************************************************)
(* Induction over the naturals, for a set instead of a predicate: a set    *)
(* with 0 that n leaves, although n - 1 does not, would be mapped by       *)
(* k -> k + 1 one to one into a smaller set.                               *)
(***************************************************************************)
LEMMA Induction ==
    ASSUME NEW T, 0 \in T, \A n \in Nat : n \in T => n + 1 \in T
    PROVE  \A n \in Nat : n \in T
  <1> SUFFICES ASSUME NEW n \in Nat, n \notin T PROVE FALSE
    OBVIOUS
  <1> DEFINE S == T \cap 0..n
  <1> DEFINE f == [k \in S |-> k + 1]
  <1>1. IsFiniteSet(S)
    BY FS_Interval, FS_Subset, 0 \in Int, n \in Int
  <1>2. IsFiniteSet(S \ {0}) /\ Cardinality(S \ {0}) < Cardinality(S)
    <2>1. 0 \in S
      OBVIOUS
    <2>2. Cardinality(S) \in Nat
      BY <1>1, FS_CardinalityType
    <2> HIDE DEF S
    <2>3. IsFiniteSet(S \ {0}) /\ Cardinality(S \ {0}) = Cardinality(S) - 1
      BY <1>1, <2>1, FS_RemoveElement, Zenon
    <2> QED
      BY <2>2, <2>3
  <1>3. f \in [S -> S \ {0}]
    OBVIOUS
  <1>4. \A x, y \in S : f[x] = f[y] => x = y
    OBVIOUS
  <1> HIDE DEF S, f
  <1> QED
    BY <1>1, <1>2, <1>3, <1>4, FS_PigeonHole

LEMMA MinIsLeast ==
    ASSUME NEW S, S \subseteq Nat, S # {}
    PROVE  Min(S) \in S /\ \A y \in S : Min(S) =< y
  <1>1. \E x \in S : \A y \in S : x =< y
    <2> SUFFICES ASSUME \A x \in S : \E y \in S : y < x PROVE FALSE
      OBVIOUS
    <2> DEFINE T == {n \in Nat : \A k \in S : n < k}
    <2>0. 0 \in T
      OBVIOUS
    <2>1. ASSUME NEW n \in Nat, n \in T PROVE n + 1 \in T
      <3>1. ASSUME NEW k \in S PROVE n + 1 < k
        <4>1. PICK y \in S : y < k
          OBVIOUS
        <4> QED
          BY <2>1, <4>1
      <3> QED
        BY <3>1
    <2> HIDE DEF T
    <2>2. \A n \in Nat : n \in T
      BY <2>0, <2>1, Induction
    <2>3. PICK k \in S : TRUE
      OBVIOUS
    <2> QED
      BY <2>2, <2>3 DEF T
  <1> QED
    BY <1>1 DEF Min

LEMMA MinIs ==
    ASSUME NEW S, S \subseteq Int, NEW k \in S, \A y \in S : k =< y
    PROVE  Min(S) = k
  <1>1. \A x \in S : (\A y \in S : x =< y) => x = k
    OBVIOUS
  <1>2. Min(S) \in S /\ \A y \in S : Min(S) =< y
    BY Zenon DEF Min
  <1> QED
    BY <1>1, <1>2

LEMMA MaxIs ==
    ASSUME NEW S, S \subseteq Int, NEW k \in S, \A y \in S : k >= y
    PROVE  Max(S) = k
  <1>1. \A x \in S : (\A y \in S : x >= y) => x = k
    OBVIOUS
  <1>2. Max(S) \in S /\ \A y \in S : Max(S) >= y
    BY Zenon DEF Max
  <1> QED
    BY <1>1, <1>2

LEMMA MaxIsGreatest ==
    ASSUME NEW n \in Nat, NEW S, S \subseteq 0..n, S # {}
    PROVE  Max(S) \in S /\ \A y \in S : Max(S) >= y
  <1> DEFINE D == {n - x : x \in S}
  <1>1. D \subseteq Nat /\ D # {}
    <2>1. \A x \in S : n - x \in Nat
      OBVIOUS
    <2> QED
      BY <2>1, Zenon
  <1> HIDE DEF D
  <1>2. Min(D) \in D /\ \A y \in D : Min(D) =< y
    BY <1>1, MinIsLeast
  <1>3. PICK x \in S : Min(D) = n - x
    BY <1>2 DEF D
  <1>4. ASSUME NEW y \in S PROVE x >= y
    <2>1. n - y \in D
      BY DEF D
    <2>2. n - x =< n - y
      BY <1>2, <1>3, <2>1
    <2>3. x \in Int /\ y \in Int
      OBVIOUS
    <2> QED
      BY <2>2, <2>3
  <1>5. S \subseteq Int
    OBVIOUS
  <1>6. Max(S) = x
    BY <1>4, <1>5, MaxIs
  <1> QED
    BY <1>4, <1>6

(***************************************************************************)
(* A loop over 1..n that starts with a and turns v into h[i][v] is a       *)
(* recursive function that exists.                                         *)
(***************************************************************************)
IsLoop(g, n, V, a, h) ==
    g \in [0..n -> V] /\ g[0] = a /\ \A i \in 1..n : g[i] = h[i][g[i - 1]]

LEMMA Recursion ==
    ASSUME NEW n \in Nat, NEW V, NEW a \in V, NEW h, h \in [1..n -> [V -> V]]
    PROVE  \E g : IsLoop(g, n, V, a, h)
  <1> DEFINE Ok(k, g) == g[0] = a /\ \A i \in 1..k : g[i] = h[i][g[i - 1]]
             T == {k \in Nat : k =< n => \E g \in [0..k -> V] : Ok(k, g)}
  <1>1. 0 \in T
    <2> DEFINE g == [i \in 0..0 |-> a]
    <2>1. g \in [0..0 -> V] /\ Ok(0, g)
      OBVIOUS
    <2> QED
      BY <2>1
  <1>2. ASSUME NEW k \in Nat, k \in T PROVE k + 1 \in T
    <2> SUFFICES ASSUME k + 1 =< n PROVE \E g \in [0..(k + 1) -> V] : Ok(k + 1, g)
      OBVIOUS
    <2>1. PICK g \in [0..k -> V] : Ok(k, g)
      BY <1>2
    <2> DEFINE v == h[k + 1][g[k]]
               f == [i \in 0..(k + 1) |-> IF i = k + 1 THEN v ELSE g[i]]
    <2>2. v \in V
      <3>1. k \in 0..k /\ k + 1 \in 1..n
        OBVIOUS
      <3>2. g[k] \in V /\ h[k + 1] \in [V -> V]
        BY <3>1
      <3> QED
        BY <3>2
    <2>3. /\ f \in [0..(k + 1) -> V] /\ f[k + 1] = h[k + 1][g[k]]
          /\ \A i \in 0..k : f[i] = g[i]
      <3> HIDE DEF v
      <3> QED
        BY <2>2 DEF v
    <2> HIDE DEF f, v
    <2>4. f[0] = a
      BY <2>1, <2>3
    <2>5. ASSUME NEW i \in 1..(k + 1) PROVE f[i] = h[i][f[i - 1]]
      <3>1. CASE i = k + 1
        <4>1. i - 1 = k /\ k \in 0..k
          BY <3>1
        <4> QED
          BY <2>3, <3>1, <4>1
      <3>2. CASE i # k + 1
        <4>1. i \in 1..k /\ i \in 0..k /\ i - 1 \in 0..k
          BY <3>2
        <4> QED
          BY <2>1, <2>3, <4>1
      <3> QED
        BY <3>1, <3>2
    <2> QED
      BY <2>3, <2>4, <2>5
  <1> HIDE DEF T
  <1>3. n \in T
    BY <1>1, <1>2, Induction
  <1>4. PICK g \in [0..n -> V] : Ok(n, g)
    BY <1>3 DEF T
  <1> QED
    BY <1>4 DEF IsLoop
=============================================================================
