---------------------------- MODULE DataInduction ----------------------------
(***************************************************************************)
(* Induction over data, for the proofs: least elements, induction over the *)
(* numbers up to a bound and functions defined by recursion, each stated   *)
(* about a set or a function instead of an operator.                       *)
(***************************************************************************)
EXTENDS Naturals, Sequences, TLAPS, WellFoundedInduction

\* Every nonempty set of naturals has a least element.
LEMMA LeastNat ==
  ASSUME NEW T, T \subseteq Nat, T # {}
  PROVE  \E x \in T : \A z \in T : x <= z
<1>. DEFINE R == OpToRel(<, Nat)
<1>1. IsWellFoundedOn(R, Nat)
  BY NatLessThanWellFounded
<1>2. \A x, z \in Nat : x < z => <<x, z>> \in R
  BY DEF OpToRel
<1>. HIDE DEF R
<1>3. PICK x \in T : \A z \in T : ~(<<z, x>> \in R)
  BY <1>1, WFMin
<1>4. \A z \in T : x \in Nat /\ z \in Nat /\ ~(z < x)
  BY <1>2, <1>3
<1>5. \A z \in T : x <= z
  BY <1>4
<1>. QED
  BY <1>5

\* A set that holds 1 and, with each number up to m, its successor, holds all of them.
LEMMA SetInduction ==
  ASSUME NEW m \in Nat, NEW T, m > 0 => 1 \in T,
         \A x \in 1..m : x \in T /\ x < m => x + 1 \in T
  PROVE  1..m \subseteq T
<1>. DEFINE Bad == (1..m) \ T
<1>1. SUFFICES ASSUME Bad # {} PROVE FALSE
  OBVIOUS
<1>2. PICK x \in Bad : \A z \in Bad : x <= z
  <2>1. Bad \subseteq Nat
    OBVIOUS
  <2>. HIDE DEF Bad
  <2>. QED
    BY <1>1, <2>1, LeastNat
<1>3. x \in 1..m /\ x \notin T /\ x # 1
  BY <1>2
<1>4. x - 1 \in 1..m /\ x - 1 < m /\ (x - 1) + 1 = x
  BY <1>3
<1>5. x - 1 \in T
  BY <1>2, <1>4
<1>. QED
  BY <1>3, <1>4, <1>5

\* A function that is defined by recursion over 1..m exists, and obeys its definition.
Recursion(g, S, m, first, next) ==
  g \in [1..m -> S] /\ \A j \in 1..m : g[j] = IF j = 1 THEN first ELSE next[<<g[j - 1], j>>]

LEMMA RecursionExists ==
  ASSUME NEW S, NEW m \in Nat, NEW first \in S, NEW next, next \in [S \X (1..m) -> S]
  PROVE  \E g : Recursion(g, S, m, first, next)
<1>0. SUFFICES \E g \in [1..m -> S] : \A j \in 1..m :
                 g[j] = IF j = 1 THEN first ELSE next[<<g[j - 1], j>>]
  BY Zenon DEF Recursion
<1>. DEFINE Upto(k, g) == g \in [1..k -> S] /\ \A j \in 1..k :
                            g[j] = IF j = 1 THEN first ELSE next[<<g[j - 1], j>>]
            T == {k \in 1..m : \E g : Upto(k, g)}
<1>1. CASE m = 0
  <2>1. 1..m = {} /\ [x \in {} |-> x] \in [1..m -> S]
    BY <1>1
  <2>. QED
    BY <2>1
<1>2. CASE m > 0
  <2>1. 1 \in T
    <3>1. Upto(1, [j \in 1..1 |-> first])
      OBVIOUS
    <3>2. 1 \in 1..m
      BY <1>2
    <3>. HIDE DEF Upto
    <3>. QED
      BY <3>1, <3>2
  <2>2. ASSUME NEW k \in 1..m, k \in T, k < m PROVE k + 1 \in T
    <3>1. PICK g : Upto(k, g)
      BY <2>2
    <3>. DEFINE h == [j \in 1..(k + 1) |-> IF j = k + 1 THEN next[<<g[k], k + 1>>] ELSE g[j]]
    <3>2. k + 1 \in 1..m /\ k \in 1..k /\ k + 1 # 1 /\ g[k] \in S /\ next[<<g[k], k + 1>>] \in S
      BY <2>2, <3>1
    <3>3. h \in [1..(k + 1) -> S]
      BY <3>1, <3>2
    <3>4. ASSUME NEW j \in 1..(k + 1)
          PROVE  h[j] = IF j = 1 THEN first ELSE next[<<h[j - 1], j>>]
      <4>1. CASE j = k + 1
        <5>1. j - 1 = k /\ j - 1 \in 1..(k + 1) /\ j - 1 # k + 1
          BY <4>1
        <5>. QED
          BY <3>2, <4>1, <5>1
      <4>2. CASE j # k + 1
        <5>1. j \in 1..k /\ (j # 1 => j - 1 \in 1..k /\ j - 1 # k + 1 /\ j - 1 \in 1..(k + 1))
          BY <4>2
        <5>2. h[j] = g[j] /\ (j # 1 => h[j - 1] = g[j - 1])
          BY <4>2, <5>1
        <5>. QED
          BY <3>1, <5>1, <5>2
      <4>. QED
        BY <4>1, <4>2
    <3>. HIDE DEF h
    <3>5. Upto(k + 1, h)
      BY <3>3, <3>4
    <3>. QED
      BY <3>2, <3>5
  <2>3. m \in T
    <3>. HIDE DEF T
    <3>1. 1..m \subseteq T
      BY <2>1, <2>2, SetInduction
    <3>. QED
      BY <1>2, <3>1
  <2>. QED
    BY <2>3
<1>. QED
  BY <1>1, <1>2

\* The same over 0..m, where the function begins with first.
RecursionFromZero(g, S, m, first, next) ==
  g \in [0..m -> S] /\ g[0] = first /\ \A j \in 1..m : g[j] = next[<<g[j - 1], j>>]

LEMMA RecursionFromZeroExists ==
  ASSUME NEW S, NEW m \in Nat, NEW first \in S, NEW next, next \in [S \X (1..m) -> S]
  PROVE  \E g : RecursionFromZero(g, S, m, first, next)
<1>. DEFINE second == IF m = 0 THEN first ELSE next[<<first, 1>>]
<1>1. second \in S
  OBVIOUS
<1>2. PICK f : Recursion(f, S, m, second, next)
  <2>. HIDE DEF second
  <2>. QED
    BY <1>1, RecursionExists
<1>3. f \in [1..m -> S] /\ \A j \in 1..m : f[j] = IF j = 1 THEN second ELSE next[<<f[j - 1], j>>]
  BY <1>2 DEF Recursion
<1>. DEFINE g == [j \in 0..m |-> IF j = 0 THEN first ELSE f[j]]
<1>4. g \in [0..m -> S] /\ g[0] = first
  BY <1>3
<1>5. ASSUME NEW j \in 1..m PROVE g[j] = next[<<g[j - 1], j>>]
  <2>1. j \in 0..m /\ j # 0 /\ j - 1 \in 0..m /\ (j # 1 => j - 1 \in 1..m /\ j - 1 # 0)
    OBVIOUS
  <2>2. CASE j = 1
    <3>1. f[1] = second
      BY <1>3, <2>2
    <3>2. second = next[<<first, 1>>]
      BY <2>2
    <3>3. g[j] = f[1] /\ j - 1 = 0
      BY <2>1, <2>2
    <3>. HIDE DEF second, g
    <3>. QED
      BY <1>4, <2>2, <3>1, <3>2, <3>3
  <2>3. CASE j # 1
    <3>1. f[j] = next[<<f[j - 1], j>>]
      BY <1>3, <2>3
    <3>2. g[j] = f[j] /\ g[j - 1] = f[j - 1]
      BY <2>1, <2>3
    <3>. QED
      BY <3>1, <3>2
  <2>. QED
    BY <2>2, <2>3
<1>. HIDE DEF g
<1>6. RecursionFromZero(g, S, m, first, next)
  BY <1>4, <1>5 DEF RecursionFromZero
<1>. QED
  BY <1>6

\* A set that holds 0 and, with each number below m, its successor, holds all up to m.
LEMMA SetInductionFromZero ==
  ASSUME NEW m \in Nat, NEW T, 0 \in T,
         \A x \in 0..m : x \in T /\ x < m => x + 1 \in T
  PROVE  0..m \subseteq T
<1>1. m > 0 => 1 \in T
  <2>1. m > 0 => 0 \in 0..m /\ 0 < m /\ 0 + 1 = 1
    OBVIOUS
  <2>. QED
    BY <2>1
<1>2. \A x \in 1..m : x \in 0..m
  OBVIOUS
<1>3. 1..m \subseteq T
  BY <1>1, <1>2, SetInduction
<1>4. 0..m = {0} \cup 1..m
  OBVIOUS
<1>. QED
  BY <1>3, <1>4

\* A function that obeys the definition wherever it stays in S is that function.
Follows(g, S, m, first, next) ==
  /\ g = [j \in 0..m |-> g[j]] /\ g[0] = first
  /\ \A j \in 1..m : g[j - 1] \in S => g[j] = next[<<g[j - 1], j>>]

LEMMA RecursionIsUnique ==
  ASSUME NEW S, NEW m \in Nat, NEW first \in S, NEW next, NEW g,
         next \in [S \X (1..m) -> S], Follows(g, S, m, first, next)
  PROVE  RecursionFromZero(g, S, m, first, next)
<1>. DEFINE T == {j \in 0..m : g[j] \in S}
<1>1. 0 \in T
  BY DEF Follows
<1>2. ASSUME NEW j \in 0..m, j \in T, j < m PROVE j + 1 \in T
  <2>1. j + 1 \in 1..m /\ (j + 1) - 1 = j /\ g[j] \in S
    BY <1>2
  <2>2. g[j + 1] = next[<<g[j], j + 1>>]
    BY <2>1 DEF Follows
  <2>3. next[<<g[j], j + 1>>] \in S
    BY <2>1
  <2>. QED
    BY <2>1, <2>2, <2>3
<1>3. 0..m \subseteq T
  <2>. HIDE DEF T
  <2>. QED
    BY <1>1, <1>2, SetInductionFromZero
<1>4. \A j \in 0..m : g[j] \in S
  BY <1>3
<1>5. \A j \in 1..m : j - 1 \in 0..m
  OBVIOUS
<1>. QED
  BY <1>4, <1>5 DEF Follows, RecursionFromZero
=============================================================================
