------------------------ MODULE MessageObjects_proofs ------------------------
(***************************************************************************)
(* Proofs about the generated classes (MessageObjects): for any wires,     *)
(* texts, numbers and any number of messages and calls, every submessage   *)
(* has its type and its one owner, and ByteSizeLong is the number of bytes *)
(* that are written.                                                       *)
(*                                                                         *)
(* First what wires and their sizes are; then, class by class, that no     *)
(* method leaves the type of the class and that sizes are lengths; then    *)
(* the heap of the wrappers, and the inductive invariant IInv.             *)
(***************************************************************************)
EXTENDS MessageObjects, DataInduction, FiniteSetTheorems, SequenceTheorems

-----------------------------------------------------------------------------
\* Sizes.

LEMMA VarintSizeType ==
  ASSUME NEW n
  PROVE  VarintSize(n) \in Nat \ {0}
<1>1. ASSUME NEW x, NEW y, NEW z PROVE IsFiniteSet({x, y, z})
  <2>1. IsFiniteSet({x})
    BY FS_EmptySet, FS_AddElement, {} \cup {x} = {x}
  <2>2. IsFiniteSet({x, y})
    BY <2>1, FS_AddElement, {x} \cup {y} = {x, y}
  <2>. QED
    BY <2>2, FS_AddElement, {x, y} \cup {z} = {x, y, z}
<1>. DEFINE A == {128, 128 * 128, 128 * 128 * 128}
            B == {b \in A : n >= b}
<1>2. IsFiniteSet(A) /\ B \in SUBSET A
  BY <1>1
<1>. HIDE DEF A
<1>3. IsFiniteSet(B)
  BY <1>2, FS_Subset
<1>4. Cardinality(B) \in Nat
  BY <1>3, FS_CardinalityType
<1>. QED
  BY <1>4 DEF VarintSize, A

\* The running sums of a sequence.
Sums(g, ns) ==
  /\ g \in [0..Len(ns) -> Int] /\ g[0] = 0 /\ g[Len(ns)] = Total(ns)
  /\ \A i \in 1..Len(ns) : g[i] = g[i - 1] + ns[i]

LEMMA SumsExist ==
  ASSUME NEW ns \in Seq(Int)
  PROVE  \E g : Sums(g, ns)
<1>. DEFINE n == Len(ns)
            next == [x \in Int \X (1..n) |-> x[1] + ns[x[2]]]
            Obeys(f) == f = [i \in 0..n |-> IF i = 0 THEN 0 ELSE f[i - 1] + ns[i]]
            upto == CHOOSE f : Obeys(f)
<1>1. n \in Nat /\ 0 \in Int /\ \A i \in 1..n : ns[i] \in Int
  OBVIOUS
<1>. HIDE DEF n
<1>2. next \in [Int \X (1..n) -> Int]
  BY <1>1
<1>3. PICK g : RecursionFromZero(g, Int, n, 0, next)
  <2>. HIDE DEF next
  <2>. QED
    BY <1>1, <1>2, RecursionFromZeroExists
<1>4. g \in [0..n -> Int] /\ g[0] = 0 /\ \A i \in 1..n : g[i] = g[i - 1] + ns[i]
  <2>1. g \in [0..n -> Int] /\ g[0] = 0 /\ \A i \in 1..n : g[i] = next[<<g[i - 1], i>>]
    BY <1>3 DEF RecursionFromZero
  <2>2. \A i \in 1..n : i - 1 \in 0..n
    BY <1>1
  <2>. QED
    BY <2>1, <2>2
<1>5. Obeys(g)
  BY <1>1, <1>4
<1>6. Obeys(upto)
  <2>. HIDE DEF Obeys
  <2>. QED
    BY <1>5
<1>7. upto = [i \in 0..n |-> upto[i]] /\ upto[0] = 0
      /\ \A i \in 1..n : upto[i] = upto[i - 1] + ns[i]
  <2>1. 0 \in 0..n /\ \A i \in 1..n : i \in 0..n /\ i # 0
    BY <1>1
  <2>. HIDE DEF upto
  <2>. QED
    BY <1>6, <2>1
<1>8. upto[n] = Total(ns)
  BY DEF Total, n
<1>. HIDE DEF upto
<1>9. Follows(upto, Int, n, 0, next)
  <2>1. ASSUME NEW i \in 1..n, upto[i - 1] \in Int PROVE upto[i] = next[<<upto[i - 1], i>>]
    BY <1>7, <2>1
  <2>. HIDE DEF next
  <2>. QED
    BY <1>7, <2>1 DEF Follows
<1>10. RecursionFromZero(upto, Int, n, 0, next)
  <2>. HIDE DEF next
  <2>. QED
    BY <1>1, <1>2, <1>9, RecursionIsUnique
<1>. QED
  BY <1>7, <1>8, <1>10 DEF Sums, RecursionFromZero, n

LEMMA TotalType ==
  ASSUME NEW ns \in Seq(Int)
  PROVE  Total(ns) \in Int
BY SumsExist DEF Sums

\* Two recursions that agree step by step agree.
LEMMA SumsAreUnique ==
  ASSUME NEW ns \in Seq(Int), NEW g, g \in [0..Len(ns) -> Int], g[0] = 0,
         \A i \in 1..Len(ns) : g[i] = g[i - 1] + ns[i]
  PROVE  g[Len(ns)] = Total(ns)
<1>1. PICK s : Sums(s, ns)
  BY SumsExist
<1>. DEFINE n == Len(ns)
            T == {i \in 0..n : g[i] = s[i]}
<1>2. n \in Nat /\ 0 \in T
  BY <1>1 DEF Sums
<1>3. ASSUME NEW i \in 0..n, i \in T, i < n PROVE i + 1 \in T
  <2>1. i + 1 \in 1..n /\ i + 1 \in 0..n /\ (i + 1) - 1 = i
    BY <1>2, <1>3
  <2>. QED
    BY <1>1, <1>3, <2>1 DEF Sums
<1>4. 0..n \subseteq T
  <2>. HIDE DEF T, n
  <2>. QED
    BY <1>2, <1>3, SetInductionFromZero
<1>. QED
  BY <1>1, <1>2, <1>4 DEF Sums

LEMMA TotalEmpty == Total(<<>>) = 0
<1>1. <<>> \in Seq(Int) /\ Len(<<>>) = 0
  OBVIOUS
<1>. QED
  BY <1>1, SumsExist DEF Sums

LEMMA TotalAppend ==
  ASSUME NEW ns \in Seq(Int), NEW x \in Int
  PROVE  Total(Append(ns, x)) = Total(ns) + x
<1>1. PICK s : Sums(s, ns)
  BY SumsExist
<1>. DEFINE n == Len(ns)
            new == Append(ns, x)
            g == [i \in 0..(n + 1) |-> IF i = n + 1 THEN s[n] + x ELSE s[i]]
<1>2. /\ n \in Nat /\ new \in Seq(Int) /\ Len(new) = n + 1 /\ new[n + 1] = x
      /\ \A i \in 1..n : new[i] = ns[i]
  OBVIOUS
<1>. HIDE DEF new, n
<1>3. s \in [0..n -> Int] /\ s[n] = Total(ns) /\ s[0] = 0 /\ \A i \in 1..n : s[i] = s[i - 1] + ns[i]
  BY <1>1 DEF Sums, n
<1>4. g \in [0..(n + 1) -> Int] /\ g[0] = 0 /\ g[n + 1] = Total(ns) + x
  BY <1>2, <1>3
<1>5. ASSUME NEW i \in 1..(n + 1) PROVE g[i] = g[i - 1] + new[i]
  <2>1. CASE i = n + 1
    BY <1>2, <1>3, <2>1
  <2>2. CASE i # n + 1
    <3>1. i \in 1..n /\ i - 1 \in 0..n /\ i - 1 # n + 1 /\ i \in 0..(n + 1) /\ i - 1 \in 0..(n + 1)
      BY <1>2, <2>2
    <3>. QED
      BY <1>2, <1>3, <2>2, <3>1
  <2>. QED
    BY <2>1, <2>2
<1>. HIDE DEF g
<1>6. g[Len(new)] = Total(new)
  BY <1>2, <1>4, <1>5, SumsAreUnique
<1>. QED
  BY <1>2, <1>4, <1>6 DEF new

LEMMA TotalConcat ==
  ASSUME NEW a \in Seq(Int), NEW b \in Seq(Int)
  PROVE  Total(a \o b) = Total(a) + Total(b)
<1>1. PICK s, t : Sums(s, a) /\ Sums(t, b)
  BY SumsExist
<1>. DEFINE k == Len(a)
            n == Len(b)
            all == a \o b
            g == [i \in 0..(k + n) |-> IF i <= k THEN s[i] ELSE s[k] + t[i - k]]
<1>2. /\ k \in Nat /\ n \in Nat /\ all \in Seq(Int) /\ Len(all) = k + n
      /\ \A i \in 1..(k + n) : all[i] = IF i <= k THEN a[i] ELSE b[i - k]
  OBVIOUS
<1>. HIDE DEF all, k, n
<1>3. /\ s \in [0..k -> Int] /\ s[k] = Total(a) /\ s[0] = 0 /\ \A i \in 1..k : s[i] = s[i - 1] + a[i]
      /\ t \in [0..n -> Int] /\ t[n] = Total(b) /\ t[0] = 0 /\ \A i \in 1..n : t[i] = t[i - 1] + b[i]
  BY <1>1 DEF Sums, k, n
<1>4. g \in [0..(k + n) -> Int] /\ g[0] = 0
  <2>1. ASSUME NEW i \in 0..(k + n) PROVE (IF i <= k THEN s[i] ELSE s[k] + t[i - k]) \in Int
    <3>1. k \in 0..k /\ (i <= k => i \in 0..k) /\ (~(i <= k) => i - k \in 0..n)
      BY <1>2
    <3>2. s[k] \in Int /\ (i <= k => s[i] \in Int) /\ (~(i <= k) => t[i - k] \in Int)
      BY <1>3, <3>1
    <3>. QED
      BY <3>2
  <2>2. 0 \in 0..(k + n) /\ 0 <= k
    BY <1>2
  <2>. QED
    BY <1>3, <2>1, <2>2
<1>5. g[k + n] = Total(a) + Total(b)
  <2>1. CASE n = 0
    BY <1>2, <1>3, <2>1
  <2>2. CASE n # 0
    <3>1. ~(k + n <= k) /\ (k + n) - k = n /\ k + n \in 0..(k + n)
      BY <1>2, <2>2
    <3>. QED
      BY <1>3, <3>1
  <2>. QED
    BY <2>1, <2>2
<1>6. ASSUME NEW i \in 1..(k + n) PROVE g[i] = g[i - 1] + all[i]
  <2>1. i \in 0..(k + n) /\ i - 1 \in 0..(k + n)
    BY <1>2
  <2>2. CASE i <= k
    <3>1. i \in 1..k /\ i - 1 <= k
      BY <1>2, <2>2
    <3>. QED
      BY <1>2, <1>3, <2>1, <2>2, <3>1
  <2>3. CASE i = k + 1
    <3>1. ~(i <= k) /\ i - 1 = k /\ i - k = 1 /\ 1 \in 1..n /\ 1 - 1 = 0 /\ k <= k
      BY <1>2, <2>3
    <3>2. t[1] = b[1] /\ k \in 0..k /\ s[k] \in Int /\ b[1] \in Int
      BY <1>3, <3>1 DEF n
    <3>. QED
      BY <1>2, <2>1, <3>1, <3>2
  <2>4. CASE ~(i <= k) /\ i # k + 1
    <3>1. ~(i - 1 <= k) /\ i - k \in 1..n /\ (i - k) - 1 = (i - 1) - k /\ (i - k) - 1 \in 0..n
      BY <1>2, <2>4
    <3>2. t[i - k] = t[(i - 1) - k] + b[i - k] /\ k \in 0..k /\ s[k] \in Int /\ b[i - k] \in Int
          /\ t[(i - 1) - k] \in Int
      <4>1. b[i - k] \in Int
        BY <3>1 DEF n
      <4>2. t[i - k] = t[(i - k) - 1] + b[i - k] /\ t[(i - k) - 1] \in Int
        BY <1>3, <3>1
      <4>3. k \in 0..k /\ s[k] \in Int
        BY <1>2, <1>3
      <4>. QED
        BY <3>1, <4>1, <4>2, <4>3
    <3>3. g[i] = s[k] + t[i - k] /\ g[i - 1] = s[k] + t[(i - 1) - k] /\ all[i] = b[i - k]
      BY <1>2, <2>1, <2>4, <3>1
    <3>. HIDE DEF g
    <3>. QED
      BY <3>2, <3>3, SMTT(40)
  <2>. QED
    BY <1>2, <2>2, <2>3, <2>4
<1>. HIDE DEF g
<1>7. g[Len(all)] = Total(all)
  BY <1>2, <1>4, <1>6, SumsAreUnique
<1>. QED
  BY <1>2, <1>5, <1>7 DEF all

LEMMA TotalOfOne ==
  ASSUME NEW x \in Int
  PROVE  Total(<<x>>) = x
<1>1. <<>> \in Seq(Int) /\ Append(<<>>, x) = <<x>>
  OBVIOUS
<1>2. Total(Append(<<>>, x)) = Total(<<>>) + x
  BY <1>1, TotalAppend
<1>. QED
  BY <1>1, <1>2, TotalEmpty

\* One byte of tag before each.
LEMMA TotalWithTags ==
  ASSUME NEW ns \in Seq(Int)
  PROVE  Total([i \in 1..Len(ns) |-> 1 + ns[i]]) = Len(ns) + Total(ns)
<1>1. PICK s : Sums(s, ns)
  BY SumsExist
<1>. DEFINE n == Len(ns)
            new == [i \in 1..n |-> 1 + ns[i]]
            g == [i \in 0..n |-> i + s[i]]
<1>2. n \in Nat /\ \A i \in 1..n : ns[i] \in Int /\ i - 1 \in 0..n /\ i \in 0..n
  OBVIOUS
<1>. HIDE DEF n
<1>3. new \in Seq(Int) /\ Len(new) = n
  BY <1>2
<1>4. s \in [0..n -> Int] /\ s[n] = Total(ns) /\ s[0] = 0 /\ \A i \in 1..n : s[i] = s[i - 1] + ns[i]
  BY <1>1 DEF Sums, n
<1>5. g \in [0..n -> Int] /\ g[0] = 0 /\ g[n] = n + Total(ns)
  BY <1>2, <1>4
<1>6. ASSUME NEW i \in 1..n PROVE g[i] = g[i - 1] + new[i]
  <2>1. g[i] = i + s[i] /\ g[i - 1] = i - 1 + s[i - 1] /\ new[i] = 1 + ns[i]
    BY <1>2
  <2>2. s[i - 1] \in Int /\ ns[i] \in Int /\ s[i] = s[i - 1] + ns[i]
    BY <1>2, <1>4
  <2>3. i \in Int
    OBVIOUS
  <2>4. \A p, q, j \in Int : j + (p + q) = ((j - 1) + p) + (1 + q)
    OBVIOUS
  <2>. HIDE DEF g, new
  <2>5. i + (s[i - 1] + ns[i]) = ((i - 1) + s[i - 1]) + (1 + ns[i])
    BY <2>2, <2>3, <2>4
  <2>6. i + s[i] = ((i - 1) + s[i - 1]) + (1 + ns[i])
    BY <2>2, <2>5
  <2>. HIDE DEF g, new
  <2>. QED
    BY <2>1, <2>6
<1>. HIDE DEF new, g
<1>7. g[Len(new)] = Total(new)
  BY <1>3, <1>5, <1>6, SumsAreUnique
<1>. QED
  BY <1>3, <1>5, <1>7 DEF new, n

LEMMA TotalIsNat ==
  ASSUME NEW ns \in Seq(Nat)
  PROVE  Total(ns) \in Nat
<1>1. ns \in Seq(Int)
  OBVIOUS
<1>2. PICK s : Sums(s, ns)
  BY <1>1, SumsExist
<1>. DEFINE n == Len(ns)
            T == {i \in 0..n : s[i] \in Nat}
<1>3. n \in Nat /\ \A i \in 1..n : ns[i] \in Nat
  OBVIOUS
<1>. HIDE DEF n
<1>4. s[n] = Total(ns) /\ s[0] = 0 /\ \A i \in 1..n : s[i] = s[i - 1] + ns[i]
  BY <1>2 DEF Sums, n
<1>5. 0 \in T
  BY <1>3, <1>4
<1>6. ASSUME NEW i \in 0..n, i \in T, i < n PROVE i + 1 \in T
  <2>1. i + 1 \in 1..n /\ i + 1 \in 0..n /\ (i + 1) - 1 = i
    BY <1>3, <1>6
  <2>. QED
    BY <1>3, <1>4, <1>6, <2>1
<1>7. 0..n \subseteq T
  <2>. HIDE DEF T
  <2>. QED
    BY <1>3, <1>5, <1>6, SetInductionFromZero
<1>. QED
  BY <1>3, <1>4, <1>7

-----------------------------------------------------------------------------
\* Fields and wires.

\* The fields that hold a wire of fields of G.
FieldsOver(G) ==
  [tag : Nat, n : Int, s : Seq(Int), ns : Seq(Int), sub : Seq(G), len : Nat]

LEMMA FieldSizeType ==
  ASSUME NEW f, f.len \in Nat
  PROVE  FieldSize(f) \in Nat
<1>1. VarintSize(f.n) \in Nat /\ VarintSize(f.len) \in Nat
  BY VarintSizeType
<1>. QED
  BY <1>1 DEF FieldSize, Delimited

\* The sizes of the fields of a wire.
FieldSizes(w) == [i \in 1..Len(w) |-> FieldSize(w[i])]

LEMMA FieldSizesType ==
  ASSUME NEW G, NEW w \in Seq(FieldsOver(G))
  PROVE  FieldSizes(w) \in Seq(Nat) /\ FieldSizes(w) \in Seq(Int) /\ Len(FieldSizes(w)) = Len(w)
<1>1. ASSUME NEW i \in 1..Len(w) PROVE FieldSize(w[i]) \in Nat
  <2>1. w[i] \in FieldsOver(G)
    OBVIOUS
  <2>. QED
    BY <2>1, FieldSizeType DEF FieldsOver
<1>. QED
  BY <1>1 DEF FieldSizes

LEMMA WireSizeIsTotal ==
  ASSUME NEW w
  PROVE  WireSize(w) = Total(FieldSizes(w))
BY DEF WireSize, SumOf, FieldSizes

LEMMA WireSizeType ==
  ASSUME NEW G, NEW w \in Seq(FieldsOver(G))
  PROVE  WireSize(w) \in Nat
BY WireSizeIsTotal, FieldSizesType, TotalIsNat

LEMMA WireSizeConcat ==
  ASSUME NEW G, NEW u \in Seq(FieldsOver(G)), NEW v \in Seq(FieldsOver(G))
  PROVE  WireSize(u \o v) = WireSize(u) + WireSize(v)
<1>1. FieldSizes(u \o v) = FieldSizes(u) \o FieldSizes(v)
  <2>1. u \o v \in Seq(FieldsOver(G)) /\ Len(u \o v) = Len(u) + Len(v) /\ Len(u) \in Nat /\ Len(v) \in Nat
    OBVIOUS
  <2>2. FieldSizes(u \o v) \in Seq(Int) /\ FieldSizes(u) \in Seq(Int) /\ FieldSizes(v) \in Seq(Int)
        /\ Len(FieldSizes(u)) = Len(u) /\ Len(FieldSizes(v)) = Len(v)
        /\ Len(FieldSizes(u \o v)) = Len(u) + Len(v)
    BY <2>1, FieldSizesType
  <2>3. ASSUME NEW i \in 1..(Len(u) + Len(v))
        PROVE  FieldSizes(u \o v)[i] = (FieldSizes(u) \o FieldSizes(v))[i]
    <3>1. (u \o v)[i] = IF i <= Len(u) THEN u[i] ELSE v[i - Len(u)]
      BY <2>1
    <3>2. (FieldSizes(u) \o FieldSizes(v))[i]
             = IF i <= Len(u) THEN FieldSizes(u)[i] ELSE FieldSizes(v)[i - Len(u)]
      BY <2>2, SMTT(40)
    <3>3. (i <= Len(u) => i \in 1..Len(u)) /\ (~(i <= Len(u)) => i - Len(u) \in 1..Len(v))
      BY <2>1
    <3>. QED
      BY <2>1, <3>1, <3>2, <3>3 DEF FieldSizes
  <2>4. FieldSizes(u) \o FieldSizes(v) \in Seq(Int)
        /\ Len(FieldSizes(u) \o FieldSizes(v)) = Len(u) + Len(v)
    BY <2>2, ConcatProperties
  <2>. QED
    BY <2>2, <2>3, <2>4, SeqEqual
<1>. QED
  BY <1>1, WireSizeIsTotal, FieldSizesType, TotalConcat

LEMMA WireSizeEmpty == WireSize(<<>>) = 0
<1>1. FieldSizes(<<>>) = <<>>
  BY DEF FieldSizes
<1>. QED
  BY <1>1, WireSizeIsTotal, TotalEmpty

LEMMA WireSizeOfOne ==
  ASSUME NEW G, NEW f \in FieldsOver(G)
  PROVE  WireSize(<<f>>) = FieldSize(f) /\ <<f>> \in Seq(FieldsOver(G))
<1>1. FieldSizes(<<f>>) = <<FieldSize(f)>>
  BY DEF FieldSizes
<1>2. FieldSize(f) \in Int
  BY FieldSizeType DEF FieldsOver
<1>. QED
  BY <1>1, <1>2, WireSizeIsTotal, TotalOfOne

LEMMA UInt32SizeType ==
  ASSUME NEW X, NEW ns \in Seq(X)
  PROVE  UInt32Size(ns) \in Nat
<1>1. [i \in 1..Len(ns) |-> VarintSize(ns[i])] \in Seq(Nat)
  BY VarintSizeType
<1>. QED
  BY <1>1, TotalIsNat DEF UInt32Size, SumOf

-----------------------------------------------------------------------------
\* Parses.

\* What reading leaves: a message of T, and whether the reading goes on.
Readings(T) == [msg : T, ok : BOOLEAN]

\* A set of messages that no field of a wire leads out of, no wire leads out of.
LEMMA ParseStays ==
  ASSUME NEW T, NEW U, NEW m \in T, NEW w \in Seq(U),
         \A x \in T, f \in U : Field(x, f) \in Readings(T)
  PROVE  Parsed(m, w) \in Readings(T)
<1>. DEFINE n == Len(w)
            S == Readings(T)
            turn(r, f) == IF ~r.ok THEN r
                          ELSE IF ~Whole(f) THEN ReadIf(FALSE, r.msg) ELSE Field(r.msg, f)
            next == [x \in S \X (1..n) |-> turn(x[1], w[x[2]])]
            Obeys(p) == p = [i \in 0..n |-> IF i = 0 THEN Read(m) ELSE turn(p[i - 1], w[i])]
            upto == CHOOSE p : Obeys(p)
<1>1. n \in Nat /\ Read(m) \in S /\ \A i \in 1..n : w[i] \in U
  BY DEF Read, Readings
<1>2. ASSUME NEW r \in S, NEW f \in U PROVE turn(r, f) \in S
  BY <1>2 DEF Readings, ReadIf
<1>3. upto[n] = Parsed(m, w)
  BY Zenon DEF Parsed, ParseWith, Along
<1>. HIDE DEF n, S, turn
<1>4. next \in [S \X (1..n) -> S]
  BY <1>1, <1>2
<1>5. PICK g : RecursionFromZero(g, S, n, Read(m), next)
  <2>. HIDE DEF next
  <2>. QED
    BY <1>1, <1>4, RecursionFromZeroExists
<1>6. g \in [0..n -> S] /\ g[0] = Read(m) /\ \A i \in 1..n : g[i] = turn(g[i - 1], w[i])
  <2>1. g \in [0..n -> S] /\ g[0] = Read(m) /\ \A i \in 1..n : g[i] = next[<<g[i - 1], i>>]
    BY <1>5 DEF RecursionFromZero
  <2>2. \A i \in 1..n : i - 1 \in 0..n
    BY <1>1
  <2>. QED
    BY <2>1, <2>2
<1>7. Obeys(g)
  BY <1>1, <1>6
<1>8. Obeys(upto)
  <2>. HIDE DEF Obeys
  <2>. QED
    BY <1>7
<1>9. upto = [i \in 0..n |-> upto[i]] /\ upto[0] = Read(m)
      /\ \A i \in 1..n : upto[i] = turn(upto[i - 1], w[i])
  <2>1. 0 \in 0..n /\ \A i \in 1..n : i \in 0..n /\ i # 0
    BY <1>1
  <2>. HIDE DEF upto
  <2>. QED
    BY <1>8, <2>1
<1>. HIDE DEF upto
<1>10. Follows(upto, S, n, Read(m), next)
  <2>1. ASSUME NEW i \in 1..n, upto[i - 1] \in S PROVE upto[i] = next[<<upto[i - 1], i>>]
    BY <1>9, <2>1
  <2>. HIDE DEF next
  <2>. QED
    BY <1>9, <2>1 DEF Follows
<1>11. RecursionFromZero(upto, S, n, Read(m), next)
  <2>. HIDE DEF next
  <2>. QED
    BY <1>1, <1>4, <1>10, RecursionIsUnique
<1>12. upto[n] \in S
  BY <1>1, <1>11 DEF RecursionFromZero
<1>. QED
  BY <1>3, <1>12 DEF S

\* The same for the Bytes in a message.
LEMMA BytesParseStays ==
  ASSUME NEW T, NEW U, NEW m \in T, NEW w \in Seq(U),
         \A x \in T, f \in U : Bytes_Field(x, f) \in Readings(T)
  PROVE  ParseWith(Bytes_Field, m, w) \in Readings(T)
<1>. DEFINE n == Len(w)
            S == Readings(T)
            turn(r, f) == IF ~r.ok THEN r
                          ELSE IF ~Whole(f) THEN ReadIf(FALSE, r.msg) ELSE Bytes_Field(r.msg, f)
            next == [x \in S \X (1..n) |-> turn(x[1], w[x[2]])]
            Obeys(p) == p = [i \in 0..n |-> IF i = 0 THEN Read(m) ELSE turn(p[i - 1], w[i])]
            upto == CHOOSE p : Obeys(p)
<1>1. n \in Nat /\ Read(m) \in S /\ \A i \in 1..n : w[i] \in U
  BY DEF Read, Readings
<1>2. ASSUME NEW r \in S, NEW f \in U PROVE turn(r, f) \in S
  BY <1>2 DEF Readings, ReadIf
<1>3. upto[n] = ParseWith(Bytes_Field, m, w)
  BY Zenon DEF ParseWith, Along
<1>. HIDE DEF n, S, turn
<1>4. next \in [S \X (1..n) -> S]
  BY <1>1, <1>2
<1>5. PICK g : RecursionFromZero(g, S, n, Read(m), next)
  <2>. HIDE DEF next
  <2>. QED
    BY <1>1, <1>4, RecursionFromZeroExists
<1>6. g \in [0..n -> S] /\ g[0] = Read(m) /\ \A i \in 1..n : g[i] = turn(g[i - 1], w[i])
  <2>1. g \in [0..n -> S] /\ g[0] = Read(m) /\ \A i \in 1..n : g[i] = next[<<g[i - 1], i>>]
    BY <1>5 DEF RecursionFromZero
  <2>2. \A i \in 1..n : i - 1 \in 0..n
    BY <1>1
  <2>. QED
    BY <2>1, <2>2
<1>7. Obeys(g)
  BY <1>1, <1>6
<1>8. Obeys(upto)
  <2>. HIDE DEF Obeys
  <2>. QED
    BY <1>7
<1>9. upto = [i \in 0..n |-> upto[i]] /\ upto[0] = Read(m)
      /\ \A i \in 1..n : upto[i] = turn(upto[i - 1], w[i])
  <2>1. 0 \in 0..n /\ \A i \in 1..n : i \in 0..n /\ i # 0
    BY <1>1
  <2>. HIDE DEF upto
  <2>. QED
    BY <1>8, <2>1
<1>. HIDE DEF upto
<1>10. Follows(upto, S, n, Read(m), next)
  <2>1. ASSUME NEW i \in 1..n, upto[i - 1] \in S PROVE upto[i] = next[<<upto[i - 1], i>>]
    BY <1>9, <2>1
  <2>. HIDE DEF next
  <2>. QED
    BY <1>9, <2>1 DEF Follows
<1>11. RecursionFromZero(upto, S, n, Read(m), next)
  <2>. HIDE DEF next
  <2>. QED
    BY <1>1, <1>4, <1>10, RecursionIsUnique
<1>12. upto[n] \in S
  BY <1>1, <1>11 DEF RecursionFromZero
<1>. QED
  BY <1>3, <1>12 DEF S

-----------------------------------------------------------------------------
\* Messages, by the fields U that may be among the unknown ones of theirs.

MapsOver(D, R) == UNION {[d -> R] : d \in {e \in SUBSET D : IsFiniteSet(e)}}

ResponseType(U) ==
  [class : {"Response"}, message : Seq(Int), data : Seq(Int), code : Int, reqTimeMillis : Int,
   unknown : Seq(U)]
ErrorType(U) == [class : {"Error"}, message : Seq(Int), code : Int, unknown : Seq(U)]
ServiceDataType(U) == [class : {"OTServiceData"}, value : Seq(Int), unknown : Seq(U)]
BytesType(U) == [class : {"Bytes"}, bts : Seq(Int), unknown : Seq(U)]
FieldsType(U) == [class : {"Fields"}, msg : MapsOver(Seq(Int), Seq(Int)), unknown : Seq(U)]

\* V: the unknown fields of what they hold.
ServerRequestType(U, V) ==
  [class : {"OTServerRequest"}, keys : Seq(Seq(Int)), bytes : Seq(BytesType(V)),
   function : Seq(Int), sessionToken : Int, k : Int, unknown : Seq(U)]
ServerResponseType(U, V) ==
  [class : {"OTServerResponse"}, values : Seq(Seq(Int)), bytes : Seq(BytesType(V)),
   function : Seq(Int), unknown : Seq(U)]
ClientRequestType(U) ==
  [class : {"OTClientRequest"}, uinWithLabelMap : MapsOver(Int, Int), function : Seq(Int),
   unknown : Seq(U)]
ClientResponseType(U) ==
  [class : {"OTClientResponse"}, resMap : MapsOver(Seq(Int), Seq(Int)), function : Seq(Int),
   reqTimeMillis : Int, unknown : Seq(U)]

LEMMA MapsNone ==
  ASSUME NEW D, NEW R
  PROVE  <<>> \in MapsOver(D, R)
<1>1. <<>> \in [{} -> R]
  OBVIOUS
<1>2. IsFiniteSet({}) /\ {} \in SUBSET D
  BY FS_EmptySet
<1>. QED
  BY <1>1, <1>2 DEF MapsOver

LEMMA MapsKnown ==
  ASSUME NEW D, NEW R, NEW m \in MapsOver(D, R)
  PROVE  DOMAIN m \subseteq D /\ IsFiniteSet(DOMAIN m) /\ m \in [DOMAIN m -> R]
BY DEF MapsOver

LEMMA MapsMade ==
  ASSUME NEW D, NEW R, NEW d \in SUBSET D, IsFiniteSet(d), NEW m \in [d -> R]
  PROVE  m \in MapsOver(D, R)
BY DEF MapsOver

LEMMA MapsMerge ==
  ASSUME NEW D, NEW R, NEW a \in MapsOver(D, R), NEW b \in MapsOver(D, R)
  PROVE  MergeMap(a, b) \in MapsOver(D, R)
<1>. DEFINE d == DOMAIN a \cup DOMAIN b
<1>1. d \in SUBSET D /\ IsFiniteSet(d)
  BY MapsKnown, FS_Union
<1>2. MergeMap(a, b) \in [d -> R]
  BY MapsKnown DEF MergeMap
<1>. QED
  BY <1>1, <1>2, MapsMade

LEMMA MapsOne ==
  ASSUME NEW D, NEW R, NEW k \in D, NEW v \in R
  PROVE  [x \in {k} |-> v] \in MapsOver(D, R)
<1>1. {k} \in SUBSET D /\ IsFiniteSet({k}) /\ [x \in {k} |-> v] \in [{k} -> R]
  BY FS_Singleton
<1>. QED
  BY <1>1, MapsMade

LEMMA MapsWithout ==
  ASSUME NEW D, NEW R, NEW m \in MapsOver(D, R), NEW k
  PROVE  [x \in DOMAIN m \ {k} |-> m[x]] \in MapsOver(D, R)
<1>1. DOMAIN m \ {k} \in SUBSET D /\ IsFiniteSet(DOMAIN m \ {k})
  BY MapsKnown, FS_Subset
<1>2. [x \in DOMAIN m \ {k} |-> m[x]] \in [DOMAIN m \ {k} -> R]
  BY MapsKnown
<1>. QED
  BY <1>1, <1>2, MapsMade

LEMMA KeysType ==
  ASSUME NEW D, NEW R, NEW m \in MapsOver(D, R)
  PROVE  Keys(m) \in Seq(DOMAIN m) /\ Keys(m) \in Seq(D)
<1>. DEFINE S == DOMAIN m
            N == Cardinality(S)
<1>1. IsFiniteSet(S) /\ S \subseteq D
  BY MapsKnown
<1>2. N \in Nat /\ ExistsBijection(1..N, S)
  BY <1>1, FS_CardinalityType
<1>3. PICK f \in [1..N -> S] : IsInjective(f)
  BY <1>2 DEF ExistsBijection, Bijection, Injection, IsInjective
<1>. QED
  BY <1>1, <1>2, <1>3 DEF Keys, SetToSeq

-----------------------------------------------------------------------------
\* Of each class: what its members are, that any of them may be set, and that
\* no constructor, Clear, MergeFrom, CopyFrom or Swap leaves the type.

LEMMA ResponseMembers ==
  ASSUME NEW U, NEW m \in ResponseType(U)
  PROVE  /\ m.message \in Seq(Int)
         /\ m.data \in Seq(Int)
         /\ m.code \in Int
         /\ m.reqTimeMillis \in Int
         /\ m.unknown \in Seq(U)
         /\ m.class = "Response"
         /\ \A v \in Seq(Int) : [m EXCEPT !.message = v] \in ResponseType(U)
         /\ \A v \in Seq(Int) : [m EXCEPT !.data = v] \in ResponseType(U)
         /\ \A v \in Int : [m EXCEPT !.code = v] \in ResponseType(U)
         /\ \A v \in Int : [m EXCEPT !.reqTimeMillis = v] \in ResponseType(U)
         /\ \A v \in Seq(U) : [m EXCEPT !.unknown = v] \in ResponseType(U)
BY DEF ResponseType

LEMMA ResponseKept ==
  ASSUME NEW U, NEW m \in ResponseType(U), NEW o \in ResponseType(U)
  PROVE  {Response_New, Response_Construct(o), Response_Clear(m), Response_MergeFrom(m, o),
          Response_CopyFrom(m, o), Response_Swap(m, o)} \subseteq ResponseType(U)
<1>1. /\ 0 \in Int
      /\ <<>> \in Seq(Int)
      /\ <<>> \in Seq(U)
  OBVIOUS
<1>2. Response_New \in ResponseType(U)
  BY <1>1 DEF Response_New, ResponseType
<1>3. Response_Construct(o) \in ResponseType(U)
  BY <1>2, ResponseMembers, Zenon DEF Response_Construct
<1>4. Response_Clear(m) \in ResponseType(U)
  BY <1>1, ResponseMembers, Zenon DEF Response_Clear
<1>5. ASSUME NEW x \in ResponseType(U) PROVE Response_MergeFrom(x, o) \in ResponseType(U)
  <2>1. /\ Unless(<<>>, o.message, x.message) \in Seq(Int)
        /\ Unless(<<>>, o.data, x.data) \in Seq(Int)
        /\ Unless(0, o.code, x.code) \in Int
        /\ Unless(0, o.reqTimeMillis, x.reqTimeMillis) \in Int
        /\ x.unknown \o o.unknown \in Seq(U)
    BY ResponseMembers DEF Unless
  <2>. QED
    BY <2>1, ResponseMembers, Zenon DEF Response_MergeFrom
<1>6. Response_Swap(m, o) \in ResponseType(U)
  BY ResponseMembers, Zenon DEF Response_Swap
<1>. QED
  BY <1>2, <1>3, <1>4, <1>5, <1>6 DEF Response_CopyFrom

LEMMA ErrorMembers ==
  ASSUME NEW U, NEW m \in ErrorType(U)
  PROVE  /\ m.message \in Seq(Int)
         /\ m.code \in Int
         /\ m.unknown \in Seq(U)
         /\ m.class = "Error"
         /\ \A v \in Seq(Int) : [m EXCEPT !.message = v] \in ErrorType(U)
         /\ \A v \in Int : [m EXCEPT !.code = v] \in ErrorType(U)
         /\ \A v \in Seq(U) : [m EXCEPT !.unknown = v] \in ErrorType(U)
BY DEF ErrorType

LEMMA ErrorKept ==
  ASSUME NEW U, NEW m \in ErrorType(U), NEW o \in ErrorType(U)
  PROVE  {Error_New, Error_Construct(o), Error_Clear(m), Error_MergeFrom(m, o),
          Error_CopyFrom(m, o), Error_Swap(m, o)} \subseteq ErrorType(U)
<1>1. /\ 0 \in Int
      /\ <<>> \in Seq(Int)
      /\ <<>> \in Seq(U)
  OBVIOUS
<1>2. Error_New \in ErrorType(U)
  BY <1>1 DEF Error_New, ErrorType
<1>3. Error_Construct(o) \in ErrorType(U)
  BY <1>2, ErrorMembers, Zenon DEF Error_Construct
<1>4. Error_Clear(m) \in ErrorType(U)
  BY <1>1, ErrorMembers, Zenon DEF Error_Clear
<1>5. ASSUME NEW x \in ErrorType(U) PROVE Error_MergeFrom(x, o) \in ErrorType(U)
  <2>1. /\ Unless(<<>>, o.message, x.message) \in Seq(Int)
        /\ Unless(0, o.code, x.code) \in Int
        /\ x.unknown \o o.unknown \in Seq(U)
    BY ErrorMembers DEF Unless
  <2>. QED
    BY <2>1, ErrorMembers, Zenon DEF Error_MergeFrom
<1>6. Error_Swap(m, o) \in ErrorType(U)
  BY ErrorMembers, Zenon DEF Error_Swap
<1>. QED
  BY <1>2, <1>3, <1>4, <1>5, <1>6 DEF Error_CopyFrom

LEMMA ServiceDataMembers ==
  ASSUME NEW U, NEW m \in ServiceDataType(U)
  PROVE  /\ m.value \in Seq(Int)
         /\ m.unknown \in Seq(U)
         /\ m.class = "OTServiceData"
         /\ \A v \in Seq(Int) : [m EXCEPT !.value = v] \in ServiceDataType(U)
         /\ \A v \in Seq(U) : [m EXCEPT !.unknown = v] \in ServiceDataType(U)
BY DEF ServiceDataType

LEMMA ServiceDataKept ==
  ASSUME NEW U, NEW m \in ServiceDataType(U), NEW o \in ServiceDataType(U)
  PROVE  {OTServiceData_New, OTServiceData_Construct(o), OTServiceData_Clear(m), OTServiceData_MergeFrom(m, o),
          OTServiceData_CopyFrom(m, o), OTServiceData_Swap(m, o)} \subseteq ServiceDataType(U)
<1>1. /\ <<>> \in Seq(Int)
      /\ <<>> \in Seq(U)
  OBVIOUS
<1>2. OTServiceData_New \in ServiceDataType(U)
  BY <1>1 DEF OTServiceData_New, ServiceDataType
<1>3. OTServiceData_Construct(o) \in ServiceDataType(U)
  BY <1>2, ServiceDataMembers, Zenon DEF OTServiceData_Construct
<1>4. OTServiceData_Clear(m) \in ServiceDataType(U)
  BY <1>1, ServiceDataMembers, Zenon DEF OTServiceData_Clear
<1>5. ASSUME NEW x \in ServiceDataType(U) PROVE OTServiceData_MergeFrom(x, o) \in ServiceDataType(U)
  <2>1. /\ Unless(<<>>, o.value, x.value) \in Seq(Int)
        /\ x.unknown \o o.unknown \in Seq(U)
    BY ServiceDataMembers DEF Unless
  <2>. QED
    BY <2>1, ServiceDataMembers, Zenon DEF OTServiceData_MergeFrom
<1>6. OTServiceData_Swap(m, o) \in ServiceDataType(U)
  BY ServiceDataMembers, Zenon DEF OTServiceData_Swap
<1>. QED
  BY <1>2, <1>3, <1>4, <1>5, <1>6 DEF OTServiceData_CopyFrom

LEMMA BytesMembers ==
  ASSUME NEW U, NEW m \in BytesType(U)
  PROVE  /\ m.bts \in Seq(Int)
         /\ m.unknown \in Seq(U)
         /\ m.class = "Bytes"
         /\ \A v \in Seq(Int) : [m EXCEPT !.bts = v] \in BytesType(U)
         /\ \A v \in Seq(U) : [m EXCEPT !.unknown = v] \in BytesType(U)
BY DEF BytesType

LEMMA BytesKept ==
  ASSUME NEW U, NEW m \in BytesType(U), NEW o \in BytesType(U)
  PROVE  {Bytes_New, Bytes_Construct(o), Bytes_Clear(m), Bytes_MergeFrom(m, o),
          Bytes_CopyFrom(m, o), Bytes_Swap(m, o)} \subseteq BytesType(U)
<1>1. /\ <<>> \in Seq(Int)
      /\ <<>> \in Seq(U)
  OBVIOUS
<1>2. Bytes_New \in BytesType(U)
  BY <1>1 DEF Bytes_New, BytesType
<1>3. Bytes_Construct(o) \in BytesType(U)
  BY <1>2, BytesMembers, Zenon DEF Bytes_Construct
<1>4. Bytes_Clear(m) \in BytesType(U)
  BY <1>1, BytesMembers, Zenon DEF Bytes_Clear
<1>5. ASSUME NEW x \in BytesType(U) PROVE Bytes_MergeFrom(x, o) \in BytesType(U)
  <2>1. /\ x.bts \o o.bts \in Seq(Int)
        /\ x.unknown \o o.unknown \in Seq(U)
    BY BytesMembers DEF Unless
  <2>. QED
    BY <2>1, BytesMembers, Zenon DEF Bytes_MergeFrom
<1>6. Bytes_Swap(m, o) \in BytesType(U)
  BY BytesMembers, Zenon DEF Bytes_Swap
<1>. QED
  BY <1>2, <1>3, <1>4, <1>5, <1>6 DEF Bytes_CopyFrom

LEMMA FieldsMembers ==
  ASSUME NEW U, NEW m \in FieldsType(U)
  PROVE  /\ m.msg \in MapsOver(Seq(Int), Seq(Int))
         /\ m.unknown \in Seq(U)
         /\ m.class = "Fields"
         /\ \A v \in MapsOver(Seq(Int), Seq(Int)) : [m EXCEPT !.msg = v] \in FieldsType(U)
         /\ \A v \in Seq(U) : [m EXCEPT !.unknown = v] \in FieldsType(U)
BY DEF FieldsType

LEMMA FieldsKept ==
  ASSUME NEW U, NEW m \in FieldsType(U), NEW o \in FieldsType(U)
  PROVE  {Fields_New, Fields_Construct(o), Fields_Clear(m), Fields_MergeFrom(m, o),
          Fields_CopyFrom(m, o), Fields_Swap(m, o)} \subseteq FieldsType(U)
<1>1. /\ <<>> \in MapsOver(Seq(Int), Seq(Int))
      /\ <<>> \in Seq(U)
  BY MapsNone
<1>2. Fields_New \in FieldsType(U)
  BY <1>1 DEF Fields_New, FieldsType
<1>3. Fields_Construct(o) \in FieldsType(U)
  <2>1. Fields_New.msg = <<>> /\ MergeMap(<<>>, o.msg) \in MapsOver(Seq(Int), Seq(Int))
    BY <1>1, FieldsMembers, MapsMerge DEF Fields_New
  <2>2. MergeMap(Fields_New.msg, o.msg) \in MapsOver(Seq(Int), Seq(Int))
    BY <2>1
  <2>. QED
    BY <1>2, <2>2, FieldsMembers, Zenon DEF Fields_Construct
<1>4. Fields_Clear(m) \in FieldsType(U)
  BY <1>1, FieldsMembers, Zenon DEF Fields_Clear
<1>5. ASSUME NEW x \in FieldsType(U) PROVE Fields_MergeFrom(x, o) \in FieldsType(U)
  <2>1. /\ MergeMap(x.msg, o.msg) \in MapsOver(Seq(Int), Seq(Int))
        /\ x.unknown \o o.unknown \in Seq(U)
    BY FieldsMembers, MapsMerge DEF Unless
  <2>. QED
    BY <2>1, FieldsMembers, Zenon DEF Fields_MergeFrom
<1>6. Fields_Swap(m, o) \in FieldsType(U)
  BY FieldsMembers, Zenon DEF Fields_Swap
<1>. QED
  BY <1>2, <1>3, <1>4, <1>5, <1>6 DEF Fields_CopyFrom

LEMMA ServerRequestMembers ==
  ASSUME NEW U, NEW V, NEW m \in ServerRequestType(U, V)
  PROVE  /\ m.keys \in Seq(Seq(Int))
         /\ m.bytes \in Seq(BytesType(V))
         /\ m.function \in Seq(Int)
         /\ m.sessionToken \in Int
         /\ m.k \in Int
         /\ m.unknown \in Seq(U)
         /\ m.class = "OTServerRequest"
         /\ \A v \in Seq(Seq(Int)) : [m EXCEPT !.keys = v] \in ServerRequestType(U, V)
         /\ \A v \in Seq(BytesType(V)) : [m EXCEPT !.bytes = v] \in ServerRequestType(U, V)
         /\ \A v \in Seq(Int) : [m EXCEPT !.function = v] \in ServerRequestType(U, V)
         /\ \A v \in Int : [m EXCEPT !.sessionToken = v] \in ServerRequestType(U, V)
         /\ \A v \in Int : [m EXCEPT !.k = v] \in ServerRequestType(U, V)
         /\ \A v \in Seq(U) : [m EXCEPT !.unknown = v] \in ServerRequestType(U, V)
BY DEF ServerRequestType

LEMMA ServerRequestKept ==
  ASSUME NEW U, NEW V, NEW m \in ServerRequestType(U, V), NEW o \in ServerRequestType(U, V)
  PROVE  {OTServerRequest_New, OTServerRequest_Construct(o), OTServerRequest_Clear(m), OTServerRequest_MergeFrom(m, o),
          OTServerRequest_CopyFrom(m, o), OTServerRequest_Swap(m, o)} \subseteq ServerRequestType(U, V)
<1>1. /\ 0 \in Int
      /\ <<>> \in Seq(BytesType(V))
      /\ <<>> \in Seq(Int)
      /\ <<>> \in Seq(Seq(Int))
      /\ <<>> \in Seq(U)
  OBVIOUS
<1>2. OTServerRequest_New \in ServerRequestType(U, V)
  BY <1>1 DEF OTServerRequest_New, ServerRequestType
<1>3. OTServerRequest_Construct(o) \in ServerRequestType(U, V)
  BY <1>2, ServerRequestMembers, Zenon DEF OTServerRequest_Construct
<1>4. OTServerRequest_Clear(m) \in ServerRequestType(U, V)
  BY <1>1, ServerRequestMembers, Zenon DEF OTServerRequest_Clear
<1>5. ASSUME NEW x \in ServerRequestType(U, V) PROVE OTServerRequest_MergeFrom(x, o) \in ServerRequestType(U, V)
  <2>1. /\ x.keys \o o.keys \in Seq(Seq(Int))
        /\ x.bytes \o o.bytes \in Seq(BytesType(V))
        /\ Unless(<<>>, o.function, x.function) \in Seq(Int)
        /\ Unless(0, o.sessionToken, x.sessionToken) \in Int
        /\ Unless(0, o.k, x.k) \in Int
        /\ x.unknown \o o.unknown \in Seq(U)
    BY ServerRequestMembers DEF Unless
  <2>. QED
    BY <2>1, ServerRequestMembers, Zenon DEF OTServerRequest_MergeFrom
<1>6. OTServerRequest_Swap(m, o) \in ServerRequestType(U, V)
  BY ServerRequestMembers, Zenon DEF OTServerRequest_Swap
<1>. QED
  BY <1>2, <1>3, <1>4, <1>5, <1>6 DEF OTServerRequest_CopyFrom

LEMMA ServerResponseMembers ==
  ASSUME NEW U, NEW V, NEW m \in ServerResponseType(U, V)
  PROVE  /\ m.values \in Seq(Seq(Int))
         /\ m.bytes \in Seq(BytesType(V))
         /\ m.function \in Seq(Int)
         /\ m.unknown \in Seq(U)
         /\ m.class = "OTServerResponse"
         /\ \A v \in Seq(Seq(Int)) : [m EXCEPT !.values = v] \in ServerResponseType(U, V)
         /\ \A v \in Seq(BytesType(V)) : [m EXCEPT !.bytes = v] \in ServerResponseType(U, V)
         /\ \A v \in Seq(Int) : [m EXCEPT !.function = v] \in ServerResponseType(U, V)
         /\ \A v \in Seq(U) : [m EXCEPT !.unknown = v] \in ServerResponseType(U, V)
BY DEF ServerResponseType

LEMMA ServerResponseKept ==
  ASSUME NEW U, NEW V, NEW m \in ServerResponseType(U, V), NEW o \in ServerResponseType(U, V)
  PROVE  {OTServerResponse_New, OTServerResponse_Construct(o), OTServerResponse_Clear(m), OTServerResponse_MergeFrom(m, o),
          OTServerResponse_CopyFrom(m, o), OTServerResponse_Swap(m, o)} \subseteq ServerResponseType(U, V)
<1>1. /\ <<>> \in Seq(BytesType(V))
      /\ <<>> \in Seq(Int)
      /\ <<>> \in Seq(Seq(Int))
      /\ <<>> \in Seq(U)
  OBVIOUS
<1>2. OTServerResponse_New \in ServerResponseType(U, V)
  BY <1>1 DEF OTServerResponse_New, ServerResponseType
<1>3. OTServerResponse_Construct(o) \in ServerResponseType(U, V)
  BY <1>2, ServerResponseMembers, Zenon DEF OTServerResponse_Construct
<1>4. OTServerResponse_Clear(m) \in ServerResponseType(U, V)
  BY <1>1, ServerResponseMembers, Zenon DEF OTServerResponse_Clear
<1>5. ASSUME NEW x \in ServerResponseType(U, V) PROVE OTServerResponse_MergeFrom(x, o) \in ServerResponseType(U, V)
  <2>1. /\ x.values \o o.values \in Seq(Seq(Int))
        /\ x.bytes \o o.bytes \in Seq(BytesType(V))
        /\ Unless(<<>>, o.function, x.function) \in Seq(Int)
        /\ x.unknown \o o.unknown \in Seq(U)
    BY ServerResponseMembers DEF Unless
  <2>. QED
    BY <2>1, ServerResponseMembers, Zenon DEF OTServerResponse_MergeFrom
<1>6. OTServerResponse_Swap(m, o) \in ServerResponseType(U, V)
  BY ServerResponseMembers, Zenon DEF OTServerResponse_Swap
<1>. QED
  BY <1>2, <1>3, <1>4, <1>5, <1>6 DEF OTServerResponse_CopyFrom

LEMMA ClientRequestMembers ==
  ASSUME NEW U, NEW m \in ClientRequestType(U)
  PROVE  /\ m.uinWithLabelMap \in MapsOver(Int, Int)
         /\ m.function \in Seq(Int)
         /\ m.unknown \in Seq(U)
         /\ m.class = "OTClientRequest"
         /\ \A v \in MapsOver(Int, Int) : [m EXCEPT !.uinWithLabelMap = v] \in ClientRequestType(U)
         /\ \A v \in Seq(Int) : [m EXCEPT !.function = v] \in ClientRequestType(U)
         /\ \A v \in Seq(U) : [m EXCEPT !.unknown = v] \in ClientRequestType(U)
BY DEF ClientRequestType

LEMMA ClientRequestKept ==
  ASSUME NEW U, NEW m \in ClientRequestType(U), NEW o \in ClientRequestType(U)
  PROVE  {OTClientRequest_New, OTClientRequest_Construct(o), OTClientRequest_Clear(m), OTClientRequest_MergeFrom(m, o),
          OTClientRequest_CopyFrom(m, o), OTClientRequest_Swap(m, o)} \subseteq ClientRequestType(U)
<1>1. /\ <<>> \in MapsOver(Int, Int)
      /\ <<>> \in Seq(Int)
      /\ <<>> \in Seq(U)
  BY MapsNone
<1>2. OTClientRequest_New \in ClientRequestType(U)
  BY <1>1 DEF OTClientRequest_New, ClientRequestType
<1>3. OTClientRequest_Construct(o) \in ClientRequestType(U)
  <2>1. OTClientRequest_New.uinWithLabelMap = <<>> /\ MergeMap(<<>>, o.uinWithLabelMap) \in MapsOver(Int, Int)
    BY <1>1, ClientRequestMembers, MapsMerge DEF OTClientRequest_New
  <2>2. MergeMap(OTClientRequest_New.uinWithLabelMap, o.uinWithLabelMap) \in MapsOver(Int, Int)
    BY <2>1
  <2>. QED
    BY <1>2, <2>2, ClientRequestMembers, Zenon DEF OTClientRequest_Construct
<1>4. OTClientRequest_Clear(m) \in ClientRequestType(U)
  BY <1>1, ClientRequestMembers, Zenon DEF OTClientRequest_Clear
<1>5. ASSUME NEW x \in ClientRequestType(U) PROVE OTClientRequest_MergeFrom(x, o) \in ClientRequestType(U)
  <2>1. /\ MergeMap(x.uinWithLabelMap, o.uinWithLabelMap) \in MapsOver(Int, Int)
        /\ Unless(<<>>, o.function, x.function) \in Seq(Int)
        /\ x.unknown \o o.unknown \in Seq(U)
    BY ClientRequestMembers, MapsMerge DEF Unless
  <2>. QED
    BY <2>1, ClientRequestMembers, Zenon DEF OTClientRequest_MergeFrom
<1>6. OTClientRequest_Swap(m, o) \in ClientRequestType(U)
  BY ClientRequestMembers, Zenon DEF OTClientRequest_Swap
<1>. QED
  BY <1>2, <1>3, <1>4, <1>5, <1>6 DEF OTClientRequest_CopyFrom

LEMMA ClientResponseMembers ==
  ASSUME NEW U, NEW m \in ClientResponseType(U)
  PROVE  /\ m.resMap \in MapsOver(Seq(Int), Seq(Int))
         /\ m.function \in Seq(Int)
         /\ m.reqTimeMillis \in Int
         /\ m.unknown \in Seq(U)
         /\ m.class = "OTClientResponse"
         /\ \A v \in MapsOver(Seq(Int), Seq(Int)) : [m EXCEPT !.resMap = v] \in ClientResponseType(U)
         /\ \A v \in Seq(Int) : [m EXCEPT !.function = v] \in ClientResponseType(U)
         /\ \A v \in Int : [m EXCEPT !.reqTimeMillis = v] \in ClientResponseType(U)
         /\ \A v \in Seq(U) : [m EXCEPT !.unknown = v] \in ClientResponseType(U)
BY DEF ClientResponseType

LEMMA ClientResponseKept ==
  ASSUME NEW U, NEW m \in ClientResponseType(U), NEW o \in ClientResponseType(U)
  PROVE  {OTClientResponse_New, OTClientResponse_Construct(o), OTClientResponse_Clear(m), OTClientResponse_MergeFrom(m, o),
          OTClientResponse_CopyFrom(m, o), OTClientResponse_Swap(m, o)} \subseteq ClientResponseType(U)
<1>1. /\ 0 \in Int
      /\ <<>> \in MapsOver(Seq(Int), Seq(Int))
      /\ <<>> \in Seq(Int)
      /\ <<>> \in Seq(U)
  BY MapsNone
<1>2. OTClientResponse_New \in ClientResponseType(U)
  BY <1>1 DEF OTClientResponse_New, ClientResponseType
<1>3. OTClientResponse_Construct(o) \in ClientResponseType(U)
  <2>1. OTClientResponse_New.resMap = <<>> /\ MergeMap(<<>>, o.resMap) \in MapsOver(Seq(Int), Seq(Int))
    BY <1>1, ClientResponseMembers, MapsMerge DEF OTClientResponse_New
  <2>2. MergeMap(OTClientResponse_New.resMap, o.resMap) \in MapsOver(Seq(Int), Seq(Int))
    BY <2>1
  <2>. QED
    BY <1>2, <2>2, ClientResponseMembers, Zenon DEF OTClientResponse_Construct
<1>4. OTClientResponse_Clear(m) \in ClientResponseType(U)
  BY <1>1, ClientResponseMembers, Zenon DEF OTClientResponse_Clear
<1>5. ASSUME NEW x \in ClientResponseType(U) PROVE OTClientResponse_MergeFrom(x, o) \in ClientResponseType(U)
  <2>1. /\ MergeMap(x.resMap, o.resMap) \in MapsOver(Seq(Int), Seq(Int))
        /\ Unless(<<>>, o.function, x.function) \in Seq(Int)
        /\ Unless(0, o.reqTimeMillis, x.reqTimeMillis) \in Int
        /\ x.unknown \o o.unknown \in Seq(U)
    BY ClientResponseMembers, MapsMerge DEF Unless
  <2>. QED
    BY <2>1, ClientResponseMembers, Zenon DEF OTClientResponse_MergeFrom
<1>6. OTClientResponse_Swap(m, o) \in ClientResponseType(U)
  BY ClientResponseMembers, Zenon DEF OTClientResponse_Swap
<1>. QED
  BY <1>2, <1>3, <1>4, <1>5, <1>6 DEF OTClientResponse_CopyFrom

-----------------------------------------------------------------------------
\* What each class reads is of its type.

\* The fields that hold a key and a value where a map has its number.
MapFields(tag, F) == {f \in F : f.tag = tag => Len(f.sub) = 2}

LEMMA EntryMembers ==
  ASSUME NEW H, NEW tag, NEW f \in MapFields(tag, FieldsOver(FieldsOver(H))), f.tag = tag
  PROVE  /\ f.sub[1] \in FieldsOver(H) /\ f.sub[2] \in FieldsOver(H) /\ DOMAIN f.sub = {1, 2}
         /\ f.sub[1].s \in Seq(Int) /\ f.sub[2].s \in Seq(Int)
         /\ f.sub[1].n \in Int /\ f.sub[2].n \in Int
<1>1. f.sub \in Seq(FieldsOver(H)) /\ Len(f.sub) = 2
  BY DEF MapFields, FieldsOver
<1>2. f.sub[1] \in FieldsOver(H) /\ f.sub[2] \in FieldsOver(H) /\ DOMAIN f.sub = {1, 2}
  BY <1>1
<1>. QED
  BY <1>2 DEF FieldsOver

LEMMA BytesReads ==
  ASSUME NEW H, NEW U, U \subseteq FieldsOver(H),
         NEW m \in BytesType(U), NEW f \in U
  PROVE  Bytes_Field(m, f) \in Readings(BytesType(U))
<1>1. /\ m.unknown \in Seq(U)
      /\ Append(m.unknown, f) \in Seq(U)
      /\ f.n \in Int
      /\ f.s \in Seq(Int)
      /\ VerifyUTF8(f.s) \in BOOLEAN
      /\ m.bts \o f.ns \in Seq(Int)
      /\ Append(m.bts, f.n) \in Seq(Int)
  BY BytesMembers DEF FieldsOver, VerifyUTF8
<1>5. /\ Read([m EXCEPT !.bts = @ \o f.ns]) \in Readings(BytesType(U))
      /\ Read([m EXCEPT !.bts = Append(@, f.n)]) \in Readings(BytesType(U))
      /\ Unknown(m, f) \in Readings(BytesType(U))
  BY <1>1, BytesMembers DEF Read, ReadIf, Unknown, Readings
<1>. QED
  BY <1>5 DEF Bytes_Field

LEMMA ResponseReads ==
  ASSUME NEW H, NEW U, U \subseteq FieldsOver(H),
         NEW m \in ResponseType(U), NEW f \in U
  PROVE  Response_Field(m, f) \in Readings(ResponseType(U))
<1>1. /\ m.unknown \in Seq(U)
      /\ Append(m.unknown, f) \in Seq(U)
      /\ f.n \in Int
      /\ f.s \in Seq(Int)
      /\ VerifyUTF8(f.s) \in BOOLEAN
  BY ResponseMembers DEF FieldsOver, VerifyUTF8
<1>5. /\ Read([m EXCEPT !.code = f.n]) \in Readings(ResponseType(U))
      /\ ReadIf(VerifyUTF8(f.s), [m EXCEPT !.message = f.s]) \in Readings(ResponseType(U))
      /\ Read([m EXCEPT !.reqTimeMillis = f.n]) \in Readings(ResponseType(U))
      /\ ReadIf(VerifyUTF8(f.s), [m EXCEPT !.data = f.s]) \in Readings(ResponseType(U))
      /\ Unknown(m, f) \in Readings(ResponseType(U))
  BY <1>1, ResponseMembers DEF Read, ReadIf, Unknown, Readings
<1>. QED
  BY <1>5 DEF Response_Field

LEMMA ErrorReads ==
  ASSUME NEW H, NEW U, U \subseteq FieldsOver(H),
         NEW m \in ErrorType(U), NEW f \in U
  PROVE  Error_Field(m, f) \in Readings(ErrorType(U))
<1>1. /\ m.unknown \in Seq(U)
      /\ Append(m.unknown, f) \in Seq(U)
      /\ f.n \in Int
      /\ f.s \in Seq(Int)
      /\ VerifyUTF8(f.s) \in BOOLEAN
  BY ErrorMembers DEF FieldsOver, VerifyUTF8
<1>5. /\ Read([m EXCEPT !.code = f.n]) \in Readings(ErrorType(U))
      /\ ReadIf(VerifyUTF8(f.s), [m EXCEPT !.message = f.s]) \in Readings(ErrorType(U))
      /\ Unknown(m, f) \in Readings(ErrorType(U))
  BY <1>1, ErrorMembers DEF Read, ReadIf, Unknown, Readings
<1>. QED
  BY <1>5 DEF Error_Field

LEMMA ServiceDataReads ==
  ASSUME NEW H, NEW U, U \subseteq FieldsOver(H),
         NEW m \in ServiceDataType(U), NEW f \in U
  PROVE  OTServiceData_Field(m, f) \in Readings(ServiceDataType(U))
<1>1. /\ m.unknown \in Seq(U)
      /\ Append(m.unknown, f) \in Seq(U)
      /\ f.n \in Int
      /\ f.s \in Seq(Int)
      /\ VerifyUTF8(f.s) \in BOOLEAN
  BY ServiceDataMembers DEF FieldsOver, VerifyUTF8
<1>5. /\ ReadIf(VerifyUTF8(f.s), [m EXCEPT !.value = f.s]) \in Readings(ServiceDataType(U))
      /\ Unknown(m, f) \in Readings(ServiceDataType(U))
  BY <1>1, ServiceDataMembers DEF Read, ReadIf, Unknown, Readings
<1>. QED
  BY <1>5 DEF OTServiceData_Field

LEMMA FieldsReads ==
  ASSUME NEW H, NEW U, U \subseteq MapFields(10, FieldsOver(FieldsOver(H))),
         NEW m \in FieldsType(U), NEW f \in U
  PROVE  Fields_Field(m, f) \in Readings(FieldsType(U))
<1>1. /\ m.unknown \in Seq(U)
      /\ Append(m.unknown, f) \in Seq(U)
      /\ f.n \in Int
      /\ f.s \in Seq(Int)
      /\ VerifyUTF8(f.s) \in BOOLEAN
  BY FieldsMembers DEF FieldsOver, VerifyUTF8, MapFields
<1>2. ASSUME f.tag = 10 PROVE MergeMap(m.msg, TextEntry(f.sub)) \in MapsOver(Seq(Int), Seq(Int))
  BY <1>2, EntryMembers, MapsOne, MapsMerge, FieldsMembers DEF TextEntry
<1>3. Fields_MsgEntry_Valid(f.sub) \in BOOLEAN
  BY DEF Fields_MsgEntry_Valid
<1>5. /\ f.tag = 10 => Read([m EXCEPT !.msg = MergeMap(@, TextEntry(f.sub))]) \in Readings(FieldsType(U))
      /\ Unknown(m, f) \in Readings(FieldsType(U))
      /\ ReadIf(FALSE, m) \in Readings(FieldsType(U))
  BY <1>1, <1>2, <1>3, FieldsMembers DEF Read, ReadIf, Unknown, Readings
<1>. QED
  BY <1>5, <1>3 DEF Fields_Field

LEMMA ServerRequestReads ==
  ASSUME NEW H, NEW U, U \subseteq FieldsOver(FieldsOver(H)),
         NEW m \in ServerRequestType(U, FieldsOver(H)), NEW f \in U
  PROVE  OTServerRequest_Field(m, f) \in Readings(ServerRequestType(U, FieldsOver(H)))
<1>1. /\ m.unknown \in Seq(U)
      /\ Append(m.unknown, f) \in Seq(U)
      /\ f.n \in Int
      /\ f.s \in Seq(Int)
      /\ VerifyUTF8(f.s) \in BOOLEAN
      /\ Append(m.keys, f.s) \in Seq(Seq(Int))
  BY ServerRequestMembers DEF FieldsOver, VerifyUTF8
<1>. DEFINE bytes == ParseWith(Bytes_Field, Bytes_New, f.sub)
<1>2. bytes \in Readings(BytesType(FieldsOver(H)))
  <2>1. f.sub \in Seq(FieldsOver(H))
    BY DEF FieldsOver
  <2>2. Bytes_New \in BytesType(FieldsOver(H))
    BY DEF Bytes_New, BytesType
  <2>. QED
    BY <2>1, <2>2, BytesReads, BytesParseStays
<1>3. bytes.ok \in BOOLEAN /\ Append(m.bytes, bytes.msg) \in Seq(BytesType(FieldsOver(H)))
  BY <1>2, ServerRequestMembers DEF Readings
<1>. HIDE DEF bytes
<1>5. /\ ReadIf(VerifyUTF8(f.s), [m EXCEPT !.function = f.s]) \in Readings(ServerRequestType(U, FieldsOver(H)))
      /\ Read([m EXCEPT !.sessionToken = f.n]) \in Readings(ServerRequestType(U, FieldsOver(H)))
      /\ Read([m EXCEPT !.k = f.n]) \in Readings(ServerRequestType(U, FieldsOver(H)))
      /\ ReadIf(VerifyUTF8(f.s), [m EXCEPT !.keys = Append(@, f.s)]) \in Readings(ServerRequestType(U, FieldsOver(H)))
      /\ ReadIf(bytes.ok, [m EXCEPT !.bytes = Append(@, bytes.msg)]) \in Readings(ServerRequestType(U, FieldsOver(H)))
      /\ Unknown(m, f) \in Readings(ServerRequestType(U, FieldsOver(H)))
  BY <1>1, <1>3, ServerRequestMembers DEF Read, ReadIf, Unknown, Readings
<1>. QED
  BY <1>5 DEF OTServerRequest_Field, bytes

LEMMA ServerResponseReads ==
  ASSUME NEW H, NEW U, U \subseteq FieldsOver(FieldsOver(H)),
         NEW m \in ServerResponseType(U, FieldsOver(H)), NEW f \in U
  PROVE  OTServerResponse_Field(m, f) \in Readings(ServerResponseType(U, FieldsOver(H)))
<1>1. /\ m.unknown \in Seq(U)
      /\ Append(m.unknown, f) \in Seq(U)
      /\ f.n \in Int
      /\ f.s \in Seq(Int)
      /\ VerifyUTF8(f.s) \in BOOLEAN
      /\ Append(m.values, f.s) \in Seq(Seq(Int))
  BY ServerResponseMembers DEF FieldsOver, VerifyUTF8
<1>. DEFINE bytes == ParseWith(Bytes_Field, Bytes_New, f.sub)
<1>2. bytes \in Readings(BytesType(FieldsOver(H)))
  <2>1. f.sub \in Seq(FieldsOver(H))
    BY DEF FieldsOver
  <2>2. Bytes_New \in BytesType(FieldsOver(H))
    BY DEF Bytes_New, BytesType
  <2>. QED
    BY <2>1, <2>2, BytesReads, BytesParseStays
<1>3. bytes.ok \in BOOLEAN /\ Append(m.bytes, bytes.msg) \in Seq(BytesType(FieldsOver(H)))
  BY <1>2, ServerResponseMembers DEF Readings
<1>. HIDE DEF bytes
<1>5. /\ ReadIf(VerifyUTF8(f.s), [m EXCEPT !.function = f.s]) \in Readings(ServerResponseType(U, FieldsOver(H)))
      /\ ReadIf(VerifyUTF8(f.s), [m EXCEPT !.values = Append(@, f.s)]) \in Readings(ServerResponseType(U, FieldsOver(H)))
      /\ ReadIf(bytes.ok, [m EXCEPT !.bytes = Append(@, bytes.msg)]) \in Readings(ServerResponseType(U, FieldsOver(H)))
      /\ Unknown(m, f) \in Readings(ServerResponseType(U, FieldsOver(H)))
  BY <1>1, <1>3, ServerResponseMembers DEF Read, ReadIf, Unknown, Readings
<1>. QED
  BY <1>5 DEF OTServerResponse_Field, bytes

LEMMA ClientRequestReads ==
  ASSUME NEW H, NEW U, U \subseteq MapFields(18, FieldsOver(FieldsOver(H))),
         NEW m \in ClientRequestType(U), NEW f \in U
  PROVE  OTClientRequest_Field(m, f) \in Readings(ClientRequestType(U))
<1>1. /\ m.unknown \in Seq(U)
      /\ Append(m.unknown, f) \in Seq(U)
      /\ f.n \in Int
      /\ f.s \in Seq(Int)
      /\ VerifyUTF8(f.s) \in BOOLEAN
  BY ClientRequestMembers DEF FieldsOver, VerifyUTF8, MapFields
<1>2. ASSUME f.tag = 18 PROVE MergeMap(m.uinWithLabelMap, NumberEntry(f.sub)) \in MapsOver(Int, Int)
  BY <1>2, EntryMembers, MapsOne, MapsMerge, ClientRequestMembers DEF NumberEntry
<1>5. /\ ReadIf(VerifyUTF8(f.s), [m EXCEPT !.function = f.s]) \in Readings(ClientRequestType(U))
      /\ f.tag = 18 => Read([m EXCEPT !.uinWithLabelMap = MergeMap(@, NumberEntry(f.sub))]) \in Readings(ClientRequestType(U))
      /\ Unknown(m, f) \in Readings(ClientRequestType(U))
  BY <1>1, <1>2, ClientRequestMembers DEF Read, ReadIf, Unknown, Readings
<1>. QED
  BY <1>5 DEF OTClientRequest_Field

LEMMA ClientResponseReads ==
  ASSUME NEW H, NEW U, U \subseteq MapFields(26, FieldsOver(FieldsOver(H))),
         NEW m \in ClientResponseType(U), NEW f \in U
  PROVE  OTClientResponse_Field(m, f) \in Readings(ClientResponseType(U))
<1>1. /\ m.unknown \in Seq(U)
      /\ Append(m.unknown, f) \in Seq(U)
      /\ f.n \in Int
      /\ f.s \in Seq(Int)
      /\ VerifyUTF8(f.s) \in BOOLEAN
  BY ClientResponseMembers DEF FieldsOver, VerifyUTF8, MapFields
<1>2. ASSUME f.tag = 26 PROVE MergeMap(m.resMap, TextEntry(f.sub)) \in MapsOver(Seq(Int), Seq(Int))
  BY <1>2, EntryMembers, MapsOne, MapsMerge, ClientResponseMembers DEF TextEntry
<1>3. OTClientResponse_ResMapEntry_Valid(f.sub) \in BOOLEAN
  BY DEF OTClientResponse_ResMapEntry_Valid
<1>5. /\ ReadIf(VerifyUTF8(f.s), [m EXCEPT !.function = f.s]) \in Readings(ClientResponseType(U))
      /\ Read([m EXCEPT !.reqTimeMillis = f.n]) \in Readings(ClientResponseType(U))
      /\ f.tag = 26 => Read([m EXCEPT !.resMap = MergeMap(@, TextEntry(f.sub))]) \in Readings(ClientResponseType(U))
      /\ Unknown(m, f) \in Readings(ClientResponseType(U))
      /\ ReadIf(FALSE, m) \in Readings(ClientResponseType(U))
  BY <1>1, <1>2, <1>3, ClientResponseMembers DEF Read, ReadIf, Unknown, Readings
<1>. QED
  BY <1>5, <1>3 DEF OTClientResponse_Field

-----------------------------------------------------------------------------
\* Sizes are lengths, piece by piece of what a class writes.

LEMMA FieldsMade ==
  ASSUME NEW G, NEW tag \in Nat
  PROVE  /\ \A n \in Int : Varint(tag, n) \in FieldsOver(G) /\ Fixed32(tag, n) \in FieldsOver(G)
         /\ \A s \in Seq(Int) : String(tag, s) \in FieldsOver(G)
         /\ \A ns \in Seq(Int), len \in Nat : Packed(tag, ns, len) \in FieldsOver(G)
         /\ \A w \in Seq(G), len \in Nat : Message(tag, w, len) \in FieldsOver(G)
<1>1. <<>> \in Seq(G) /\ <<>> \in Seq(Int) /\ 0 \in Nat /\ 0 \in Int
  OBVIOUS
<1>2. /\ Blank \in FieldsOver(G)
      /\ \A f \in FieldsOver(G), x \in Nat : [f EXCEPT !.tag = x] \in FieldsOver(G)
                                          /\ [f EXCEPT !.len = x] \in FieldsOver(G)
      /\ \A f \in FieldsOver(G), x \in Int : [f EXCEPT !.n = x] \in FieldsOver(G)
      /\ \A f \in FieldsOver(G), x \in Seq(Int) : [f EXCEPT !.s = x] \in FieldsOver(G)
                                               /\ [f EXCEPT !.ns = x] \in FieldsOver(G)
      /\ \A f \in FieldsOver(G), x \in Seq(G) : [f EXCEPT !.sub = x] \in FieldsOver(G)
  BY <1>1 DEF Blank, FieldsOver
<1>3. \A s \in Seq(Int) : Len(s) \in Nat
  OBVIOUS
<1>4. /\ \A n \in Int : Varint(tag, n) \in FieldsOver(G) /\ Fixed32(tag, n) \in FieldsOver(G)
      /\ \A s \in Seq(Int) : String(tag, s) \in FieldsOver(G)
  BY <1>2, <1>3, Zenon DEF Varint, Fixed32, String
<1>5. /\ \A ns \in Seq(Int), len \in Nat : Packed(tag, ns, len) \in FieldsOver(G)
      /\ \A w \in Seq(G), len \in Nat : Message(tag, w, len) \in FieldsOver(G)
  BY <1>2, Zenon DEF Packed, Message
<1>. QED
  BY <1>4, <1>5

LEMMA FieldsMadeSize ==
  ASSUME NEW tag \in Nat
  PROVE  /\ tag % 8 = 0 => \A n : FieldSize(Varint(tag, n)) = 1 + VarintSize(n)
         /\ tag % 8 = 5 => \A n : FieldSize(Fixed32(tag, n)) = 1 + 4
         /\ tag % 8 = 2 => /\ \A s : FieldSize(String(tag, s)) = 1 + Delimited(Len(s))
                           /\ \A ns, len : FieldSize(Packed(tag, ns, len)) = 1 + Delimited(len)
                           /\ \A w, len : FieldSize(Message(tag, w, len)) = 1 + Delimited(len)
BY DEF Varint, Fixed32, String, Packed, Message, Blank, FieldSize

LEMMA DelimitedType ==
  ASSUME NEW len \in Nat
  PROVE  Delimited(len) \in Nat
BY VarintSizeType DEF Delimited

LEMMA StringSizeType ==
  ASSUME NEW X, NEW s \in Seq(X)
  PROVE  StringSize(s) \in Nat
<1>1. Len(s) \in Nat
  OBVIOUS
<1>. QED
  BY <1>1, DelimitedType DEF StringSize

LEMMA VarintPart ==
  ASSUME NEW G, NEW tag \in Nat, tag % 8 = 0, NEW n \in Int
  PROVE  /\ VarintUnlessZero(tag, n) \in Seq(FieldsOver(G))
         /\ WireSize(VarintUnlessZero(tag, n)) = IF n = 0 THEN 0 ELSE UInt32SizePlusOne(n)
         /\ (IF n = 0 THEN 0 ELSE UInt32SizePlusOne(n)) \in Nat
<1>1. /\ Varint(tag, n) \in FieldsOver(G) /\ <<Varint(tag, n)>> \in Seq(FieldsOver(G))
      /\ WireSize(<<Varint(tag, n)>>) = 1 + VarintSize(n)
  BY FieldsMade, FieldsMadeSize, WireSizeOfOne
<1>. QED
  BY <1>1, WireSizeEmpty, VarintSizeType DEF VarintUnlessZero, UInt32SizePlusOne

LEMMA Fixed32Part ==
  ASSUME NEW G, NEW tag \in Nat, tag % 8 = 5, NEW n \in Int
  PROVE  /\ Fixed32UnlessZero(tag, n) \in Seq(FieldsOver(G))
         /\ WireSize(Fixed32UnlessZero(tag, n)) = IF n = 0 THEN 0 ELSE 1 + 4
         /\ (IF n = 0 THEN 0 ELSE 1 + 4) \in Nat
<1>1. /\ Fixed32(tag, n) \in FieldsOver(G) /\ <<Fixed32(tag, n)>> \in Seq(FieldsOver(G))
      /\ WireSize(<<Fixed32(tag, n)>>) = 1 + 4
  BY FieldsMade, FieldsMadeSize, WireSizeOfOne
<1>. QED
  BY <1>1, WireSizeEmpty DEF Fixed32UnlessZero

LEMMA StringPart ==
  ASSUME NEW G, NEW tag \in Nat, tag % 8 = 2, NEW s \in Seq(Int)
  PROVE  /\ StringUnlessEmpty(tag, s) \in Seq(FieldsOver(G))
         /\ WireSize(StringUnlessEmpty(tag, s)) = IF s = <<>> THEN 0 ELSE 1 + StringSize(s)
         /\ (IF s = <<>> THEN 0 ELSE 1 + StringSize(s)) \in Nat
<1>1. /\ String(tag, s) \in FieldsOver(G) /\ <<String(tag, s)>> \in Seq(FieldsOver(G))
      /\ WireSize(<<String(tag, s)>>) = 1 + StringSize(s)
  BY FieldsMade, FieldsMadeSize, WireSizeOfOne DEF StringSize
<1>. QED
  BY <1>1, WireSizeEmpty, StringSizeType DEF StringUnlessEmpty

\* The wire of a repeated field or of a map.
LEMMA PartsSize ==
  ASSUME NEW G, NEW w \in Seq(FieldsOver(G)), NEW ns \in Seq(Int), Len(w) = Len(ns),
         \A i \in 1..Len(w) : FieldSize(w[i]) = 1 + ns[i]
  PROVE  WireSize(w) = Len(ns) + Total(ns)
<1>1. FieldSizes(w) = [i \in 1..Len(ns) |-> 1 + ns[i]]
  BY DEF FieldSizes
<1>. QED
  BY <1>1, WireSizeIsTotal, TotalWithTags

LEMMA TextsPart ==
  ASSUME NEW G, NEW tag \in Nat, tag % 8 = 2, NEW seq \in Seq(Seq(Int))
  PROVE  /\ Each(LAMBDA s : String(tag, s), seq) \in Seq(FieldsOver(G))
         /\ WireSize(Each(LAMBDA s : String(tag, s), seq)) = TextSizes(seq)
         /\ TextSizes(seq) \in Nat
<1>. DEFINE w == [i \in 1..Len(seq) |-> String(tag, seq[i])]
            ns == [i \in 1..Len(seq) |-> StringSize(seq[i])]
<1>1. ASSUME NEW i \in 1..Len(seq)
      PROVE  /\ String(tag, seq[i]) \in FieldsOver(G) /\ StringSize(seq[i]) \in Nat
             /\ FieldSize(String(tag, seq[i])) = 1 + StringSize(seq[i])
  <2>1. seq[i] \in Seq(Int)
    OBVIOUS
  <2>. QED
    BY <2>1, FieldsMade, FieldsMadeSize, StringSizeType DEF StringSize
<1>2. w \in Seq(FieldsOver(G)) /\ ns \in Seq(Nat) /\ ns \in Seq(Int) /\ Len(w) = Len(seq)
      /\ Len(ns) = Len(seq) /\ Len(seq) \in Nat
  BY <1>1
<1>3. ASSUME NEW i \in 1..Len(w) PROVE FieldSize(w[i]) = 1 + ns[i]
  BY <1>1, <1>2
<1>4. Each(LAMBDA s : String(tag, s), seq) = w /\ TextSizes(seq) = Len(seq) + Total(ns)
  BY Zenon DEF Each, TextSizes, SumOf
<1>. HIDE DEF w, ns
<1>. QED
  BY <1>2, <1>3, <1>4, PartsSize, TotalIsNat

LEMMA BytesSizeIsLength ==
  ASSUME NEW H, NEW m \in BytesType(FieldsOver(H))
  PROVE  /\ Bytes_Serialize(m) \in Seq(FieldsOver(H))
         /\ Bytes_ByteSizeLong(m) \in Nat
         /\ WireSize(Bytes_Serialize(m)) = Bytes_ByteSizeLong(m)
<1>. DEFINE F == FieldsOver(H)
            size == UInt32Size(m.bts)
            part == IF size > 0 THEN <<Packed(10, m.bts, size)>> ELSE <<>>
<1>1. m.bts \in Seq(Int) /\ m.unknown \in Seq(F) /\ size \in Nat
  BY BytesMembers, UInt32SizeType
<1>2. /\ Packed(10, m.bts, size) \in F /\ <<Packed(10, m.bts, size)>> \in Seq(F)
      /\ WireSize(<<Packed(10, m.bts, size)>>) = 1 + Delimited(size)
  BY <1>1, FieldsMade, FieldsMadeSize, WireSizeOfOne
<1>3. VarintSize(size) \in Nat /\ WireSize(m.unknown) \in Nat
  BY <1>1, VarintSizeType, WireSizeType
<1>4. part \in Seq(F) /\ WireSize(part) = IF size > 0 THEN 1 + Delimited(size) ELSE 0
  BY <1>2, WireSizeEmpty
<1>5. Bytes_Serialize(m) = part \o m.unknown
  BY DEF Bytes_Serialize
<1>. HIDE DEF part
<1>6. part \o m.unknown \in Seq(F) /\ WireSize(part \o m.unknown) = WireSize(part) + WireSize(m.unknown)
  BY <1>1, <1>4, WireSizeConcat, ConcatProperties
<1>7. Bytes_ByteSizeLong(m)
        = (IF size > 0 THEN 1 + VarintSize(size) ELSE 0) + size + WireSize(m.unknown)
  BY DEF Bytes_ByteSizeLong
<1>. HIDE DEF size
<1>. QED
  BY <1>1, <1>3, <1>4, <1>5, <1>6, <1>7 DEF Delimited

LEMMA BytesPart ==
  ASSUME NEW H, NEW tag \in Nat, tag % 8 = 2, NEW seq \in Seq(BytesType(FieldsOver(H)))
  PROVE  /\ Each(LAMBDA b : WriteBytes(tag, b), seq) \in Seq(FieldsOver(FieldsOver(H)))
         /\ WireSize(Each(LAMBDA b : WriteBytes(tag, b), seq)) = BytesSizes(seq)
         /\ BytesSizes(seq) \in Nat
<1>. DEFINE F == FieldsOver(FieldsOver(H))
            w == [i \in 1..Len(seq) |-> WriteBytes(tag, seq[i])]
            ns == [i \in 1..Len(seq) |-> BytesSize(seq[i])]
<1>1. ASSUME NEW i \in 1..Len(seq)
      PROVE  /\ WriteBytes(tag, seq[i]) \in F /\ BytesSize(seq[i]) \in Nat
             /\ FieldSize(WriteBytes(tag, seq[i])) = 1 + BytesSize(seq[i])
  <2>1. seq[i] \in BytesType(FieldsOver(H))
    OBVIOUS
  <2>2. Bytes_Serialize(seq[i]) \in Seq(FieldsOver(H)) /\ Bytes_ByteSizeLong(seq[i]) \in Nat
    BY <2>1, BytesSizeIsLength
  <2>. DEFINE f == Message(tag, Bytes_Serialize(seq[i]), Bytes_ByteSizeLong(seq[i]))
  <2>3. f \in F
    BY <2>2, FieldsMade
  <2>4. FieldSize(f) = 1 + Delimited(Bytes_ByteSizeLong(seq[i]))
    BY FieldsMadeSize
  <2>5. Delimited(Bytes_ByteSizeLong(seq[i])) \in Nat
    BY <2>2, DelimitedType
  <2>. QED
    BY <2>3, <2>4, <2>5, Zenon DEF WriteBytes, BytesSize, MessageSize
<1>2. w \in Seq(F) /\ ns \in Seq(Nat) /\ ns \in Seq(Int) /\ Len(w) = Len(seq)
      /\ Len(ns) = Len(seq) /\ Len(seq) \in Nat
  BY <1>1
<1>3. ASSUME NEW i \in 1..Len(w) PROVE FieldSize(w[i]) = 1 + ns[i]
  BY <1>1, <1>2
<1>4. Each(LAMBDA b : WriteBytes(tag, b), seq) = w /\ BytesSizes(seq) = Len(seq) + Total(ns)
  BY Zenon DEF Each, BytesSizes, SumOf
<1>. HIDE DEF w, ns
<1>. QED
  BY <1>2, <1>3, <1>4, PartsSize, TotalIsNat

LEMMA EntriesMade ==
  ASSUME NEW H, NEW tag \in Nat, tag % 8 = 2, NEW key \in FieldsOver(H), NEW value \in FieldsOver(H)
  PROVE  /\ WriteEntry(tag, key, value, EntrySize(key, value))
              \in MapFields(tag, FieldsOver(FieldsOver(H)))
         /\ FieldSize(WriteEntry(tag, key, value, EntrySize(key, value)))
              = 1 + MessageSize(EntrySize(key, value))
         /\ EntrySize(key, value) \in Nat
         /\ MessageSize(EntrySize(key, value)) \in Nat
<1>1. EntrySize(key, value) \in Nat
  <2>1. key.len \in Nat /\ value.len \in Nat
    BY DEF FieldsOver
  <2>. QED
    BY <2>1, FieldSizeType DEF EntrySize
<1>2. <<key, value>> \in Seq(FieldsOver(H)) /\ Len(<<key, value>>) = 2
  OBVIOUS
<1>3. Message(tag, <<key, value>>, EntrySize(key, value)) \in FieldsOver(FieldsOver(H))
  BY <1>1, <1>2, FieldsMade
<1>4. Message(tag, <<key, value>>, EntrySize(key, value)).sub = <<key, value>>
  BY DEF Message, Blank
<1>5. Message(tag, <<key, value>>, EntrySize(key, value))
        \in MapFields(tag, FieldsOver(FieldsOver(H)))
  BY <1>2, <1>3, <1>4 DEF MapFields
<1>6. /\ FieldSize(Message(tag, <<key, value>>, EntrySize(key, value)))
           = 1 + Delimited(EntrySize(key, value))
      /\ Delimited(EntrySize(key, value)) \in Nat
  <2>1. \A w, len : FieldSize(Message(tag, w, len)) = 1 + Delimited(len)
    BY FieldsMadeSize
  <2>. QED
    BY <1>1, <2>1, DelimitedType, Zenon
<1>. QED
  BY <1>1, <1>5, <1>6 DEF WriteEntry, MessageSize


\* What a map is written as.
TextEntries(tag, map)   == Each(LAMBDA k : WriteText(tag, k, map[k]), Keys(map))
NumberEntries(tag, map) == Each(LAMBDA k : WriteNumbers(tag, k, map[k]), Keys(map))
TextEntriesSize(map)    == SumOf(LAMBDA k : TextEntrySize(k, map[k]), Keys(map))
NumberEntriesSize(map)  == SumOf(LAMBDA k : NumberEntrySize(k, map[k]), Keys(map))

LEMMA TextMapPart ==
  ASSUME NEW H, NEW tag \in Nat, tag % 8 = 2, NEW map \in MapsOver(Seq(Int), Seq(Int))
  PROVE  /\ TextEntries(tag, map)
              \in Seq(MapFields(tag, FieldsOver(FieldsOver(H))))
         /\ WireSize(TextEntries(tag, map))
              = Len(Keys(map)) + TextEntriesSize(map)
         /\ Len(Keys(map)) \in Nat
         /\ TextEntriesSize(map) \in Nat
<1>. DEFINE F == MapFields(tag, FieldsOver(FieldsOver(H)))
            keys == Keys(map)
            w == [i \in 1..Len(keys) |-> WriteText(tag, keys[i], map[keys[i]])]
            ns == [i \in 1..Len(keys) |-> TextEntrySize(keys[i], map[keys[i]])]
<1>1. keys \in Seq(DOMAIN map) /\ Len(keys) \in Nat
  BY KeysType
<1>. HIDE DEF keys
<1>2. ASSUME NEW i \in 1..Len(keys)
      PROVE  /\ WriteText(tag, keys[i], map[keys[i]]) \in F
             /\ TextEntrySize(keys[i], map[keys[i]]) \in Nat
             /\ FieldSize(WriteText(tag, keys[i], map[keys[i]]))
                  = 1 + TextEntrySize(keys[i], map[keys[i]])
  <2>1. keys[i] \in DOMAIN map
    BY <1>1
  <2>2. keys[i] \in Seq(Int) /\ map[keys[i]] \in Seq(Int)
    BY <2>1, MapsKnown
  <2>3. String(10, keys[i]) \in FieldsOver(H) /\ String(18, map[keys[i]]) \in FieldsOver(H)
    BY <2>2, FieldsMade
  <2>. QED
    BY <2>3, EntriesMade, Zenon DEF WriteText, TextEntrySize
<1>3. w \in Seq(F) /\ ns \in Seq(Nat) /\ ns \in Seq(Int) /\ Len(w) = Len(keys)
      /\ Len(ns) = Len(keys)
  BY <1>1, <1>2
<1>4. ASSUME NEW i \in 1..Len(w) PROVE FieldSize(w[i]) = 1 + ns[i]
  BY <1>2, <1>3
<1>5. /\ TextEntries(tag, map) = w
      /\ TextEntriesSize(map) = Total(ns)
  BY Zenon DEF Each, SumOf, keys, TextEntries, TextEntriesSize
<1>6. w \in Seq(FieldsOver(FieldsOver(H)))
  BY <1>3 DEF MapFields
<1>. HIDE DEF w, ns
<1>7. Total(ns) \in Nat /\ WireSize(w) = Len(keys) + Total(ns)
  BY <1>3, <1>4, <1>6, PartsSize, TotalIsNat
<1>. QED
  BY <1>1, <1>3, <1>5, <1>7 DEF keys

LEMMA NumberMapPart ==
  ASSUME NEW H, NEW tag \in Nat, tag % 8 = 2, NEW map \in MapsOver(Int, Int)
  PROVE  /\ NumberEntries(tag, map)
              \in Seq(MapFields(tag, FieldsOver(FieldsOver(H))))
         /\ WireSize(NumberEntries(tag, map))
              = Len(Keys(map)) + NumberEntriesSize(map)
         /\ Len(Keys(map)) \in Nat
         /\ NumberEntriesSize(map) \in Nat
<1>. DEFINE F == MapFields(tag, FieldsOver(FieldsOver(H)))
            keys == Keys(map)
            w == [i \in 1..Len(keys) |-> WriteNumbers(tag, keys[i], map[keys[i]])]
            ns == [i \in 1..Len(keys) |-> NumberEntrySize(keys[i], map[keys[i]])]
<1>1. keys \in Seq(DOMAIN map) /\ Len(keys) \in Nat
  BY KeysType
<1>. HIDE DEF keys
<1>2. ASSUME NEW i \in 1..Len(keys)
      PROVE  /\ WriteNumbers(tag, keys[i], map[keys[i]]) \in F
             /\ NumberEntrySize(keys[i], map[keys[i]]) \in Nat
             /\ FieldSize(WriteNumbers(tag, keys[i], map[keys[i]]))
                  = 1 + NumberEntrySize(keys[i], map[keys[i]])
  <2>1. keys[i] \in DOMAIN map
    BY <1>1
  <2>2. keys[i] \in Int /\ map[keys[i]] \in Int
    BY <2>1, MapsKnown
  <2>3. Varint(8, keys[i]) \in FieldsOver(H) /\ Varint(16, map[keys[i]]) \in FieldsOver(H)
    BY <2>2, FieldsMade
  <2>. QED
    BY <2>3, EntriesMade, Zenon DEF WriteNumbers, NumberEntrySize
<1>3. w \in Seq(F) /\ ns \in Seq(Nat) /\ ns \in Seq(Int) /\ Len(w) = Len(keys)
      /\ Len(ns) = Len(keys)
  BY <1>1, <1>2
<1>4. ASSUME NEW i \in 1..Len(w) PROVE FieldSize(w[i]) = 1 + ns[i]
  BY <1>2, <1>3
<1>5. /\ NumberEntries(tag, map) = w
      /\ NumberEntriesSize(map) = Total(ns)
  BY Zenon DEF Each, SumOf, keys, NumberEntries, NumberEntriesSize
<1>6. w \in Seq(FieldsOver(FieldsOver(H)))
  BY <1>3 DEF MapFields
<1>. HIDE DEF w, ns
<1>7. Total(ns) \in Nat /\ WireSize(w) = Len(keys) + Total(ns)
  BY <1>3, <1>4, <1>6, PartsSize, TotalIsNat
<1>. QED
  BY <1>1, <1>3, <1>5, <1>7 DEF keys

LEMMA ConcatStays ==
  ASSUME NEW U, NEW u \in Seq(U), NEW v \in Seq(U)
  PROVE  u \o v \in Seq(U)
OBVIOUS

LEMMA SeqOfMore ==
  ASSUME NEW U, NEW F, U \subseteq F, NEW w \in Seq(U)
  PROVE  w \in Seq(F)
OBVIOUS

LEMMA ResponseSizeIsLength ==
  ASSUME NEW H, NEW m \in ResponseType(FieldsOver(H))
  PROVE  /\ Response_Serialize(m) \in Seq(FieldsOver(H))
         /\ Response_ByteSizeLong(m) \in Nat
         /\ WireSize(Response_Serialize(m)) = Response_ByteSizeLong(m)
<1>. DEFINE F == FieldsOver(H)
            part1 == VarintUnlessZero(8, m.code)
            size1 == IF m.code = 0 THEN 0 ELSE UInt32SizePlusOne(m.code)
            part2 == StringUnlessEmpty(18, m.message)
            size2 == IF m.message = <<>> THEN 0 ELSE 1 + StringSize(m.message)
            part3 == Fixed32UnlessZero(29, m.reqTimeMillis)
            size3 == IF m.reqTimeMillis = 0 THEN 0 ELSE 1 + 4
            part4 == StringUnlessEmpty(34, m.data)
            size4 == IF m.data = <<>> THEN 0 ELSE 1 + StringSize(m.data)
<1>1. /\ m.unknown \in Seq(FieldsOver(H))
      /\ m.code \in Int
      /\ m.message \in Seq(Int)
      /\ m.reqTimeMillis \in Int
      /\ m.data \in Seq(Int)
  BY ResponseMembers
<1>2. FieldsOver(H) \subseteq F /\ m.unknown \in Seq(F) /\ WireSize(m.unknown) \in Nat
  BY <1>1, SeqOfMore, WireSizeType
<1>3. part1 \in Seq(FieldsOver(H)) /\ part1 \in Seq(F) /\ WireSize(part1) = size1 /\ size1 \in Nat
  <2>1. 8 % 8 = 0 /\ 8 \in Nat
    OBVIOUS
  <2>. QED
    BY <1>1, <2>1, VarintPart
<1>4. part2 \in Seq(FieldsOver(H)) /\ part2 \in Seq(F) /\ WireSize(part2) = size2 /\ size2 \in Nat
  <2>1. 18 % 8 = 2 /\ 18 \in Nat
    OBVIOUS
  <2>. QED
    BY <1>1, <2>1, StringPart
<1>5. part3 \in Seq(FieldsOver(H)) /\ part3 \in Seq(F) /\ WireSize(part3) = size3 /\ size3 \in Nat
  <2>1. 29 % 8 = 5 /\ 29 \in Nat
    OBVIOUS
  <2>. QED
    BY <1>1, <2>1, Fixed32Part
<1>6. part4 \in Seq(FieldsOver(H)) /\ part4 \in Seq(F) /\ WireSize(part4) = size4 /\ size4 \in Nat
  <2>1. 34 % 8 = 2 /\ 34 \in Nat
    OBVIOUS
  <2>. QED
    BY <1>1, <2>1, StringPart
<1>7. Response_Serialize(m) = part1 \o part2 \o part3 \o part4 \o m.unknown
  BY Zenon DEF Response_Serialize
<1>8. Response_ByteSizeLong(m) = size2 + size4 + size1 + size3 + WireSize(m.unknown)
  BY Zenon DEF Response_ByteSizeLong
<1>9. \A u, v \in Seq(F) : u \o v \in Seq(F) /\ WireSize(u \o v) = WireSize(u) + WireSize(v)
  BY WireSizeConcat, ConcatStays
<1>10. \A u, v \in Seq(FieldsOver(H)) : u \o v \in Seq(FieldsOver(H))
  BY ConcatStays
<1>. HIDE DEF F, part1, size1, part2, size2, part3, size3, part4, size4
<1>11. part1 \o part2 \o part3 \o part4 \o m.unknown \in Seq(FieldsOver(H))
  BY <1>1, <1>2, <1>3, <1>4, <1>5, <1>6, <1>10, Zenon
<1>12. part1 \o part2 \in Seq(F) /\ WireSize(part1 \o part2) = size1 + size2 /\ size1 + size2 \in Nat
  <2>1. part1 \o part2 \in Seq(F) /\ WireSize(part1 \o part2) = WireSize(part1) + WireSize(part2)
    BY <1>3, <1>4, <1>9, Zenon
  <2>. QED
    BY <1>3, <1>4, <2>1
<1>13. part1 \o part2 \o part3 \in Seq(F) /\ WireSize(part1 \o part2 \o part3) = size1 + size2 + size3 /\ size1 + size2 + size3 \in Nat
  <2>1. part1 \o part2 \o part3 \in Seq(F) /\ WireSize(part1 \o part2 \o part3) = WireSize(part1 \o part2) + WireSize(part3)
    BY <1>12, <1>5, <1>9, Zenon
  <2>. QED
    BY <1>12, <1>5, <2>1
<1>14. part1 \o part2 \o part3 \o part4 \in Seq(F) /\ WireSize(part1 \o part2 \o part3 \o part4) = size1 + size2 + size3 + size4 /\ size1 + size2 + size3 + size4 \in Nat
  <2>1. part1 \o part2 \o part3 \o part4 \in Seq(F) /\ WireSize(part1 \o part2 \o part3 \o part4) = WireSize(part1 \o part2 \o part3) + WireSize(part4)
    BY <1>13, <1>6, <1>9, Zenon
  <2>. QED
    BY <1>13, <1>6, <2>1
<1>15. part1 \o part2 \o part3 \o part4 \o m.unknown \in Seq(F) /\ WireSize(part1 \o part2 \o part3 \o part4 \o m.unknown) = size1 + size2 + size3 + size4 + WireSize(m.unknown) /\ size1 + size2 + size3 + size4 + WireSize(m.unknown) \in Nat
  <2>1. part1 \o part2 \o part3 \o part4 \o m.unknown \in Seq(F) /\ WireSize(part1 \o part2 \o part3 \o part4 \o m.unknown) = WireSize(part1 \o part2 \o part3 \o part4) + WireSize(m.unknown)
    BY <1>14, <1>2, <1>9, Zenon
  <2>. QED
    BY <1>14, <1>2, <2>1
<1>16. size2 + size4 + size1 + size3 + WireSize(m.unknown) = size1 + size2 + size3 + size4 + WireSize(m.unknown)
  BY <1>2, <1>3, <1>4, <1>5, <1>6
<1>. QED
  BY <1>7, <1>8, <1>11, <1>15, <1>16

LEMMA ErrorSizeIsLength ==
  ASSUME NEW H, NEW m \in ErrorType(FieldsOver(H))
  PROVE  /\ Error_Serialize(m) \in Seq(FieldsOver(H))
         /\ Error_ByteSizeLong(m) \in Nat
         /\ WireSize(Error_Serialize(m)) = Error_ByteSizeLong(m)
<1>. DEFINE F == FieldsOver(H)
            part1 == VarintUnlessZero(8, m.code)
            size1 == IF m.code = 0 THEN 0 ELSE UInt32SizePlusOne(m.code)
            part2 == StringUnlessEmpty(18, m.message)
            size2 == IF m.message = <<>> THEN 0 ELSE 1 + StringSize(m.message)
<1>1. /\ m.unknown \in Seq(FieldsOver(H))
      /\ m.code \in Int
      /\ m.message \in Seq(Int)
  BY ErrorMembers
<1>2. FieldsOver(H) \subseteq F /\ m.unknown \in Seq(F) /\ WireSize(m.unknown) \in Nat
  BY <1>1, SeqOfMore, WireSizeType
<1>3. part1 \in Seq(FieldsOver(H)) /\ part1 \in Seq(F) /\ WireSize(part1) = size1 /\ size1 \in Nat
  <2>1. 8 % 8 = 0 /\ 8 \in Nat
    OBVIOUS
  <2>. QED
    BY <1>1, <2>1, VarintPart
<1>4. part2 \in Seq(FieldsOver(H)) /\ part2 \in Seq(F) /\ WireSize(part2) = size2 /\ size2 \in Nat
  <2>1. 18 % 8 = 2 /\ 18 \in Nat
    OBVIOUS
  <2>. QED
    BY <1>1, <2>1, StringPart
<1>5. Error_Serialize(m) = part1 \o part2 \o m.unknown
  BY Zenon DEF Error_Serialize
<1>6. Error_ByteSizeLong(m) = size2 + size1 + WireSize(m.unknown)
  BY Zenon DEF Error_ByteSizeLong
<1>7. \A u, v \in Seq(F) : u \o v \in Seq(F) /\ WireSize(u \o v) = WireSize(u) + WireSize(v)
  BY WireSizeConcat, ConcatStays
<1>8. \A u, v \in Seq(FieldsOver(H)) : u \o v \in Seq(FieldsOver(H))
  BY ConcatStays
<1>. HIDE DEF F, part1, size1, part2, size2
<1>9. part1 \o part2 \o m.unknown \in Seq(FieldsOver(H))
  BY <1>1, <1>2, <1>3, <1>4, <1>8, Zenon
<1>10. part1 \o part2 \in Seq(F) /\ WireSize(part1 \o part2) = size1 + size2 /\ size1 + size2 \in Nat
  <2>1. part1 \o part2 \in Seq(F) /\ WireSize(part1 \o part2) = WireSize(part1) + WireSize(part2)
    BY <1>3, <1>4, <1>7, Zenon
  <2>. QED
    BY <1>3, <1>4, <2>1
<1>11. part1 \o part2 \o m.unknown \in Seq(F) /\ WireSize(part1 \o part2 \o m.unknown) = size1 + size2 + WireSize(m.unknown) /\ size1 + size2 + WireSize(m.unknown) \in Nat
  <2>1. part1 \o part2 \o m.unknown \in Seq(F) /\ WireSize(part1 \o part2 \o m.unknown) = WireSize(part1 \o part2) + WireSize(m.unknown)
    BY <1>10, <1>2, <1>7, Zenon
  <2>. QED
    BY <1>10, <1>2, <2>1
<1>12. size2 + size1 + WireSize(m.unknown) = size1 + size2 + WireSize(m.unknown)
  BY <1>2, <1>3, <1>4
<1>. QED
  BY <1>5, <1>6, <1>9, <1>11, <1>12

LEMMA ServiceDataSizeIsLength ==
  ASSUME NEW H, NEW U, U \subseteq FieldsOver(H),
         \A s \in Seq(Int) : String(10, s) \in U, NEW m \in ServiceDataType(U)
  PROVE  /\ OTServiceData_Serialize(m) \in Seq(U)
         /\ OTServiceData_ByteSizeLong(m) \in Nat
         /\ WireSize(OTServiceData_Serialize(m)) = OTServiceData_ByteSizeLong(m)
<1>. DEFINE F == FieldsOver(H)
            part1 == StringUnlessEmpty(10, m.value)
            size1 == IF m.value = <<>> THEN 0 ELSE 1 + StringSize(m.value)
<1>1. /\ m.unknown \in Seq(U)
      /\ m.value \in Seq(Int)
  BY ServiceDataMembers
<1>2. U \subseteq F /\ m.unknown \in Seq(F) /\ WireSize(m.unknown) \in Nat
  BY <1>1, SeqOfMore, WireSizeType
<1>3. part1 \in Seq(U) /\ part1 \in Seq(F) /\ WireSize(part1) = size1 /\ size1 \in Nat
  <2>1. 10 % 8 = 2 /\ 10 \in Nat
    OBVIOUS
  <2>2. part1 \in Seq(F) /\ WireSize(part1) = size1 /\ size1 \in Nat
    BY <1>1, <2>1, StringPart
  <2>3. part1 \in Seq(U)
    BY <1>1 DEF StringUnlessEmpty
  <2>. QED
    BY <2>2, <2>3
<1>4. OTServiceData_Serialize(m) = part1 \o m.unknown
  BY Zenon DEF OTServiceData_Serialize
<1>5. OTServiceData_ByteSizeLong(m) = size1 + WireSize(m.unknown)
  BY Zenon DEF OTServiceData_ByteSizeLong
<1>6. \A u, v \in Seq(F) : u \o v \in Seq(F) /\ WireSize(u \o v) = WireSize(u) + WireSize(v)
  BY WireSizeConcat, ConcatStays
<1>7. \A u, v \in Seq(U) : u \o v \in Seq(U)
  BY ConcatStays
<1>. HIDE DEF F, part1, size1
<1>8. part1 \o m.unknown \in Seq(U)
  BY <1>1, <1>2, <1>3, <1>7, Zenon
<1>9. part1 \o m.unknown \in Seq(F) /\ WireSize(part1 \o m.unknown) = size1 + WireSize(m.unknown) /\ size1 + WireSize(m.unknown) \in Nat
  <2>1. part1 \o m.unknown \in Seq(F) /\ WireSize(part1 \o m.unknown) = WireSize(part1) + WireSize(m.unknown)
    BY <1>3, <1>2, <1>6, Zenon
  <2>. QED
    BY <1>3, <1>2, <2>1
<1>10. size1 + WireSize(m.unknown) = size1 + WireSize(m.unknown)
  BY <1>2, <1>3
<1>. QED
  BY <1>4, <1>5, <1>8, <1>9, <1>10

LEMMA FieldsSizeIsLength ==
  ASSUME NEW H, NEW m \in FieldsType(MapFields(10, FieldsOver(FieldsOver(H))))
  PROVE  /\ Fields_Serialize(m) \in Seq(MapFields(10, FieldsOver(FieldsOver(H))))
         /\ Fields_ByteSizeLong(m) \in Nat
         /\ WireSize(Fields_Serialize(m)) = Fields_ByteSizeLong(m)
<1>. DEFINE F == FieldsOver(FieldsOver(H))
            part1 == TextEntries(10, m.msg)
            size1 == Len(Keys(m.msg)) + TextEntriesSize(m.msg)
<1>1. /\ m.unknown \in Seq(MapFields(10, FieldsOver(FieldsOver(H))))
      /\ m.msg \in MapsOver(Seq(Int), Seq(Int))
  BY FieldsMembers
<1>2. MapFields(10, FieldsOver(FieldsOver(H))) \subseteq F /\ m.unknown \in Seq(F) /\ WireSize(m.unknown) \in Nat
  BY <1>1, SeqOfMore, WireSizeType DEF MapFields
<1>3. part1 \in Seq(MapFields(10, FieldsOver(FieldsOver(H)))) /\ part1 \in Seq(F) /\ WireSize(part1) = size1 /\ size1 \in Nat
  <2>1. 10 % 8 = 2 /\ 10 \in Nat
    OBVIOUS
  <2>2. part1 \in Seq(MapFields(10, FieldsOver(FieldsOver(H)))) /\ WireSize(part1) = size1 /\ size1 \in Nat
    <3>. HIDE DEF F
    <3>. QED
      BY <1>1, <2>1, TextMapPart
  <2>. QED
    BY <1>2, <2>2, SeqOfMore
<1>4. Fields_Serialize(m) = part1 \o m.unknown
  BY Zenon DEF Fields_Serialize, TextEntries
<1>5. Fields_ByteSizeLong(m) = size1 + WireSize(m.unknown)
  BY Zenon DEF Fields_ByteSizeLong, TextEntriesSize
<1>6. \A u, v \in Seq(F) : u \o v \in Seq(F) /\ WireSize(u \o v) = WireSize(u) + WireSize(v)
  BY WireSizeConcat, ConcatStays
<1>7. \A u, v \in Seq(MapFields(10, FieldsOver(FieldsOver(H)))) : u \o v \in Seq(MapFields(10, FieldsOver(FieldsOver(H))))
  BY ConcatStays
<1>. HIDE DEF F, part1, size1
<1>8. part1 \o m.unknown \in Seq(MapFields(10, FieldsOver(FieldsOver(H))))
  BY <1>1, <1>2, <1>3, <1>7, Zenon
<1>9. part1 \o m.unknown \in Seq(F) /\ WireSize(part1 \o m.unknown) = size1 + WireSize(m.unknown) /\ size1 + WireSize(m.unknown) \in Nat
  <2>1. part1 \o m.unknown \in Seq(F) /\ WireSize(part1 \o m.unknown) = WireSize(part1) + WireSize(m.unknown)
    BY <1>3, <1>2, <1>6, Zenon
  <2>. QED
    BY <1>3, <1>2, <2>1
<1>10. size1 + WireSize(m.unknown) = size1 + WireSize(m.unknown)
  BY <1>2, <1>3
<1>. QED
  BY <1>4, <1>5, <1>8, <1>9, <1>10

LEMMA ServerRequestSizeIsLength ==
  ASSUME NEW H, NEW m \in ServerRequestType(FieldsOver(FieldsOver(H)), FieldsOver(H))
  PROVE  /\ OTServerRequest_Serialize(m) \in Seq(FieldsOver(FieldsOver(H)))
         /\ OTServerRequest_ByteSizeLong(m) \in Nat
         /\ WireSize(OTServerRequest_Serialize(m)) = OTServerRequest_ByteSizeLong(m)
<1>. DEFINE F == FieldsOver(FieldsOver(H))
            part1 == StringUnlessEmpty(10, m.function)
            size1 == IF m.function = <<>> THEN 0 ELSE 1 + StringSize(m.function)
            part2 == VarintUnlessZero(16, m.sessionToken)
            size2 == IF m.sessionToken = 0 THEN 0 ELSE UInt32SizePlusOne(m.sessionToken)
            part3 == VarintUnlessZero(24, m.k)
            size3 == IF m.k = 0 THEN 0 ELSE UInt32SizePlusOne(m.k)
            part4 == Each(LAMBDA s : String(34, s), m.keys)
            size4 == TextSizes(m.keys)
            part5 == Each(LAMBDA b : WriteBytes(42, b), m.bytes)
            size5 == BytesSizes(m.bytes)
<1>1. /\ m.unknown \in Seq(FieldsOver(FieldsOver(H)))
      /\ m.function \in Seq(Int)
      /\ m.sessionToken \in Int
      /\ m.k \in Int
      /\ m.keys \in Seq(Seq(Int))
      /\ m.bytes \in Seq(BytesType(FieldsOver(H)))
  BY ServerRequestMembers
<1>2. FieldsOver(FieldsOver(H)) \subseteq F /\ m.unknown \in Seq(F) /\ WireSize(m.unknown) \in Nat
  BY <1>1, SeqOfMore, WireSizeType
<1>3. part1 \in Seq(FieldsOver(FieldsOver(H))) /\ part1 \in Seq(F) /\ WireSize(part1) = size1 /\ size1 \in Nat
  <2>1. 10 % 8 = 2 /\ 10 \in Nat
    OBVIOUS
  <2>. QED
    BY <1>1, <2>1, StringPart
<1>4. part2 \in Seq(FieldsOver(FieldsOver(H))) /\ part2 \in Seq(F) /\ WireSize(part2) = size2 /\ size2 \in Nat
  <2>1. 16 % 8 = 0 /\ 16 \in Nat
    OBVIOUS
  <2>. QED
    BY <1>1, <2>1, VarintPart
<1>5. part3 \in Seq(FieldsOver(FieldsOver(H))) /\ part3 \in Seq(F) /\ WireSize(part3) = size3 /\ size3 \in Nat
  <2>1. 24 % 8 = 0 /\ 24 \in Nat
    OBVIOUS
  <2>. QED
    BY <1>1, <2>1, VarintPart
<1>6. part4 \in Seq(FieldsOver(FieldsOver(H))) /\ part4 \in Seq(F) /\ WireSize(part4) = size4 /\ size4 \in Nat
  <2>1. 34 % 8 = 2 /\ 34 \in Nat
    OBVIOUS
  <2>. QED
    BY <1>1, <2>1, TextsPart
<1>7. part5 \in Seq(FieldsOver(FieldsOver(H))) /\ part5 \in Seq(F) /\ WireSize(part5) = size5 /\ size5 \in Nat
  <2>1. 42 % 8 = 2 /\ 42 \in Nat
    OBVIOUS
  <2>. QED
    BY <1>1, <2>1, BytesPart
<1>8. OTServerRequest_Serialize(m) = part1 \o part2 \o part3 \o part4 \o part5 \o m.unknown
  BY Zenon DEF OTServerRequest_Serialize
<1>9. OTServerRequest_ByteSizeLong(m) = size4 + size5 + size1 + size2 + size3 + WireSize(m.unknown)
  BY Zenon DEF OTServerRequest_ByteSizeLong
<1>10. \A u, v \in Seq(F) : u \o v \in Seq(F) /\ WireSize(u \o v) = WireSize(u) + WireSize(v)
  BY WireSizeConcat, ConcatStays
<1>11. \A u, v \in Seq(FieldsOver(FieldsOver(H))) : u \o v \in Seq(FieldsOver(FieldsOver(H)))
  BY ConcatStays
<1>. HIDE DEF F, part1, size1, part2, size2, part3, size3, part4, size4, part5, size5
<1>12. part1 \o part2 \o part3 \o part4 \o part5 \o m.unknown \in Seq(FieldsOver(FieldsOver(H)))
  BY <1>1, <1>2, <1>3, <1>4, <1>5, <1>6, <1>7, <1>11, Zenon
<1>13. part1 \o part2 \in Seq(F) /\ WireSize(part1 \o part2) = size1 + size2 /\ size1 + size2 \in Nat
  <2>1. part1 \o part2 \in Seq(F) /\ WireSize(part1 \o part2) = WireSize(part1) + WireSize(part2)
    BY <1>3, <1>4, <1>10, Zenon
  <2>. QED
    BY <1>3, <1>4, <2>1
<1>14. part1 \o part2 \o part3 \in Seq(F) /\ WireSize(part1 \o part2 \o part3) = size1 + size2 + size3 /\ size1 + size2 + size3 \in Nat
  <2>1. part1 \o part2 \o part3 \in Seq(F) /\ WireSize(part1 \o part2 \o part3) = WireSize(part1 \o part2) + WireSize(part3)
    BY <1>13, <1>5, <1>10, Zenon
  <2>. QED
    BY <1>13, <1>5, <2>1
<1>15. part1 \o part2 \o part3 \o part4 \in Seq(F) /\ WireSize(part1 \o part2 \o part3 \o part4) = size1 + size2 + size3 + size4 /\ size1 + size2 + size3 + size4 \in Nat
  <2>1. part1 \o part2 \o part3 \o part4 \in Seq(F) /\ WireSize(part1 \o part2 \o part3 \o part4) = WireSize(part1 \o part2 \o part3) + WireSize(part4)
    BY <1>14, <1>6, <1>10, Zenon
  <2>. QED
    BY <1>14, <1>6, <2>1
<1>16. part1 \o part2 \o part3 \o part4 \o part5 \in Seq(F) /\ WireSize(part1 \o part2 \o part3 \o part4 \o part5) = size1 + size2 + size3 + size4 + size5 /\ size1 + size2 + size3 + size4 + size5 \in Nat
  <2>1. part1 \o part2 \o part3 \o part4 \o part5 \in Seq(F) /\ WireSize(part1 \o part2 \o part3 \o part4 \o part5) = WireSize(part1 \o part2 \o part3 \o part4) + WireSize(part5)
    BY <1>15, <1>7, <1>10, Zenon
  <2>. QED
    BY <1>15, <1>7, <2>1
<1>17. part1 \o part2 \o part3 \o part4 \o part5 \o m.unknown \in Seq(F) /\ WireSize(part1 \o part2 \o part3 \o part4 \o part5 \o m.unknown) = size1 + size2 + size3 + size4 + size5 + WireSize(m.unknown) /\ size1 + size2 + size3 + size4 + size5 + WireSize(m.unknown) \in Nat
  <2>1. part1 \o part2 \o part3 \o part4 \o part5 \o m.unknown \in Seq(F) /\ WireSize(part1 \o part2 \o part3 \o part4 \o part5 \o m.unknown) = WireSize(part1 \o part2 \o part3 \o part4 \o part5) + WireSize(m.unknown)
    BY <1>16, <1>2, <1>10, Zenon
  <2>. QED
    BY <1>16, <1>2, <2>1
<1>18. size4 + size5 + size1 + size2 + size3 + WireSize(m.unknown) = size1 + size2 + size3 + size4 + size5 + WireSize(m.unknown)
  BY <1>2, <1>3, <1>4, <1>5, <1>6, <1>7
<1>. QED
  BY <1>8, <1>9, <1>12, <1>17, <1>18

LEMMA ServerResponseSizeIsLength ==
  ASSUME NEW H, NEW m \in ServerResponseType(FieldsOver(FieldsOver(H)), FieldsOver(H))
  PROVE  /\ OTServerResponse_Serialize(m) \in Seq(FieldsOver(FieldsOver(H)))
         /\ OTServerResponse_ByteSizeLong(m) \in Nat
         /\ WireSize(OTServerResponse_Serialize(m)) = OTServerResponse_ByteSizeLong(m)
<1>. DEFINE F == FieldsOver(FieldsOver(H))
            part1 == StringUnlessEmpty(10, m.function)
            size1 == IF m.function = <<>> THEN 0 ELSE 1 + StringSize(m.function)
            part2 == Each(LAMBDA s : String(18, s), m.values)
            size2 == TextSizes(m.values)
            part3 == Each(LAMBDA b : WriteBytes(26, b), m.bytes)
            size3 == BytesSizes(m.bytes)
<1>1. /\ m.unknown \in Seq(FieldsOver(FieldsOver(H)))
      /\ m.function \in Seq(Int)
      /\ m.values \in Seq(Seq(Int))
      /\ m.bytes \in Seq(BytesType(FieldsOver(H)))
  BY ServerResponseMembers
<1>2. FieldsOver(FieldsOver(H)) \subseteq F /\ m.unknown \in Seq(F) /\ WireSize(m.unknown) \in Nat
  BY <1>1, SeqOfMore, WireSizeType
<1>3. part1 \in Seq(FieldsOver(FieldsOver(H))) /\ part1 \in Seq(F) /\ WireSize(part1) = size1 /\ size1 \in Nat
  <2>1. 10 % 8 = 2 /\ 10 \in Nat
    OBVIOUS
  <2>. QED
    BY <1>1, <2>1, StringPart
<1>4. part2 \in Seq(FieldsOver(FieldsOver(H))) /\ part2 \in Seq(F) /\ WireSize(part2) = size2 /\ size2 \in Nat
  <2>1. 18 % 8 = 2 /\ 18 \in Nat
    OBVIOUS
  <2>. QED
    BY <1>1, <2>1, TextsPart
<1>5. part3 \in Seq(FieldsOver(FieldsOver(H))) /\ part3 \in Seq(F) /\ WireSize(part3) = size3 /\ size3 \in Nat
  <2>1. 26 % 8 = 2 /\ 26 \in Nat
    OBVIOUS
  <2>. QED
    BY <1>1, <2>1, BytesPart
<1>6. OTServerResponse_Serialize(m) = part1 \o part2 \o part3 \o m.unknown
  BY Zenon DEF OTServerResponse_Serialize
<1>7. OTServerResponse_ByteSizeLong(m) = size2 + size3 + size1 + WireSize(m.unknown)
  BY Zenon DEF OTServerResponse_ByteSizeLong
<1>8. \A u, v \in Seq(F) : u \o v \in Seq(F) /\ WireSize(u \o v) = WireSize(u) + WireSize(v)
  BY WireSizeConcat, ConcatStays
<1>9. \A u, v \in Seq(FieldsOver(FieldsOver(H))) : u \o v \in Seq(FieldsOver(FieldsOver(H)))
  BY ConcatStays
<1>. HIDE DEF F, part1, size1, part2, size2, part3, size3
<1>10. part1 \o part2 \o part3 \o m.unknown \in Seq(FieldsOver(FieldsOver(H)))
  BY <1>1, <1>2, <1>3, <1>4, <1>5, <1>9, Zenon
<1>11. part1 \o part2 \in Seq(F) /\ WireSize(part1 \o part2) = size1 + size2 /\ size1 + size2 \in Nat
  <2>1. part1 \o part2 \in Seq(F) /\ WireSize(part1 \o part2) = WireSize(part1) + WireSize(part2)
    BY <1>3, <1>4, <1>8, Zenon
  <2>. QED
    BY <1>3, <1>4, <2>1
<1>12. part1 \o part2 \o part3 \in Seq(F) /\ WireSize(part1 \o part2 \o part3) = size1 + size2 + size3 /\ size1 + size2 + size3 \in Nat
  <2>1. part1 \o part2 \o part3 \in Seq(F) /\ WireSize(part1 \o part2 \o part3) = WireSize(part1 \o part2) + WireSize(part3)
    BY <1>11, <1>5, <1>8, Zenon
  <2>. QED
    BY <1>11, <1>5, <2>1
<1>13. part1 \o part2 \o part3 \o m.unknown \in Seq(F) /\ WireSize(part1 \o part2 \o part3 \o m.unknown) = size1 + size2 + size3 + WireSize(m.unknown) /\ size1 + size2 + size3 + WireSize(m.unknown) \in Nat
  <2>1. part1 \o part2 \o part3 \o m.unknown \in Seq(F) /\ WireSize(part1 \o part2 \o part3 \o m.unknown) = WireSize(part1 \o part2 \o part3) + WireSize(m.unknown)
    BY <1>12, <1>2, <1>8, Zenon
  <2>. QED
    BY <1>12, <1>2, <2>1
<1>14. size2 + size3 + size1 + WireSize(m.unknown) = size1 + size2 + size3 + WireSize(m.unknown)
  BY <1>2, <1>3, <1>4, <1>5
<1>. QED
  BY <1>6, <1>7, <1>10, <1>13, <1>14

LEMMA ClientRequestSizeIsLength ==
  ASSUME NEW H, NEW m \in ClientRequestType(MapFields(18, FieldsOver(FieldsOver(H))))
  PROVE  /\ OTClientRequest_Serialize(m) \in Seq(MapFields(18, FieldsOver(FieldsOver(H))))
         /\ OTClientRequest_ByteSizeLong(m) \in Nat
         /\ WireSize(OTClientRequest_Serialize(m)) = OTClientRequest_ByteSizeLong(m)
<1>. DEFINE F == FieldsOver(FieldsOver(H))
            part1 == StringUnlessEmpty(10, m.function)
            size1 == IF m.function = <<>> THEN 0 ELSE 1 + StringSize(m.function)
            part2 == NumberEntries(18, m.uinWithLabelMap)
            size2 == Len(Keys(m.uinWithLabelMap)) + NumberEntriesSize(m.uinWithLabelMap)
<1>1. /\ m.unknown \in Seq(MapFields(18, FieldsOver(FieldsOver(H))))
      /\ m.function \in Seq(Int)
      /\ m.uinWithLabelMap \in MapsOver(Int, Int)
  BY ClientRequestMembers
<1>2. MapFields(18, FieldsOver(FieldsOver(H))) \subseteq F /\ m.unknown \in Seq(F) /\ WireSize(m.unknown) \in Nat
  BY <1>1, SeqOfMore, WireSizeType DEF MapFields
<1>3. part1 \in Seq(MapFields(18, FieldsOver(FieldsOver(H)))) /\ part1 \in Seq(F) /\ WireSize(part1) = size1 /\ size1 \in Nat
  <2>1. 10 % 8 = 2 /\ 10 \in Nat
    OBVIOUS
  <2>2. part1 \in Seq(F) /\ WireSize(part1) = size1 /\ size1 \in Nat
    BY <1>1, <2>1, StringPart
  <2>3. String(10, m.function) \in F /\ String(10, m.function).tag = 10
    BY <1>1, FieldsMade, Zenon DEF String, Blank
  <2>4. String(10, m.function) \in MapFields(18, FieldsOver(FieldsOver(H)))
    BY <2>3 DEF MapFields
  <2>5. part1 \in Seq(MapFields(18, FieldsOver(FieldsOver(H))))
    BY <2>4 DEF StringUnlessEmpty
  <2>. QED
    BY <2>2, <2>5
<1>4. part2 \in Seq(MapFields(18, FieldsOver(FieldsOver(H)))) /\ part2 \in Seq(F) /\ WireSize(part2) = size2 /\ size2 \in Nat
  <2>1. 18 % 8 = 2 /\ 18 \in Nat
    OBVIOUS
  <2>2. part2 \in Seq(MapFields(18, FieldsOver(FieldsOver(H)))) /\ WireSize(part2) = size2 /\ size2 \in Nat
    <3>. HIDE DEF F
    <3>. QED
      BY <1>1, <2>1, NumberMapPart
  <2>. QED
    BY <1>2, <2>2, SeqOfMore
<1>5. OTClientRequest_Serialize(m) = part1 \o part2 \o m.unknown
  BY Zenon DEF OTClientRequest_Serialize, NumberEntries
<1>6. OTClientRequest_ByteSizeLong(m) = size2 + size1 + WireSize(m.unknown)
  BY Zenon DEF OTClientRequest_ByteSizeLong, NumberEntriesSize
<1>7. \A u, v \in Seq(F) : u \o v \in Seq(F) /\ WireSize(u \o v) = WireSize(u) + WireSize(v)
  BY WireSizeConcat, ConcatStays
<1>8. \A u, v \in Seq(MapFields(18, FieldsOver(FieldsOver(H)))) : u \o v \in Seq(MapFields(18, FieldsOver(FieldsOver(H))))
  BY ConcatStays
<1>. HIDE DEF F, part1, size1, part2, size2
<1>9. part1 \o part2 \o m.unknown \in Seq(MapFields(18, FieldsOver(FieldsOver(H))))
  BY <1>1, <1>2, <1>3, <1>4, <1>8, Zenon
<1>10. part1 \o part2 \in Seq(F) /\ WireSize(part1 \o part2) = size1 + size2 /\ size1 + size2 \in Nat
  <2>1. part1 \o part2 \in Seq(F) /\ WireSize(part1 \o part2) = WireSize(part1) + WireSize(part2)
    BY <1>3, <1>4, <1>7, Zenon
  <2>. QED
    BY <1>3, <1>4, <2>1
<1>11. part1 \o part2 \o m.unknown \in Seq(F) /\ WireSize(part1 \o part2 \o m.unknown) = size1 + size2 + WireSize(m.unknown) /\ size1 + size2 + WireSize(m.unknown) \in Nat
  <2>1. part1 \o part2 \o m.unknown \in Seq(F) /\ WireSize(part1 \o part2 \o m.unknown) = WireSize(part1 \o part2) + WireSize(m.unknown)
    BY <1>10, <1>2, <1>7, Zenon
  <2>. QED
    BY <1>10, <1>2, <2>1
<1>12. size2 + size1 + WireSize(m.unknown) = size1 + size2 + WireSize(m.unknown)
  BY <1>2, <1>3, <1>4
<1>. QED
  BY <1>5, <1>6, <1>9, <1>11, <1>12

LEMMA ClientResponseSizeIsLength ==
  ASSUME NEW H, NEW m \in ClientResponseType(MapFields(26, FieldsOver(FieldsOver(H))))
  PROVE  /\ OTClientResponse_Serialize(m) \in Seq(MapFields(26, FieldsOver(FieldsOver(H))))
         /\ OTClientResponse_ByteSizeLong(m) \in Nat
         /\ WireSize(OTClientResponse_Serialize(m)) = OTClientResponse_ByteSizeLong(m)
<1>. DEFINE F == FieldsOver(FieldsOver(H))
            part1 == StringUnlessEmpty(10, m.function)
            size1 == IF m.function = <<>> THEN 0 ELSE 1 + StringSize(m.function)
            part2 == Fixed32UnlessZero(21, m.reqTimeMillis)
            size2 == IF m.reqTimeMillis = 0 THEN 0 ELSE 1 + 4
            part3 == TextEntries(26, m.resMap)
            size3 == Len(Keys(m.resMap)) + TextEntriesSize(m.resMap)
<1>1. /\ m.unknown \in Seq(MapFields(26, FieldsOver(FieldsOver(H))))
      /\ m.function \in Seq(Int)
      /\ m.reqTimeMillis \in Int
      /\ m.resMap \in MapsOver(Seq(Int), Seq(Int))
  BY ClientResponseMembers
<1>2. MapFields(26, FieldsOver(FieldsOver(H))) \subseteq F /\ m.unknown \in Seq(F) /\ WireSize(m.unknown) \in Nat
  BY <1>1, SeqOfMore, WireSizeType DEF MapFields
<1>3. part1 \in Seq(MapFields(26, FieldsOver(FieldsOver(H)))) /\ part1 \in Seq(F) /\ WireSize(part1) = size1 /\ size1 \in Nat
  <2>1. 10 % 8 = 2 /\ 10 \in Nat
    OBVIOUS
  <2>2. part1 \in Seq(F) /\ WireSize(part1) = size1 /\ size1 \in Nat
    BY <1>1, <2>1, StringPart
  <2>3. String(10, m.function) \in F /\ String(10, m.function).tag = 10
    BY <1>1, FieldsMade, Zenon DEF String, Blank
  <2>4. String(10, m.function) \in MapFields(26, FieldsOver(FieldsOver(H)))
    BY <2>3 DEF MapFields
  <2>5. part1 \in Seq(MapFields(26, FieldsOver(FieldsOver(H))))
    BY <2>4 DEF StringUnlessEmpty
  <2>. QED
    BY <2>2, <2>5
<1>4. part2 \in Seq(MapFields(26, FieldsOver(FieldsOver(H)))) /\ part2 \in Seq(F) /\ WireSize(part2) = size2 /\ size2 \in Nat
  <2>1. 21 % 8 = 5 /\ 21 \in Nat
    OBVIOUS
  <2>2. part2 \in Seq(F) /\ WireSize(part2) = size2 /\ size2 \in Nat
    BY <1>1, <2>1, Fixed32Part
  <2>3. Fixed32(21, m.reqTimeMillis) \in F /\ Fixed32(21, m.reqTimeMillis).tag = 21
    BY <1>1, FieldsMade, Zenon DEF Fixed32, Blank
  <2>4. Fixed32(21, m.reqTimeMillis) \in MapFields(26, FieldsOver(FieldsOver(H)))
    BY <2>3 DEF MapFields
  <2>5. part2 \in Seq(MapFields(26, FieldsOver(FieldsOver(H))))
    BY <2>4 DEF Fixed32UnlessZero
  <2>. QED
    BY <2>2, <2>5
<1>5. part3 \in Seq(MapFields(26, FieldsOver(FieldsOver(H)))) /\ part3 \in Seq(F) /\ WireSize(part3) = size3 /\ size3 \in Nat
  <2>1. 26 % 8 = 2 /\ 26 \in Nat
    OBVIOUS
  <2>2. part3 \in Seq(MapFields(26, FieldsOver(FieldsOver(H)))) /\ WireSize(part3) = size3 /\ size3 \in Nat
    <3>. HIDE DEF F
    <3>. QED
      BY <1>1, <2>1, TextMapPart
  <2>. QED
    BY <1>2, <2>2, SeqOfMore
<1>6. OTClientResponse_Serialize(m) = part1 \o part2 \o part3 \o m.unknown
  BY Zenon DEF OTClientResponse_Serialize, TextEntries
<1>7. OTClientResponse_ByteSizeLong(m) = size3 + size1 + size2 + WireSize(m.unknown)
  BY Zenon DEF OTClientResponse_ByteSizeLong, TextEntriesSize
<1>8. \A u, v \in Seq(F) : u \o v \in Seq(F) /\ WireSize(u \o v) = WireSize(u) + WireSize(v)
  BY WireSizeConcat, ConcatStays
<1>9. \A u, v \in Seq(MapFields(26, FieldsOver(FieldsOver(H)))) : u \o v \in Seq(MapFields(26, FieldsOver(FieldsOver(H))))
  BY ConcatStays
<1>. HIDE DEF F, part1, size1, part2, size2, part3, size3
<1>10. part1 \o part2 \o part3 \o m.unknown \in Seq(MapFields(26, FieldsOver(FieldsOver(H))))
  BY <1>1, <1>2, <1>3, <1>4, <1>5, <1>9, Zenon
<1>11. part1 \o part2 \in Seq(F) /\ WireSize(part1 \o part2) = size1 + size2 /\ size1 + size2 \in Nat
  <2>1. part1 \o part2 \in Seq(F) /\ WireSize(part1 \o part2) = WireSize(part1) + WireSize(part2)
    BY <1>3, <1>4, <1>8, Zenon
  <2>. QED
    BY <1>3, <1>4, <2>1
<1>12. part1 \o part2 \o part3 \in Seq(F) /\ WireSize(part1 \o part2 \o part3) = size1 + size2 + size3 /\ size1 + size2 + size3 \in Nat
  <2>1. part1 \o part2 \o part3 \in Seq(F) /\ WireSize(part1 \o part2 \o part3) = WireSize(part1 \o part2) + WireSize(part3)
    BY <1>11, <1>5, <1>8, Zenon
  <2>. QED
    BY <1>11, <1>5, <2>1
<1>13. part1 \o part2 \o part3 \o m.unknown \in Seq(F) /\ WireSize(part1 \o part2 \o part3 \o m.unknown) = size1 + size2 + size3 + WireSize(m.unknown) /\ size1 + size2 + size3 + WireSize(m.unknown) \in Nat
  <2>1. part1 \o part2 \o part3 \o m.unknown \in Seq(F) /\ WireSize(part1 \o part2 \o part3 \o m.unknown) = WireSize(part1 \o part2 \o part3) + WireSize(m.unknown)
    BY <1>12, <1>2, <1>8, Zenon
  <2>. QED
    BY <1>12, <1>2, <2>1
<1>14. size3 + size1 + size2 + WireSize(m.unknown) = size1 + size2 + size3 + WireSize(m.unknown)
  BY <1>2, <1>3, <1>4, <1>5
<1>. QED
  BY <1>6, <1>7, <1>10, <1>13, <1>14

-----------------------------------------------------------------------------
\* Accessors.

LEMMA EditsStay ==
  ASSUME NEW X, NEW seq \in Seq(X), NEW items, items \subseteq X
  PROVE  Edits(seq, items) \subseteq Seq(X)
<1>1. /\ <<>> \in Seq(X)
      /\ SubSeq(seq, 1, Len(seq) - 1) \in Seq(X)
      /\ \A item \in items : \A i \in DOMAIN seq : [seq EXCEPT ![i] = item] \in Seq(X)
  OBVIOUS
<1>2. \A item \in items : Add(seq, item) \subseteq Seq(X)
  BY DEF Add
<1>. SUFFICES ASSUME NEW e \in Edits(seq, items) PROVE e \in Seq(X)
  OBVIOUS
<1>3. CASE e \in {<<>>} \cup {SubSeq(seq, 1, Len(seq) - 1) : last \in DOMAIN seq}
  BY <1>1, <1>3
<1>4. CASE \E item \in items : e \in Add(seq, item)
  BY <1>2, <1>4
<1>5. CASE \E i \in DOMAIN seq, item \in items : e = [seq EXCEPT ![i] = item]
  BY <1>1, <1>5
<1>. QED
  BY <1>3, <1>4, <1>5 DEF Edits

LEMMA MapEditsStay ==
  ASSUME NEW D, NEW R, NEW map \in MapsOver(D, R), NEW keys, keys \subseteq D,
         NEW values, values \subseteq R
  PROVE  MapEdits(map, keys, values) \subseteq MapsOver(D, R)
<1>1. <<>> \in MapsOver(D, R)
  BY MapsNone
<1>2. \A k : Erased(map, k) \in MapsOver(D, R)
  BY MapsWithout DEF Erased
<1>3. \A k \in keys, v \in values : Entry(k, v) \in MapsOver(D, R)
  BY MapsOne, Zenon DEF Entry
<1>4. \A k \in keys, v \in values : /\ MergeMap(Entry(k, v), map) \in MapsOver(D, R)
                                    /\ MergeMap(map, Entry(k, v)) \in MapsOver(D, R)
  BY <1>3, MapsMerge
<1>. QED
  BY <1>1, <1>2, <1>4 DEF MapEdits

LEMMA BytesEditsStay ==
  ASSUME NEW V, NEW seq \in Seq(BytesType(V))
  PROVE  BytesEdits(seq) \subseteq Seq(BytesType(V))
<1>1. ASSUME NEW s \in Texts PROVE string2bytes(s, Bytes_New) \in BytesType(V)
  <2>. DEFINE numbers == [i \in 1..Len(s) |-> IF s[i] > 127 THEN s[i] - 256 ELSE s[i]]
  <2>1. s \in Seq(Int)
    BY TextsAssumption
  <2>2. numbers \in Seq(Int)
    BY <2>1
  <2>3. Bytes_New \in BytesType(V)
    BY DEF Bytes_New, BytesType
  <2>. HIDE DEF numbers
  <2>4. Bytes_New.bts \o numbers \in Seq(Int)
    BY <2>2, <2>3, BytesMembers
  <2>5. [Bytes_New EXCEPT !.bts = @ \o numbers] \in BytesType(V)
    BY <2>3, <2>4, BytesMembers
  <2>. QED
    BY <2>5 DEF string2bytes, numbers
<1>2. <<>> \in Seq(BytesType(V)) /\ SubSeq(seq, 1, Len(seq) - 1) \in Seq(BytesType(V))
  OBVIOUS
<1>3. ASSUME NEW s \in Texts PROVE Add(seq, string2bytes(s, Bytes_New)) \subseteq Seq(BytesType(V))
  BY <1>1 DEF Add
<1>. QED
  BY <1>2, <1>3 DEF BytesEdits

LEMMA TextsAndNumbers ==
  /\ Texts \subseteq Seq(Int) /\ Texts \cup {<<>>} \subseteq Seq(Int)
  /\ Numbers \subseteq Int /\ Numbers \cup {0} \subseteq Int
<1>1. <<>> \in Seq(Int) /\ 0 \in Int
  OBVIOUS
<1>2. Texts \subseteq Seq(Int) /\ Numbers \subseteq Int
  BY TextsAssumption, NumbersAssumption
<1>. QED
  BY <1>1, <1>2, Zenon

LEMMA ResponseAccessed ==
  ASSUME NEW U, NEW m \in ResponseType(U)
  PROVE  Response_Accessors(m) \subseteq ResponseType(U)
<1>1. /\ Texts \subseteq Seq(Int) /\ Texts \cup {<<>>} \subseteq Seq(Int)
      /\ Numbers \subseteq Int /\ Numbers \cup {0} \subseteq Int
  BY TextsAndNumbers
<1>2. /\ Numbers \cup {0} \subseteq Int
      /\ Texts \cup {<<>>} \subseteq Seq(Int)
  <2>1. Numbers \cup {0} \subseteq Int
    BY <1>1
  <2>2. Texts \cup {<<>>} \subseteq Seq(Int)
    BY <1>1
  <2>. QED
    BY <2>1, <2>2
<1>3. \A v \in Numbers \cup {0} : [m EXCEPT !.code = v] \in ResponseType(U)
  BY <1>2, ResponseMembers, Zenon
<1>4. \A v \in Texts \cup {<<>>} : [m EXCEPT !.message = v] \in ResponseType(U)
  BY <1>2, ResponseMembers, Zenon
<1>5. \A v \in Numbers \cup {0} : [m EXCEPT !.reqTimeMillis = v] \in ResponseType(U)
  BY <1>2, ResponseMembers, Zenon
<1>6. \A v \in Texts \cup {<<>>} : [m EXCEPT !.data = v] \in ResponseType(U)
  BY <1>2, ResponseMembers, Zenon
<1>. QED
  BY <1>3, <1>4, <1>5, <1>6 DEF Response_Accessors

LEMMA ErrorAccessed ==
  ASSUME NEW U, NEW m \in ErrorType(U)
  PROVE  Error_Accessors(m) \subseteq ErrorType(U)
<1>1. /\ Texts \subseteq Seq(Int) /\ Texts \cup {<<>>} \subseteq Seq(Int)
      /\ Numbers \subseteq Int /\ Numbers \cup {0} \subseteq Int
  BY TextsAndNumbers
<1>2. /\ Numbers \cup {0} \subseteq Int
      /\ Texts \cup {<<>>} \subseteq Seq(Int)
  <2>1. Numbers \cup {0} \subseteq Int
    BY <1>1
  <2>2. Texts \cup {<<>>} \subseteq Seq(Int)
    BY <1>1
  <2>. QED
    BY <2>1, <2>2
<1>3. \A v \in Numbers \cup {0} : [m EXCEPT !.code = v] \in ErrorType(U)
  BY <1>2, ErrorMembers, Zenon
<1>4. \A v \in Texts \cup {<<>>} : [m EXCEPT !.message = v] \in ErrorType(U)
  BY <1>2, ErrorMembers, Zenon
<1>. QED
  BY <1>3, <1>4 DEF Error_Accessors

LEMMA ServiceDataAccessed ==
  ASSUME NEW U, NEW m \in ServiceDataType(U)
  PROVE  OTServiceData_Accessors(m) \subseteq ServiceDataType(U)
<1>1. /\ Texts \subseteq Seq(Int) /\ Texts \cup {<<>>} \subseteq Seq(Int)
      /\ Numbers \subseteq Int /\ Numbers \cup {0} \subseteq Int
  BY TextsAndNumbers
<1>2. /\ Texts \cup {<<>>} \subseteq Seq(Int)
  <2>1. Texts \cup {<<>>} \subseteq Seq(Int)
    BY <1>1
  <2>. QED
    BY <2>1
<1>3. \A v \in Texts \cup {<<>>} : [m EXCEPT !.value = v] \in ServiceDataType(U)
  BY <1>2, ServiceDataMembers, Zenon
<1>. QED
  BY <1>3 DEF OTServiceData_Accessors

LEMMA BytesAccessed ==
  ASSUME NEW U, NEW m \in BytesType(U)
  PROVE  Bytes_Accessors(m) \subseteq BytesType(U)
<1>1. /\ Texts \subseteq Seq(Int) /\ Texts \cup {<<>>} \subseteq Seq(Int)
      /\ Numbers \subseteq Int /\ Numbers \cup {0} \subseteq Int
  BY TextsAndNumbers
<1>2. /\ Edits(m.bts, Numbers) \subseteq Seq(Int)
  <2>1. Edits(m.bts, Numbers) \subseteq Seq(Int)
    <3>1. m.bts \in Seq(Int)
      BY BytesMembers
    <3>. QED
      BY <1>1, <3>1, EditsStay
  <2>. QED
    BY <2>1
<1>3. \A v \in Edits(m.bts, Numbers) : [m EXCEPT !.bts = v] \in BytesType(U)
  BY <1>2, BytesMembers, Zenon
<1>. QED
  BY <1>3 DEF Bytes_Accessors

LEMMA FieldsAccessed ==
  ASSUME NEW U, NEW m \in FieldsType(U)
  PROVE  Fields_Accessors(m) \subseteq FieldsType(U)
<1>1. /\ Texts \subseteq Seq(Int) /\ Texts \cup {<<>>} \subseteq Seq(Int)
      /\ Numbers \subseteq Int /\ Numbers \cup {0} \subseteq Int
  BY TextsAndNumbers
<1>2. /\ MapEdits(m.msg, Texts, Texts) \subseteq MapsOver(Seq(Int), Seq(Int))
  <2>1. MapEdits(m.msg, Texts, Texts) \subseteq MapsOver(Seq(Int), Seq(Int))
    <3>1. m.msg \in MapsOver(Seq(Int), Seq(Int))
      BY FieldsMembers
    <3>. QED
      BY <1>1, <3>1, MapEditsStay
  <2>. QED
    BY <2>1
<1>3. \A v \in MapEdits(m.msg, Texts, Texts) : [m EXCEPT !.msg = v] \in FieldsType(U)
  BY <1>2, FieldsMembers, Zenon
<1>. QED
  BY <1>3 DEF Fields_Accessors

LEMMA ServerRequestAccessed ==
  ASSUME NEW U, NEW V, NEW m \in ServerRequestType(U, V)
  PROVE  OTServerRequest_Accessors(m) \subseteq ServerRequestType(U, V)
<1>1. /\ Texts \subseteq Seq(Int) /\ Texts \cup {<<>>} \subseteq Seq(Int)
      /\ Numbers \subseteq Int /\ Numbers \cup {0} \subseteq Int
  BY TextsAndNumbers
<1>2. /\ Texts \cup {<<>>} \subseteq Seq(Int)
      /\ Numbers \cup {0} \subseteq Int
      /\ Edits(m.keys, Texts) \subseteq Seq(Seq(Int))
      /\ BytesEdits(m.bytes) \subseteq Seq(BytesType(V))
  <2>1. Texts \cup {<<>>} \subseteq Seq(Int)
    BY <1>1
  <2>2. Numbers \cup {0} \subseteq Int
    BY <1>1
  <2>3. Edits(m.keys, Texts) \subseteq Seq(Seq(Int))
    <3>1. m.keys \in Seq(Seq(Int))
      BY ServerRequestMembers
    <3>. QED
      BY <1>1, <3>1, EditsStay
  <2>4. BytesEdits(m.bytes) \subseteq Seq(BytesType(V))
    <3>1. m.bytes \in Seq(BytesType(V))
      BY ServerRequestMembers
    <3>. QED
      BY <1>1, <3>1, BytesEditsStay
  <2>. QED
    BY <2>1, <2>2, <2>3, <2>4
<1>3. \A v \in Texts \cup {<<>>} : [m EXCEPT !.function = v] \in ServerRequestType(U, V)
  BY <1>2, ServerRequestMembers, Zenon
<1>4. \A v \in Numbers \cup {0} : [m EXCEPT !.sessionToken = v] \in ServerRequestType(U, V)
  BY <1>2, ServerRequestMembers, Zenon
<1>5. \A v \in Numbers \cup {0} : [m EXCEPT !.k = v] \in ServerRequestType(U, V)
  BY <1>2, ServerRequestMembers, Zenon
<1>6. \A v \in Edits(m.keys, Texts) : [m EXCEPT !.keys = v] \in ServerRequestType(U, V)
  BY <1>2, ServerRequestMembers, Zenon
<1>7. \A v \in BytesEdits(m.bytes) : [m EXCEPT !.bytes = v] \in ServerRequestType(U, V)
  BY <1>2, ServerRequestMembers, Zenon
<1>. QED
  BY <1>3, <1>4, <1>5, <1>6, <1>7 DEF OTServerRequest_Accessors

LEMMA ServerResponseAccessed ==
  ASSUME NEW U, NEW V, NEW m \in ServerResponseType(U, V)
  PROVE  OTServerResponse_Accessors(m) \subseteq ServerResponseType(U, V)
<1>1. /\ Texts \subseteq Seq(Int) /\ Texts \cup {<<>>} \subseteq Seq(Int)
      /\ Numbers \subseteq Int /\ Numbers \cup {0} \subseteq Int
  BY TextsAndNumbers
<1>2. /\ Texts \cup {<<>>} \subseteq Seq(Int)
      /\ Edits(m.values, Texts) \subseteq Seq(Seq(Int))
      /\ BytesEdits(m.bytes) \subseteq Seq(BytesType(V))
  <2>1. Texts \cup {<<>>} \subseteq Seq(Int)
    BY <1>1
  <2>2. Edits(m.values, Texts) \subseteq Seq(Seq(Int))
    <3>1. m.values \in Seq(Seq(Int))
      BY ServerResponseMembers
    <3>. QED
      BY <1>1, <3>1, EditsStay
  <2>3. BytesEdits(m.bytes) \subseteq Seq(BytesType(V))
    <3>1. m.bytes \in Seq(BytesType(V))
      BY ServerResponseMembers
    <3>. QED
      BY <1>1, <3>1, BytesEditsStay
  <2>. QED
    BY <2>1, <2>2, <2>3
<1>3. \A v \in Texts \cup {<<>>} : [m EXCEPT !.function = v] \in ServerResponseType(U, V)
  BY <1>2, ServerResponseMembers, Zenon
<1>4. \A v \in Edits(m.values, Texts) : [m EXCEPT !.values = v] \in ServerResponseType(U, V)
  BY <1>2, ServerResponseMembers, Zenon
<1>5. \A v \in BytesEdits(m.bytes) : [m EXCEPT !.bytes = v] \in ServerResponseType(U, V)
  BY <1>2, ServerResponseMembers, Zenon
<1>. QED
  BY <1>3, <1>4, <1>5 DEF OTServerResponse_Accessors

LEMMA ClientRequestAccessed ==
  ASSUME NEW U, NEW m \in ClientRequestType(U)
  PROVE  OTClientRequest_Accessors(m) \subseteq ClientRequestType(U)
<1>1. /\ Texts \subseteq Seq(Int) /\ Texts \cup {<<>>} \subseteq Seq(Int)
      /\ Numbers \subseteq Int /\ Numbers \cup {0} \subseteq Int
  BY TextsAndNumbers
<1>2. /\ Texts \cup {<<>>} \subseteq Seq(Int)
      /\ MapEdits(m.uinWithLabelMap, Numbers, Numbers) \subseteq MapsOver(Int, Int)
  <2>1. Texts \cup {<<>>} \subseteq Seq(Int)
    BY <1>1
  <2>2. MapEdits(m.uinWithLabelMap, Numbers, Numbers) \subseteq MapsOver(Int, Int)
    <3>1. m.uinWithLabelMap \in MapsOver(Int, Int)
      BY ClientRequestMembers
    <3>. QED
      BY <1>1, <3>1, MapEditsStay
  <2>. QED
    BY <2>1, <2>2
<1>3. \A v \in Texts \cup {<<>>} : [m EXCEPT !.function = v] \in ClientRequestType(U)
  BY <1>2, ClientRequestMembers, Zenon
<1>4. \A v \in MapEdits(m.uinWithLabelMap, Numbers, Numbers) : [m EXCEPT !.uinWithLabelMap = v] \in ClientRequestType(U)
  BY <1>2, ClientRequestMembers, Zenon
<1>. QED
  BY <1>3, <1>4 DEF OTClientRequest_Accessors

LEMMA ClientResponseAccessed ==
  ASSUME NEW U, NEW m \in ClientResponseType(U)
  PROVE  OTClientResponse_Accessors(m) \subseteq ClientResponseType(U)
<1>1. /\ Texts \subseteq Seq(Int) /\ Texts \cup {<<>>} \subseteq Seq(Int)
      /\ Numbers \subseteq Int /\ Numbers \cup {0} \subseteq Int
  BY TextsAndNumbers
<1>2. /\ Texts \cup {<<>>} \subseteq Seq(Int)
      /\ Numbers \cup {0} \subseteq Int
      /\ MapEdits(m.resMap, Texts, Texts) \subseteq MapsOver(Seq(Int), Seq(Int))
  <2>1. Texts \cup {<<>>} \subseteq Seq(Int)
    BY <1>1
  <2>2. Numbers \cup {0} \subseteq Int
    BY <1>1
  <2>3. MapEdits(m.resMap, Texts, Texts) \subseteq MapsOver(Seq(Int), Seq(Int))
    <3>1. m.resMap \in MapsOver(Seq(Int), Seq(Int))
      BY ClientResponseMembers
    <3>. QED
      BY <1>1, <3>1, MapEditsStay
  <2>. QED
    BY <2>1, <2>2, <2>3
<1>3. \A v \in Texts \cup {<<>>} : [m EXCEPT !.function = v] \in ClientResponseType(U)
  BY <1>2, ClientResponseMembers, Zenon
<1>4. \A v \in Numbers \cup {0} : [m EXCEPT !.reqTimeMillis = v] \in ClientResponseType(U)
  BY <1>2, ClientResponseMembers, Zenon
<1>5. \A v \in MapEdits(m.resMap, Texts, Texts) : [m EXCEPT !.resMap = v] \in ClientResponseType(U)
  BY <1>2, ClientResponseMembers, Zenon
<1>. QED
  BY <1>3, <1>4, <1>5 DEF OTClientResponse_Accessors

-----------------------------------------------------------------------------
\* The inductive invariant.

\* The fields of wires, by the depth of what they hold.
F1 == FieldsOver({})
F2 == FieldsOver(F1)
F3 == FieldsOver(F2)

\* What the unknown fields of a message on the stack are, and its wire.
Written(c) ==
  CASE c = "Fields"                  -> MapFields(10, F3)
    [] c = "OTClientRequest"         -> MapFields(18, F3)
    [] c = "OTClientResponse"        -> MapFields(26, F3)
    [] c = "OTClientResponseWrapper" ->
         {f \in F3 : f.tag = 18 => f.sub \in Seq(MapFields(26, F2))}
    [] OTHER                         -> F3

ServerWrapperType ==
  [class : {"OTServerResponseWrapper"}, error : Nat, result : Nat, unknown : Seq(F3)]
ClientWrapperType ==
  [class : {"OTClientResponseWrapper"}, error : Nat,
   result : Seq(ClientResponseType(MapFields(26, F2))),
   unknown : Seq(Written("OTClientResponseWrapper"))]

RootType(c) ==
  CASE c = "Response"                -> ResponseType(F3)
    [] c = "Error"                   -> ErrorType(F3)
    [] c = "OTServiceData"           -> ServiceDataType(F3)
    [] c = "Bytes"                   -> BytesType(F3)
    [] c = "Fields"                  -> FieldsType(MapFields(10, F3))
    [] c = "OTServerRequest"         -> ServerRequestType(F3, F2)
    [] c = "OTServerResponse"        -> ServerResponseType(F3, F2)
    [] c = "OTClientRequest"         -> ClientRequestType(MapFields(18, F3))
    [] c = "OTClientResponse"        -> ClientResponseType(MapFields(26, F3))
    [] c = "OTServerResponseWrapper" -> ServerWrapperType
    [] c = "OTClientResponseWrapper" -> ClientWrapperType

\* The message fields a class holds by pointer, and what a pointer points to.
Held(c) ==
  CASE c = "OTServerResponseWrapper" -> {"error", "result"}
    [] c = "OTClientResponseWrapper" -> {"error"}
    [] OTHER                         -> {}
SubType(x) == IF x = "error" THEN ErrorType(F2) ELSE ServerResponseType(F2, F1)
SubTypes   == ErrorType(F2) \cup ServerResponseType(F2, F1)
CellType   == {Free} \cup SubTypes

Heaps(c) == {h \in [Roots \cup Addr -> RootType(c) \cup CellType] :
               /\ \A o \in Roots : h[o] \in RootType(c)
               /\ \A a \in Addr : h[a] \in CellType}

\* Every pointer is null or points to a message of its type; no two are equal.
PointersOK(c, h) ==
  /\ \A o \in Roots, x \in Held(c) :
       h[o][x] # nullptr => h[o][x] \in Addr /\ h[h[o][x]] \in SubType(x)
  /\ \A o, p \in Roots, x, y \in Held(c) :
       h[o][x] # nullptr /\ h[o][x] = h[p][y] => o = p /\ x = y

\* What release_ returned is a message of a field's type, and no pointer of a root.
HandOK(c, h, hd) ==
  hd # nullptr =>
    /\ hd \in Addr
    /\ \E x \in Held(c) : h[hd] \in SubType(x)
    /\ \A o \in Roots, x \in Held(c) : h[o][x] # hd

\* Nothing is leaked.
AllOwned(c, h, hd) ==
  \A a \in Addr : h[a] # Free => a = hd \/ \E o \in Roots, x \in Held(c) : h[o][x] = a

HeapOK(c, h, hd) ==
  h \in Heaps(c) /\ PointersOK(c, h) /\ HandOK(c, h, hd) /\ AllOwned(c, h, hd)

IInv ==
  /\ kind \in Kinds
  /\ HeapOK(kind, heap, hand)
  /\ spoiled \subseteq Roots
  /\ edits \in 0..MaxEdits
  /\ transfers \in 0..MaxTransfers

-----------------------------------------------------------------------------
\* Heaps.

LEMMA HeldClasses ==
  /\ \A c : Held(c) \subseteq {"error", "result"}
  /\ SubType("error") = ErrorType(F2) /\ SubType("result") = ServerResponseType(F2, F1)
  /\ \A m \in ErrorType(F2) : m.class = "Error"
  /\ \A m \in ServerResponseType(F2, F1) : m.class = "OTServerResponse"
  /\ Free.class = "free"
  /\ Free \notin ErrorType(F2) /\ Free \notin ServerResponseType(F2, F1)
<1>1. \A c : Held(c) \subseteq {"error", "result"}
  BY DEF Held
<1>2. SubType("error") = ErrorType(F2) /\ SubType("result") = ServerResponseType(F2, F1)
  BY DEF SubType
<1>3. \A m \in ErrorType(F2) : m.class = "Error"
  BY DEF ErrorType
<1>4. \A m \in ServerResponseType(F2, F1) : m.class = "OTServerResponse"
  BY DEF ServerResponseType
<1>5. Free.class = "free"
  BY DEF Free
<1>. QED
  BY <1>1, <1>2, <1>3, <1>4, <1>5

LEMMA NullIsNoAddress == nullptr \notin Addr /\ Addr \subseteq Nat /\ nullptr \in Nat /\ Roots \cap Addr = {}
BY AddrAssumption, RootsAssumption DEF nullptr

\* A change of a root that leaves its pointers alone.
LEMMA RootChanged ==
  ASSUME NEW c, NEW h, NEW hd, HeapOK(c, h, hd), NEW o \in Roots, NEW m \in RootType(c),
         \A x \in Held(c) : m[x] = h[o][x]
  PROVE  HeapOK(c, [h EXCEPT ![o] = m], hd)
<1>. DEFINE g == [h EXCEPT ![o] = m]
<1>1. g \in Heaps(c) /\ g[o] = m /\ (\A p \in Roots \ {o} : g[p] = h[p])
      /\ \A a \in Addr : g[a] = h[a]
  BY NullIsNoAddress DEF HeapOK, Heaps
<1>. HIDE DEF g
<1>2. \A p \in Roots, x \in Held(c) : g[p][x] = h[p][x]
  BY <1>1
<1>3. PointersOK(c, g)
  BY <1>1, <1>2 DEF HeapOK, PointersOK
<1>4. HandOK(c, g, hd)
  BY <1>1, <1>2 DEF HeapOK, HandOK
<1>5. AllOwned(c, g, hd)
  BY <1>1, <1>2 DEF HeapOK, AllOwned
<1>. QED
  BY <1>1, <1>3, <1>4, <1>5 DEF HeapOK, g

\* A change of a submessage.
LEMMA SubChanged ==
  ASSUME NEW c, NEW h, NEW hd, HeapOK(c, h, hd), NEW o \in Roots, NEW x \in Held(c),
         h[o][x] # nullptr, NEW m \in SubType(x)
  PROVE  HeapOK(c, [h EXCEPT ![h[o][x]] = m], hd)
<1>. DEFINE p == h[o][x]
            g == [h EXCEPT ![p] = m]
<1>1. p \in Addr /\ p # nullptr /\ p # hd /\ h[p] # Free
      /\ \A q \in Roots, y \in Held(c) : h[q][y] = p => q = o /\ y = x
  BY HeldClasses DEF HeapOK, PointersOK, HandOK, SubType
<1>2. m \in CellType
  BY DEF CellType, SubTypes, SubType
<1>. HIDE DEF p
<1>3. g \in Heaps(c) /\ g[p] = m /\ (\A q \in Roots : g[q] = h[q])
      /\ \A a \in Addr \ {p} : g[a] = h[a]
  BY <1>1, <1>2, NullIsNoAddress DEF HeapOK, Heaps
<1>. HIDE DEF g
<1>4. PointersOK(c, g)
  BY <1>1, <1>3 DEF HeapOK, PointersOK
<1>5. HandOK(c, g, hd)
  BY <1>1, <1>3 DEF HeapOK, HandOK
<1>6. AllOwned(c, g, hd)
  <2>. SUFFICES ASSUME NEW a \in Addr, g[a] # Free
                PROVE  a = hd \/ \E q \in Roots, y \in Held(c) : g[q][y] = a
    BY DEF AllOwned
  <2>1. h[a] # Free
    BY <1>1, <1>3
  <2>. QED
    BY <2>1, <1>3 DEF HeapOK, AllOwned
<1>. QED
  BY <1>3, <1>4, <1>5, <1>6 DEF HeapOK, g, p

\* The caller deletes what it owns.
LEMMA HandDeleted ==
  ASSUME NEW c, NEW h, NEW hd, HeapOK(c, h, hd), hd # nullptr
  PROVE  HeapOK(c, [h EXCEPT ![hd] = Free], nullptr)
<1>. DEFINE g == [h EXCEPT ![hd] = Free]
<1>1. hd \in Addr /\ \A o \in Roots, x \in Held(c) : h[o][x] # hd
  BY DEF HeapOK, HandOK
<1>2. g \in Heaps(c) /\ g[hd] = Free /\ (\A o \in Roots : g[o] = h[o])
      /\ \A a \in Addr \ {hd} : g[a] = h[a]
  BY <1>1, NullIsNoAddress DEF HeapOK, Heaps, CellType
<1>. HIDE DEF g
<1>3. PointersOK(c, g)
  BY <1>1, <1>2 DEF HeapOK, PointersOK
<1>4. HandOK(c, g, nullptr)
  BY DEF HandOK
<1>5. AllOwned(c, g, nullptr)
  BY <1>2, NullIsNoAddress DEF HeapOK, AllOwned
<1>. QED
  BY <1>2, <1>3, <1>4, <1>5 DEF HeapOK, g

\* A pointer goes to the hand.
LEMMA SubReleased ==
  ASSUME NEW c, NEW h, HeapOK(c, h, nullptr), NEW o \in Roots, NEW x \in Held(c),
         NEW m \in RootType(c), m[x] = nullptr, \A y \in Held(c) \ {x} : m[y] = h[o][y]
  PROVE  HeapOK(c, [h EXCEPT ![o] = m], h[o][x])
<1>. DEFINE g == [h EXCEPT ![o] = m]
            hd == h[o][x]
<1>1. g \in Heaps(c) /\ g[o] = m /\ (\A p \in Roots \ {o} : g[p] = h[p])
      /\ \A a \in Addr : g[a] = h[a]
  BY NullIsNoAddress DEF HeapOK, Heaps
<1>. HIDE DEF g
<1>2. \A p \in Roots, y \in Held(c) : g[p][y] # nullptr =>
        g[p][y] = h[p][y] /\ g[p][y] # hd /\ g[p][y] \in Addr
  BY <1>1 DEF HeapOK, PointersOK
<1>3. PointersOK(c, g)
  BY <1>1, <1>2 DEF HeapOK, PointersOK
<1>4. HandOK(c, g, hd)
  <2>. SUFFICES ASSUME hd # nullptr PROVE HandOK(c, g, hd)
    BY DEF HandOK
  <2>1. hd \in Addr /\ h[hd] \in SubType(x)
    BY DEF HeapOK, PointersOK
  <2>2. \A p \in Roots, y \in Held(c) : g[p][y] # hd
    BY <1>2
  <2>. QED
    BY <1>1, <2>1, <2>2 DEF HandOK
<1>5. AllOwned(c, g, hd)
  <2>. SUFFICES ASSUME NEW a \in Addr, g[a] # Free, a # hd
                PROVE  \E p \in Roots, y \in Held(c) : g[p][y] = a
    BY DEF AllOwned
  <2>1. PICK p \in Roots, y \in Held(c) : h[p][y] = a
    BY <1>1, NullIsNoAddress DEF HeapOK, AllOwned
  <2>2. g[p][y] = a
    BY <1>1, <2>1
  <2>. QED
    BY <2>2
<1>. QED
  BY <1>1, <1>3, <1>4, <1>5 DEF HeapOK, g

\* What the hand has goes to a pointer that was null.
LEMMA SubAttached ==
  ASSUME NEW c, NEW h, NEW hd, HeapOK(c, h, hd), hd # nullptr, NEW o \in Roots, NEW x \in Held(c),
         h[o][x] = nullptr, h[hd] \in SubType(x),
         NEW m \in RootType(c), m[x] = hd, \A y \in Held(c) \ {x} : m[y] = h[o][y]
  PROVE  HeapOK(c, [h EXCEPT ![o] = m], nullptr)
<1>. DEFINE g == [h EXCEPT ![o] = m]
<1>1. g \in Heaps(c) /\ g[o] = m /\ (\A p \in Roots \ {o} : g[p] = h[p])
      /\ \A a \in Addr : g[a] = h[a]
  BY NullIsNoAddress DEF HeapOK, Heaps
<1>. HIDE DEF g
<1>2. hd \in Addr /\ \A p \in Roots, y \in Held(c) : h[p][y] # hd
  BY DEF HeapOK, HandOK
<1>3. g[o][x] = hd /\ \A p \in Roots, y \in Held(c) : ~(p = o /\ y = x) => g[p][y] = h[p][y]
  BY <1>1
<1>4. PointersOK(c, g)
  <2>1. \A p \in Roots, y \in Held(c) :
          g[p][y] # nullptr => g[p][y] \in Addr /\ g[g[p][y]] \in SubType(y)
    BY <1>1, <1>2, <1>3 DEF HeapOK, PointersOK
  <2>2. \A p, q \in Roots, y, z \in Held(c) :
          g[p][y] # nullptr /\ g[p][y] = g[q][z] => p = q /\ y = z
    BY <1>2, <1>3 DEF HeapOK, PointersOK
  <2>. QED
    BY <2>1, <2>2 DEF PointersOK
<1>5. HandOK(c, g, nullptr)
  BY DEF HandOK
<1>6. AllOwned(c, g, nullptr)
  <2>. SUFFICES ASSUME NEW a \in Addr, g[a] # Free
                PROVE  \E p \in Roots, y \in Held(c) : g[p][y] = a
    BY DEF AllOwned
  <2>1. CASE a = hd
    BY <1>3, <2>1
  <2>2. CASE a # hd
    <3>1. PICK p \in Roots, y \in Held(c) : h[p][y] = a
      BY <1>1, <2>2 DEF HeapOK, AllOwned
    <3>2. g[p][y] = a
      BY <1>3, <3>1, NullIsNoAddress
    <3>. QED
      BY <3>2
  <2>. QED
    BY <2>1, <2>2
<1>. QED
  BY <1>1, <1>4, <1>5, <1>6 DEF HeapOK, g

\* A new submessage.
LEMMA SubAllocated ==
  ASSUME NEW c, NEW h, NEW hd, HeapOK(c, h, hd), NEW o \in Roots, NEW x \in Held(c),
         h[o][x] = nullptr, NEW p \in Addr, h[p] = Free, NEW v \in SubType(x),
         NEW m \in RootType(c), m[x] = p, \A y \in Held(c) \ {x} : m[y] = h[o][y]
  PROVE  HeapOK(c, [h EXCEPT ![p] = v, ![o] = m], hd)
<1>. DEFINE g == [h EXCEPT ![p] = v, ![o] = m]
<1>0. v \in CellType /\ o \notin Addr /\ p \notin Roots /\ p # nullptr
  BY NullIsNoAddress DEF CellType, SubTypes, SubType
<1>1. g \in Heaps(c) /\ g[o] = m /\ (\A q \in Roots \ {o} : g[q] = h[q])
      /\ g[p] = v /\ \A a \in Addr \ {p} : g[a] = h[a]
  BY <1>0, NullIsNoAddress DEF HeapOK, Heaps
<1>. HIDE DEF g
<1>2. /\ \A q \in Roots, y \in Held(c) : h[q][y] # p
      /\ hd # p
  BY <1>0, HeldClasses DEF HeapOK, PointersOK, HandOK, SubType
<1>3. g[o][x] = p /\ \A q \in Roots, y \in Held(c) : ~(q = o /\ y = x) => g[q][y] = h[q][y]
  BY <1>1
<1>4. PointersOK(c, g)
  <2>1. \A q \in Roots, y \in Held(c) :
          g[q][y] # nullptr => g[q][y] \in Addr /\ g[g[q][y]] \in SubType(y)
    BY <1>1, <1>2, <1>3 DEF HeapOK, PointersOK
  <2>2. \A q, r \in Roots, y, z \in Held(c) :
          g[q][y] # nullptr /\ g[q][y] = g[r][z] => q = r /\ y = z
    BY <1>2, <1>3 DEF HeapOK, PointersOK
  <2>. QED
    BY <2>1, <2>2 DEF PointersOK
<1>5. HandOK(c, g, hd)
  <2>. SUFFICES ASSUME hd # nullptr PROVE HandOK(c, g, hd)
    BY DEF HandOK
  <2>1. hd \in Addr /\ (\E y \in Held(c) : h[hd] \in SubType(y))
        /\ \A q \in Roots, y \in Held(c) : h[q][y] # hd
    BY DEF HeapOK, HandOK
  <2>2. g[hd] = h[hd] /\ \A q \in Roots, y \in Held(c) : g[q][y] # hd
    BY <1>1, <1>2, <1>3, <2>1
  <2>. QED
    BY <2>1, <2>2 DEF HandOK
<1>6. AllOwned(c, g, hd)
  <2>. SUFFICES ASSUME NEW a \in Addr, g[a] # Free, a # hd
                PROVE  \E q \in Roots, y \in Held(c) : g[q][y] = a
    BY DEF AllOwned
  <2>1. CASE a = p
    BY <1>3, <2>1
  <2>2. CASE a # p
    <3>1. PICK q \in Roots, y \in Held(c) : h[q][y] = a
      BY <1>1, <2>2 DEF HeapOK, AllOwned
    <3>2. g[q][y] = a
      BY <1>3, <3>1, NullIsNoAddress
    <3>. QED
      BY <3>2
  <2>. QED
    BY <2>1, <2>2
<1>. QED
  BY <1>1, <1>4, <1>5, <1>6 DEF HeapOK, g

\* Two roots swap their pointers.
LEMMA PointersSwapped ==
  ASSUME NEW c, NEW h, NEW hd, HeapOK(c, h, hd), NEW o \in Roots, NEW q \in Roots, o # q,
         NEW m \in RootType(c), NEW n \in RootType(c),
         \A x \in Held(c) : m[x] = h[q][x] /\ n[x] = h[o][x]
  PROVE  HeapOK(c, [h EXCEPT ![o] = m, ![q] = n], hd)
<1>. DEFINE g == [h EXCEPT ![o] = m, ![q] = n]
            sw(p) == IF p = o THEN q ELSE IF p = q THEN o ELSE p
<1>1. g \in Heaps(c) /\ g[o] = m /\ g[q] = n /\ (\A p \in Roots \ {o, q} : g[p] = h[p])
      /\ \A a \in Addr : g[a] = h[a]
  BY NullIsNoAddress DEF HeapOK, Heaps
<1>. HIDE DEF g
<1>2. \A p \in Roots, x \in Held(c) : g[p][x] = h[sw(p)][x]
  BY <1>1
<1>3. \A p, r \in Roots : sw(p) \in Roots /\ sw(sw(p)) = p /\ (sw(p) = sw(r) => p = r)
  OBVIOUS
<1>. HIDE DEF sw
<1>4. PointersOK(c, g)
  BY <1>1, <1>2, <1>3 DEF HeapOK, PointersOK
<1>5. HandOK(c, g, hd)
  BY <1>1, <1>2, <1>3 DEF HeapOK, HandOK
<1>6. AllOwned(c, g, hd)
  <2>. SUFFICES ASSUME NEW a \in Addr, g[a] # Free, a # hd
                PROVE  \E p \in Roots, y \in Held(c) : g[p][y] = a
    BY DEF AllOwned
  <2>1. PICK p \in Roots, y \in Held(c) : h[p][y] = a
    BY <1>1 DEF HeapOK, AllOwned
  <2>2. g[sw(p)][y] = a
    BY <1>2, <1>3, <2>1
  <2>. QED
    BY <1>3, <2>2
<1>. QED
  BY <1>1, <1>4, <1>5, <1>6 DEF HeapOK, g

\* While a pointer is null there is memory for what it would point to: the
\* others and the hand own one address each.
LEMMA EnoughMemory ==
  ASSUME NEW c, NEW h, NEW hd, HeapOK(c, h, hd), NEW o \in Roots, NEW x \in Held(c),
         h[o][x] = nullptr
  PROVE  \E a \in Addr : h[a] = Free
<1>. DEFINE Slots == Roots \X {"error", "result"}
            at(s) == IF s = <<o, x>> THEN hd ELSE h[s[1]][s[2]]
            owner == [a \in Addr |-> CHOOSE s \in Slots : at(s) = a]
<1>1. SUFFICES ASSUME \A a \in Addr : h[a] # Free PROVE FALSE
  OBVIOUS
<1>2. \A a \in Addr : \E s \in Slots : at(s) = a
  <2>. SUFFICES ASSUME NEW a \in Addr PROVE \E s \in Slots : at(s) = a
    OBVIOUS
  <2>1. a = hd \/ \E p \in Roots, y \in Held(c) : h[p][y] = a
    BY <1>1 DEF HeapOK, AllOwned
  <2>2. CASE a = hd
    BY <2>2, HeldClasses
  <2>3. CASE \E p \in Roots, y \in Held(c) : h[p][y] = a
    <3>1. PICK p \in Roots, y \in Held(c) : h[p][y] = a
      BY <2>3
    <3>2. <<p, y>> \in Slots /\ <<p, y>> # <<o, x>>
      BY <3>1, HeldClasses, NullIsNoAddress
    <3>3. at(<<p, y>>) = a
      BY <3>1, <3>2
    <3>. QED
      BY <3>2, <3>3
  <2>. QED
    BY <2>1, <2>2, <2>3
<1>3. owner \in Injection(Addr, Slots)
  <2>. HIDE DEF Slots, at
  <2>1. \A a \in Addr : owner[a] \in Slots /\ at(owner[a]) = a
    BY <1>2
  <2>. HIDE DEF owner
  <2>2. owner \in [Addr -> Slots]
    BY <2>1 DEF owner
  <2>. QED
    BY <2>1, <2>2 DEF Injection, IsInjective
<1>4. IsFiniteSet(Slots) /\ Cardinality(Slots) = 2 * Cardinality(Roots) /\ Cardinality(Roots) \in Nat
  <2>1. IsFiniteSet({"error"}) /\ Cardinality({"error"}) = 1
    BY FS_Singleton
  <2>2. {"error", "result"} = {"error"} \cup {"result"} /\ "result" \notin {"error"}
    OBVIOUS
  <2>3. IsFiniteSet({"error", "result"}) /\ Cardinality({"error", "result"}) = 2
    BY <2>1, <2>2, FS_AddElement
  <2>4. IsFiniteSet(Roots) /\ Cardinality(Roots) \in Nat
    BY RootsAssumption, FS_CardinalityType
  <2>5. IsFiniteSet(Slots) /\ Cardinality(Slots) = Cardinality(Roots) * Cardinality({"error", "result"})
    BY <2>3, <2>4, FS_Product
  <2>. QED
    BY <2>3, <2>4, <2>5
<1>. HIDE DEF Slots, owner
<1>5. IsFiniteSet(Addr) /\ Cardinality(Addr) <= Cardinality(Slots)
  BY <1>3, <1>4, FS_Injection
<1>6. Cardinality(Addr) \in Nat
  BY <1>5, FS_CardinalityType
<1>. QED
  BY <1>4, <1>5, <1>6, MemoryAssumption

LEMMA UnusedIsFree ==
  ASSUME NEW h, \E a \in Addr : h[a] = Free
  PROVE  Unused(h) \in Addr /\ h[Unused(h)] = Free
<1>. DEFINE T == {a \in Addr : h[a] = Free}
<1>1. T \subseteq Nat /\ T # {}
  BY AddrAssumption
<1>2. PICK a \in T : \A b \in T : a <= b
  <2>. HIDE DEF T
  <2>. QED
    BY <1>1, LeastNat
<1>3. a \in Addr /\ h[a] = Free /\ \A b \in Addr : h[b] = Free => a <= b
  BY <1>2
<1>. QED
  BY <1>3 DEF Unused

-----------------------------------------------------------------------------
\* Wrappers.

LEMMA ServerWrapperMembers ==
  ASSUME NEW m \in ServerWrapperType
  PROVE  /\ m.error \in Nat /\ m.result \in Nat /\ m.unknown \in Seq(F3)
         /\ m.class = "OTServerResponseWrapper"
         /\ \A v \in Nat : /\ [m EXCEPT !.error = v] \in ServerWrapperType
                           /\ [m EXCEPT !.error = v].error = v
                           /\ [m EXCEPT !.error = v].result = m.result
         /\ \A v \in Nat : /\ [m EXCEPT !.result = v] \in ServerWrapperType
                           /\ [m EXCEPT !.result = v].error = m.error
                           /\ [m EXCEPT !.result = v].result = v
         /\ \A v \in Seq(F3) : /\ [m EXCEPT !.unknown = v] \in ServerWrapperType
                               /\ [m EXCEPT !.unknown = v].error = m.error
                               /\ [m EXCEPT !.unknown = v].result = m.result
BY DEF ServerWrapperType

LEMMA ClientWrapperMembers ==
  ASSUME NEW m \in ClientWrapperType
  PROVE  /\ m.error \in Nat /\ m.result \in Seq(ClientResponseType(MapFields(26, F2)))
         /\ m.unknown \in Seq(Written("OTClientResponseWrapper"))
         /\ m.class = "OTClientResponseWrapper"
         /\ \A v \in Nat : /\ [m EXCEPT !.error = v] \in ClientWrapperType
                           /\ [m EXCEPT !.error = v].error = v
         /\ \A v \in Seq(ClientResponseType(MapFields(26, F2))) :
              /\ [m EXCEPT !.result = v] \in ClientWrapperType
              /\ [m EXCEPT !.result = v].error = m.error
         /\ \A v \in Seq(Written("OTClientResponseWrapper")) :
              /\ [m EXCEPT !.unknown = v] \in ClientWrapperType
              /\ [m EXCEPT !.unknown = v].error = m.error
BY DEF ClientWrapperType

SWrapper == "OTServerResponseWrapper"
CWrapper == "OTClientResponseWrapper"

LEMMA WrapperClasses ==
  /\ Held(SWrapper) = {"error", "result"} /\ RootType(SWrapper) = ServerWrapperType
  /\ Held(CWrapper) = {"error"} /\ RootType(CWrapper) = ClientWrapperType
  /\ Written(SWrapper) = F3 /\ Written(CWrapper) \subseteq F3
BY DEF Held, RootType, SWrapper, CWrapper, Written

LEMMA Deleted ==
  ASSUME NEW c, NEW h \in Heaps(c), NEW p \in Addr \cup {nullptr}
  PROVE  /\ Delete(h, p) \in Heaps(c)
         /\ \A o \in Roots : Delete(h, p)[o] = h[o]
         /\ \A a \in Addr : Delete(h, p)[a] = IF a = p THEN Free ELSE h[a]
<1>1. CASE p = nullptr
  BY <1>1, NullIsNoAddress DEF Delete
<1>2. CASE p # nullptr
  BY <1>2, NullIsNoAddress DEF Delete, Heaps, CellType
<1>. QED
  BY <1>1, <1>2

LEMMA RootSet ==
  ASSUME NEW c, NEW h \in Heaps(c), NEW o \in Roots, NEW m \in RootType(c)
  PROVE  /\ [h EXCEPT ![o] = m] \in Heaps(c)
         /\ [h EXCEPT ![o] = m][o] = m
         /\ \A p \in Roots \ {o} : [h EXCEPT ![o] = m][p] = h[p]
         /\ \A a \in Addr : [h EXCEPT ![o] = m][a] = h[a]
BY NullIsNoAddress DEF Heaps

\* A root that lost the pointers X, after what they pointed to was deleted.
LEMMA PointersCleared ==
  ASSUME NEW c, NEW h, NEW hd, HeapOK(c, h, hd), NEW o \in Roots, NEW X \in SUBSET Held(c),
         NEW d \in Heaps(c), \A p \in Roots : d[p] = h[p],
         \A a \in Addr : d[a] = IF \E x \in X : h[o][x] = a THEN Free ELSE h[a],
         NEW m \in RootType(c), \A x \in Held(c) : m[x] = IF x \in X THEN nullptr ELSE h[o][x]
  PROVE  HeapOK(c, [d EXCEPT ![o] = m], hd)
<1>. DEFINE g == [d EXCEPT ![o] = m]
<1>1. g \in Heaps(c) /\ g[o] = m /\ (\A p \in Roots \ {o} : g[p] = d[p]) /\ \A a \in Addr : g[a] = d[a]
  BY RootSet
<1>. HIDE DEF g
<1>2. \A p \in Roots \ {o} : g[p] = h[p]
  BY <1>1
<1>3. \A x \in Held(c) : g[o][x] = IF x \in X THEN nullptr ELSE h[o][x]
  BY <1>1
<1>4. \A a \in Addr : g[a] = IF \E x \in X : h[o][x] = a THEN Free ELSE h[a]
  BY <1>1
<1>5. \A p \in Roots, x \in Held(c) : g[p][x] # nullptr => g[p][x] = h[p][x] /\ (p = o => x \notin X)
  BY <1>2, <1>3
<1>6. \A p \in Roots, x \in Held(c) : g[p][x] # nullptr => g[g[p][x]] = h[g[p][x]]
  <2>. SUFFICES ASSUME NEW p \in Roots, NEW x \in Held(c), g[p][x] # nullptr
                PROVE  g[g[p][x]] = h[g[p][x]]
    OBVIOUS
  <2>1. g[p][x] = h[p][x] /\ g[p][x] \in Addr /\ (p = o => x \notin X)
    BY <1>5 DEF HeapOK, PointersOK
  <2>2. \A y \in X : h[o][y] # h[p][x]
    BY <2>1, <1>5 DEF HeapOK, PointersOK
  <2>. QED
    BY <1>4, <2>1, <2>2
<1>7. PointersOK(c, g)
  <2>1. \A p \in Roots, x \in Held(c) :
          g[p][x] # nullptr => g[p][x] \in Addr /\ g[g[p][x]] \in SubType(x)
    BY <1>5, <1>6 DEF HeapOK, PointersOK
  <2>2. \A p, q \in Roots, x, y \in Held(c) :
          g[p][x] # nullptr /\ g[p][x] = g[q][y] => p = q /\ x = y
    BY <1>5 DEF HeapOK, PointersOK
  <2>. QED
    BY <2>1, <2>2 DEF PointersOK
<1>8. HandOK(c, g, hd)
  BY <1>4, <1>5 DEF HeapOK, HandOK
<1>9. AllOwned(c, g, hd)
  <2>. SUFFICES ASSUME NEW a \in Addr, g[a] # Free, a # hd
                PROVE  \E p \in Roots, x \in Held(c) : g[p][x] = a
    BY DEF AllOwned
  <2>1. h[a] # Free /\ \A x \in X : h[o][x] # a
    BY <1>4
  <2>2. PICK p \in Roots, x \in Held(c) : h[p][x] = a
    BY <2>1 DEF HeapOK, AllOwned
  <2>3. g[p][x] = a
    BY <1>2, <1>3, <2>1, <2>2
  <2>. QED
    BY <2>3
<1>. QED
  BY <1>1, <1>7, <1>8, <1>9 DEF HeapOK, g

LEMMA ServerRoot ==
  ASSUME NEW h, NEW hd, HeapOK(SWrapper, h, hd), NEW o \in Roots
  PROVE  /\ h \in Heaps(SWrapper) /\ h[o] \in ServerWrapperType
         /\ DOMAIN h = Roots \cup Addr
         /\ h[o].error \in Addr \cup {nullptr} /\ h[o].result \in Addr \cup {nullptr}
         /\ h[o].error # nullptr => h[h[o].error] \in ErrorType(F2)
         /\ h[o].result # nullptr => h[h[o].result] \in ServerResponseType(F2, F1)
         /\ h[o].result # nullptr => h[o].error # h[o].result
BY WrapperClasses, HeldClasses DEF HeapOK, Heaps, PointersOK

LEMMA ClientRoot ==
  ASSUME NEW h, NEW hd, HeapOK(CWrapper, h, hd), NEW o \in Roots
  PROVE  /\ h \in Heaps(CWrapper) /\ h[o] \in ClientWrapperType
         /\ DOMAIN h = Roots \cup Addr
         /\ h[o].error \in Addr \cup {nullptr}
         /\ h[o].error # nullptr => h[h[o].error] \in ErrorType(F2)
BY WrapperClasses, HeldClasses DEF HeapOK, Heaps, PointersOK

\* Deleting error, result or both.
LEMMA ServerDeletes ==
  ASSUME NEW h, NEW hd, HeapOK(SWrapper, h, hd), NEW o \in Roots
  PROVE  LET e == Delete(h, h[o].error)
             r == Delete(h, h[o].result)
             d == Delete(e, h[o].result)
         IN /\ e \in Heaps(SWrapper) /\ r \in Heaps(SWrapper) /\ d \in Heaps(SWrapper)
            /\ e[o] = h[o] /\ r[o] = h[o] /\ d[o] = h[o]
            /\ \A m \in ServerWrapperType :
                 /\ m.error = nullptr /\ m.result = h[o].result
                      => HeapOK(SWrapper, [e EXCEPT ![o] = m], hd)
                 /\ m.error = h[o].error /\ m.result = nullptr
                      => HeapOK(SWrapper, [r EXCEPT ![o] = m], hd)
                 /\ m.error = nullptr /\ m.result = nullptr
                      => HeapOK(SWrapper, [d EXCEPT ![o] = m], hd)
<1>. DEFINE e == Delete(h, h[o].error)
            r == Delete(h, h[o].result)
            d == Delete(e, h[o].result)
<1>1. /\ h \in Heaps(SWrapper)
      /\ h[o].error \in Addr \cup {nullptr} /\ h[o].result \in Addr \cup {nullptr}
  BY ServerRoot
<1>2. /\ e \in Heaps(SWrapper) /\ \A p \in Roots : e[p] = h[p]
      /\ \A a \in Addr : e[a] = IF a = h[o].error THEN Free ELSE h[a]
  BY <1>1, Deleted
<1>3. /\ r \in Heaps(SWrapper) /\ \A p \in Roots : r[p] = h[p]
      /\ \A a \in Addr : r[a] = IF a = h[o].result THEN Free ELSE h[a]
  BY <1>1, Deleted
<1>. HIDE DEF e
<1>4. /\ d \in Heaps(SWrapper) /\ \A p \in Roots : d[p] = e[p]
      /\ \A a \in Addr : d[a] = IF a = h[o].result THEN Free ELSE e[a]
  BY <1>1, <1>2, Deleted, SMTT(40)
<1>. HIDE DEF r, d
<1>5. ASSUME NEW m \in ServerWrapperType, m.error = nullptr, m.result = h[o].result
      PROVE  HeapOK(SWrapper, [e EXCEPT ![o] = m], hd)
  <2>1. \A a \in Addr : e[a] = IF \E x \in {"error"} : h[o][x] = a THEN Free ELSE h[a]
    BY <1>2
  <2>2. \A x \in Held(SWrapper) : m[x] = IF x \in {"error"} THEN nullptr ELSE h[o][x]
    BY <1>5, WrapperClasses
  <2>. QED
    BY <1>2, <1>5, <2>1, <2>2, WrapperClasses, PointersCleared
<1>6. ASSUME NEW m \in ServerWrapperType, m.error = h[o].error, m.result = nullptr
      PROVE  HeapOK(SWrapper, [r EXCEPT ![o] = m], hd)
  <2>1. \A a \in Addr : r[a] = IF \E x \in {"result"} : h[o][x] = a THEN Free ELSE h[a]
    BY <1>3
  <2>2. \A x \in Held(SWrapper) : m[x] = IF x \in {"result"} THEN nullptr ELSE h[o][x]
    BY <1>6, WrapperClasses
  <2>. QED
    BY <1>3, <1>6, <2>1, <2>2, WrapperClasses, PointersCleared
<1>7. ASSUME NEW m \in ServerWrapperType, m.error = nullptr, m.result = nullptr
      PROVE  HeapOK(SWrapper, [d EXCEPT ![o] = m], hd)
  <2>1. \A a \in Addr : d[a] = IF \E x \in {"error", "result"} : h[o][x] = a THEN Free ELSE h[a]
    BY <1>2, <1>4
  <2>2. \A x \in Held(SWrapper) : m[x] = IF x \in {"error", "result"} THEN nullptr ELSE h[o][x]
    BY <1>7, WrapperClasses
  <2>3. \A p \in Roots : d[p] = h[p]
    BY <1>2, <1>4
  <2>. QED
    BY <1>4, <1>7, <2>1, <2>2, <2>3, WrapperClasses, PointersCleared
<1>8. e[o] = h[o] /\ r[o] = h[o] /\ d[o] = h[o]
  BY <1>2, <1>3, <1>4
<1>. QED
  BY <1>2, <1>3, <1>4, <1>5, <1>6, <1>7, <1>8 DEF e, r, d

LEMMA ClientDeletes ==
  ASSUME NEW h, NEW hd, HeapOK(CWrapper, h, hd), NEW o \in Roots
  PROVE  LET d == Delete(h, h[o].error)
         IN /\ d \in Heaps(CWrapper)
            /\ d[o] = h[o]
            /\ \A m \in ClientWrapperType :
                 m.error = nullptr => HeapOK(CWrapper, [d EXCEPT ![o] = m], hd)
<1>. DEFINE d == Delete(h, h[o].error)
<1>1. /\ h \in Heaps(CWrapper) /\ h[o].error \in Addr \cup {nullptr}
  BY ClientRoot
<1>2. /\ d \in Heaps(CWrapper) /\ \A p \in Roots : d[p] = h[p]
      /\ \A a \in Addr : d[a] = IF a = h[o].error THEN Free ELSE h[a]
  BY <1>1, Deleted
<1>. HIDE DEF d
<1>3. ASSUME NEW m \in ClientWrapperType, m.error = nullptr
      PROVE  HeapOK(CWrapper, [d EXCEPT ![o] = m], hd)
  <2>1. \A a \in Addr : d[a] = IF \E x \in {"error"} : h[o][x] = a THEN Free ELSE h[a]
    BY <1>2
  <2>2. \A x \in Held(CWrapper) : m[x] = IF x \in {"error"} THEN nullptr ELSE h[o][x]
    BY <1>3, WrapperClasses
  <2>. QED
    BY <1>2, <1>3, <2>1, <2>2, WrapperClasses, PointersCleared
<1>. QED
  BY <1>2, <1>3 DEF d

\* EXCEPT on a member of a root.
LEMMA MemberSet ==
  ASSUME NEW c, NEW h \in Heaps(c), NEW o \in Roots, NEW v
  PROVE  /\ [h EXCEPT ![o].error = v] = [h EXCEPT ![o] = [h[o] EXCEPT !.error = v]]
         /\ [h EXCEPT ![o].result = v] = [h EXCEPT ![o] = [h[o] EXCEPT !.result = v]]
         /\ [h EXCEPT ![o].unknown = v] = [h EXCEPT ![o] = [h[o] EXCEPT !.unknown = v]]
         /\ \A m, n : [[h EXCEPT ![o] = m] EXCEPT ![o] = n] = [h EXCEPT ![o] = n]
         /\ \A m : [h EXCEPT ![o] = m][o] = m
BY DEF Heaps
LEMMA MemberSetAgain ==
  ASSUME NEW c, NEW h \in Heaps(c), NEW o \in Roots, NEW m, NEW v, NEW g, g = [h EXCEPT ![o] = m]
  PROVE  /\ [g EXCEPT ![o].error = v] = [h EXCEPT ![o] = [m EXCEPT !.error = v]]
         /\ [g EXCEPT ![o].result = v] = [h EXCEPT ![o] = [m EXCEPT !.result = v]]
         /\ [g EXCEPT ![o].unknown = v] = [h EXCEPT ![o] = [m EXCEPT !.unknown = v]]
BY DEF Heaps

LEMMA NewSubs ==
  /\ Error_New \in ErrorType(F2) /\ Error_New \in SubType("error")
  /\ OTServerResponse_New \in ServerResponseType(F2, F1) /\ OTServerResponse_New \in SubType("result")
  /\ OTClientResponse_New \in ClientResponseType(MapFields(26, F2))
<1>1. /\ <<>> \in Seq(Int) /\ <<>> \in Seq(F2) /\ <<>> \in Seq(Seq(Int))
      /\ <<>> \in Seq(BytesType(F1)) /\ <<>> \in Seq(MapFields(26, F2))
  OBVIOUS
<1>2. Error_New \in ErrorType(F2)
  BY <1>1 DEF Error_New, ErrorType
<1>3. OTServerResponse_New \in ServerResponseType(F2, F1)
  BY <1>1 DEF OTServerResponse_New, ServerResponseType
<1>4. OTClientResponse_New \in ClientResponseType(MapFields(26, F2))
  BY <1>1, MapsNone DEF OTClientResponse_New, ClientResponseType
<1>. QED
  BY <1>2, <1>3, <1>4, HeldClasses

LEMMA ServerCleared ==
  ASSUME NEW h, NEW hd, HeapOK(SWrapper, h, hd), NEW o \in Roots
  PROVE  /\ HeapOK(SWrapper, OTServerResponseWrapper_clear_error(h, o), hd)
         /\ HeapOK(SWrapper, OTServerResponseWrapper_clear_result(h, o), hd)
         /\ HeapOK(SWrapper, OTServerResponseWrapper_Clear(h, o), hd)
         /\ \A m \in ServerWrapperType : m.error = nullptr /\ m.result = nullptr =>
              HeapOK(SWrapper, [OTServerResponseWrapper_SharedDtor(h, o) EXCEPT ![o] = m], hd)
<1>. DEFINE e == Delete(h, h[o].error)
            r == Delete(h, h[o].result)
            d == Delete(e, h[o].result)
            me == [h[o] EXCEPT !.error = nullptr]
            mr == [h[o] EXCEPT !.result = nullptr]
            m2 == [me EXCEPT !.result = nullptr]
            m3 == [m2 EXCEPT !.unknown = <<>>]
            withoutError  == [e EXCEPT ![o].error = nullptr]
            withoutResult == [r EXCEPT ![o].result = nullptr]
            first  == [d EXCEPT ![o].error = nullptr]
            second == [first EXCEPT ![o].result = nullptr]
            third  == [second EXCEPT ![o].unknown = <<>>]
<1>1. /\ e \in Heaps(SWrapper) /\ r \in Heaps(SWrapper) /\ d \in Heaps(SWrapper)
      /\ e[o] = h[o] /\ r[o] = h[o] /\ d[o] = h[o]
      /\ \A m \in ServerWrapperType :
           /\ m.error = nullptr /\ m.result = h[o].result
                => HeapOK(SWrapper, [e EXCEPT ![o] = m], hd)
           /\ m.error = h[o].error /\ m.result = nullptr
                => HeapOK(SWrapper, [r EXCEPT ![o] = m], hd)
           /\ m.error = nullptr /\ m.result = nullptr
                => HeapOK(SWrapper, [d EXCEPT ![o] = m], hd)
  BY ServerDeletes
<1>2. OTServerResponseWrapper_SharedDtor(h, o) = d
  BY DEF OTServerResponseWrapper_SharedDtor
<1>3. OTServerResponseWrapper_clear_error(h, o) = withoutError
  BY DEF OTServerResponseWrapper_clear_error
<1>4. OTServerResponseWrapper_clear_result(h, o) = withoutResult
  BY DEF OTServerResponseWrapper_clear_result
<1>5. OTServerResponseWrapper_Clear(h, o) = third
  BY DEF OTServerResponseWrapper_Clear
<1>6. /\ me \in ServerWrapperType /\ me.error = nullptr /\ me.result = h[o].result
      /\ mr \in ServerWrapperType /\ mr.error = h[o].error /\ mr.result = nullptr
  BY ServerRoot, ServerWrapperMembers, NullIsNoAddress
<1>. HIDE DEF e, r, d, me, mr
<1>7. m2 \in ServerWrapperType /\ m2.error = nullptr /\ m2.result = nullptr
  BY <1>6, ServerWrapperMembers, NullIsNoAddress
<1>. HIDE DEF m2
<1>8. m3 \in ServerWrapperType /\ m3.error = nullptr /\ m3.result = nullptr
  <2>1. <<>> \in Seq(F3)
    OBVIOUS
  <2>. QED
    BY <1>7, <2>1, ServerWrapperMembers, Zenon DEF m3
<1>9. withoutError = [e EXCEPT ![o] = me]
  BY <1>1, MemberSet DEF me, withoutError
<1>10. withoutResult = [r EXCEPT ![o] = mr]
  BY <1>1, MemberSet DEF mr, withoutResult
<1>11. first = [d EXCEPT ![o] = me]
  BY <1>1, MemberSet DEF me, first
<1>. HIDE DEF withoutError, withoutResult, first
<1>13. second = [d EXCEPT ![o] = m2]
  BY <1>1, <1>11, MemberSetAgain, Zenon DEF m2, second
<1>. HIDE DEF second
<1>15. third = [d EXCEPT ![o] = m3]
  BY <1>1, <1>13, MemberSetAgain, Zenon DEF m3, third
<1>. HIDE DEF m3, third
<1>16. HeapOK(SWrapper, [e EXCEPT ![o] = me], hd) /\ HeapOK(SWrapper, [r EXCEPT ![o] = mr], hd)
       /\ HeapOK(SWrapper, [d EXCEPT ![o] = m3], hd)
  BY <1>1, <1>6, <1>8
<1>. QED
  BY <1>1, <1>2, <1>3, <1>4, <1>5, <1>9, <1>10, <1>11, <1>13, <1>15, <1>16, Zenon

LEMMA ClientCleared ==
  ASSUME NEW h, NEW hd, HeapOK(CWrapper, h, hd), NEW o \in Roots
  PROVE  /\ HeapOK(CWrapper, OTClientResponseWrapper_clear_error(h, o), hd)
         /\ HeapOK(CWrapper, OTClientResponseWrapper_Clear(h, o), hd)
         /\ \A m \in ClientWrapperType : m.error = nullptr =>
              HeapOK(CWrapper, [OTClientResponseWrapper_SharedDtor(h, o) EXCEPT ![o] = m], hd)
<1>. DEFINE d == Delete(h, h[o].error)
            me == [h[o] EXCEPT !.error = nullptr]
            mr == [h[o] EXCEPT !.result = <<>>]
            m2 == [mr EXCEPT !.error = nullptr]
            m3 == [m2 EXCEPT !.unknown = <<>>]
            withoutError  == [d EXCEPT ![o].error = nullptr]
            first  == [d EXCEPT ![o].result = <<>>]
            second == [first EXCEPT ![o].error = nullptr]
            third  == [second EXCEPT ![o].unknown = <<>>]
<1>1. /\ d \in Heaps(CWrapper)
      /\ d[o] = h[o]
      /\ \A m \in ClientWrapperType :
           m.error = nullptr => HeapOK(CWrapper, [d EXCEPT ![o] = m], hd)
  BY ClientDeletes
<1>2. OTClientResponseWrapper_SharedDtor(h, o) = d
  BY DEF OTClientResponseWrapper_SharedDtor
<1>3. OTClientResponseWrapper_clear_error(h, o) = withoutError
  BY DEF OTClientResponseWrapper_clear_error
<1>5. OTClientResponseWrapper_Clear(h, o) = third
  BY DEF OTClientResponseWrapper_Clear
<1>6. /\ me \in ClientWrapperType /\ me.error = nullptr
      /\ mr \in ClientWrapperType
  <2>1. <<>> \in Seq(ClientResponseType(MapFields(26, F2)))
    OBVIOUS
  <2>. QED
    BY <2>1, ClientRoot, ClientWrapperMembers, NullIsNoAddress, Zenon
<1>. HIDE DEF d, me, mr
<1>7. m2 \in ClientWrapperType /\ m2.error = nullptr
  BY <1>6, ClientWrapperMembers, NullIsNoAddress
<1>. HIDE DEF m2
<1>8. m3 \in ClientWrapperType /\ m3.error = nullptr
  <2>1. <<>> \in Seq(Written("OTClientResponseWrapper"))
    OBVIOUS
  <2>. QED
    BY <1>7, <2>1, ClientWrapperMembers, Zenon DEF m3
<1>9. withoutError = [d EXCEPT ![o] = me]
  BY <1>1, MemberSet DEF me, withoutError
<1>11. first = [d EXCEPT ![o] = mr]
  BY <1>1, MemberSet DEF mr, first
<1>. HIDE DEF withoutError, first
<1>13. second = [d EXCEPT ![o] = m2]
  BY <1>1, <1>11, MemberSetAgain, Zenon DEF m2, second
<1>. HIDE DEF second
<1>15. third = [d EXCEPT ![o] = m3]
  BY <1>1, <1>13, MemberSetAgain, Zenon DEF m3, third
<1>. HIDE DEF m3, third
<1>16. HeapOK(CWrapper, [d EXCEPT ![o] = me], hd) /\ HeapOK(CWrapper, [d EXCEPT ![o] = m3], hd)
  BY <1>1, <1>6, <1>8
<1>. QED
  BY <1>1, <1>2, <1>3, <1>5, <1>9, <1>11, <1>13, <1>15, <1>16, Zenon

\* mutable_: the pointer is no longer null, and nothing else has changed.
LEMMA ServerMutable ==
  ASSUME NEW h, NEW hd, HeapOK(SWrapper, h, hd), NEW o \in Roots
  PROVE  LET e == OTServerResponseWrapper_mutable_error(h, o)
             r == OTServerResponseWrapper_mutable_result(h, o)
         IN /\ HeapOK(SWrapper, e, hd) /\ e[o].error # nullptr
            /\ HeapOK(SWrapper, r, hd) /\ r[o].result # nullptr
            /\ \A p \in Roots \ {o} : e[p] = h[p] /\ r[p] = h[p]
            /\ \A a \in Addr : h[a] # Free => e[a] = h[a] /\ r[a] = h[a]
<1>. DEFINE e == OTServerResponseWrapper_mutable_error(h, o)
            r == OTServerResponseWrapper_mutable_result(h, o)
            Kept(g) == /\ \A p \in Roots \ {o} : g[p] = h[p]
                       /\ \A a \in Addr : h[a] # Free => g[a] = h[a]
<1>1. HeapOK(SWrapper, e, hd) /\ e[o].error # nullptr /\ Kept(e)
  <2>1. CASE h[o].error # nullptr
    BY <2>1 DEF OTServerResponseWrapper_mutable_error
  <2>2. CASE h[o].error = nullptr
    <3>. DEFINE p == Unused(h)
                m == [h[o] EXCEPT !.error = p]
    <3>1. p \in Addr /\ h[p] = Free /\ p \notin Roots /\ p # nullptr
      BY <2>2, EnoughMemory, UnusedIsFree, WrapperClasses, NullIsNoAddress
    <3>2. e = [[h EXCEPT ![p] = Error_New] EXCEPT ![o].error = p]
      BY <2>2 DEF OTServerResponseWrapper_mutable_error
    <3>. HIDE DEF p, e
    <3>3. m \in ServerWrapperType /\ m.error = p /\ m.result = h[o].result
      BY <3>1, ServerRoot, ServerWrapperMembers, NullIsNoAddress
    <3>4. Error_New \in SubType("error")
      BY NewSubs
    <3>5. e = [h EXCEPT ![p] = Error_New, ![o] = m]
      BY <3>1, <3>2, ServerRoot
    <3>. HIDE DEF m
    <3>6. HeapOK(SWrapper, [h EXCEPT ![p] = Error_New, ![o] = m], hd)
      BY <2>2, <3>1, <3>3, <3>4, WrapperClasses, SubAllocated
    <3>7. e[o].error = p /\ Kept(e)
      <4>1. DOMAIN h = Roots \cup Addr
        BY ServerRoot
      <4>2. e[o] = m /\ \A a \in (Roots \cup Addr) \ {o, p} : e[a] = h[a]
        BY <3>1, <3>5, <4>1
      <4>. QED
        BY <3>1, <3>3, <4>2, NullIsNoAddress
    <3>. QED
      BY <3>1, <3>5, <3>6, <3>7
  <2>. QED
    BY <2>1, <2>2
<1>2. HeapOK(SWrapper, r, hd) /\ r[o].result # nullptr /\ Kept(r)
  <2>1. CASE h[o].result # nullptr
    BY <2>1 DEF OTServerResponseWrapper_mutable_result
  <2>2. CASE h[o].result = nullptr
    <3>. DEFINE p == Unused(h)
                m == [h[o] EXCEPT !.result = p]
    <3>1. p \in Addr /\ h[p] = Free /\ p \notin Roots /\ p # nullptr
      BY <2>2, EnoughMemory, UnusedIsFree, WrapperClasses, NullIsNoAddress
    <3>2. r = [[h EXCEPT ![p] = OTServerResponse_New] EXCEPT ![o].result = p]
      BY <2>2 DEF OTServerResponseWrapper_mutable_result
    <3>. HIDE DEF p, r
    <3>3. m \in ServerWrapperType /\ m.result = p /\ m.error = h[o].error
      BY <3>1, ServerRoot, ServerWrapperMembers, NullIsNoAddress
    <3>4. OTServerResponse_New \in SubType("result")
      BY NewSubs
    <3>5. r = [h EXCEPT ![p] = OTServerResponse_New, ![o] = m]
      BY <3>1, <3>2, ServerRoot
    <3>. HIDE DEF m
    <3>6. HeapOK(SWrapper, [h EXCEPT ![p] = OTServerResponse_New, ![o] = m], hd)
      BY <2>2, <3>1, <3>3, <3>4, WrapperClasses, SubAllocated
    <3>7. r[o].result = p /\ Kept(r)
      <4>1. DOMAIN h = Roots \cup Addr
        BY ServerRoot
      <4>2. r[o] = m /\ \A a \in (Roots \cup Addr) \ {o, p} : r[a] = h[a]
        BY <3>1, <3>5, <4>1
      <4>. QED
        BY <3>1, <3>3, <4>2, NullIsNoAddress
    <3>. QED
      BY <3>1, <3>5, <3>6, <3>7
  <2>. QED
    BY <2>1, <2>2
<1>. QED
  BY <1>1, <1>2

LEMMA ClientMutable ==
  ASSUME NEW h, NEW hd, HeapOK(CWrapper, h, hd), NEW o \in Roots
  PROVE  LET e == OTClientResponseWrapper_mutable_error(h, o)
         IN /\ HeapOK(CWrapper, e, hd) /\ e[o].error # nullptr
            /\ \A p \in Roots \ {o} : e[p] = h[p]
            /\ \A a \in Addr : h[a] # Free => e[a] = h[a]
<1>. DEFINE e == OTClientResponseWrapper_mutable_error(h, o)
            Kept(g) == /\ \A p \in Roots \ {o} : g[p] = h[p]
                       /\ \A a \in Addr : h[a] # Free => g[a] = h[a]
<1>1. HeapOK(CWrapper, e, hd) /\ e[o].error # nullptr /\ Kept(e)
  <2>1. CASE h[o].error # nullptr
    BY <2>1 DEF OTClientResponseWrapper_mutable_error
  <2>2. CASE h[o].error = nullptr
    <3>. DEFINE p == Unused(h)
                m == [h[o] EXCEPT !.error = p]
    <3>1. p \in Addr /\ h[p] = Free /\ p \notin Roots /\ p # nullptr
      BY <2>2, EnoughMemory, UnusedIsFree, WrapperClasses, NullIsNoAddress
    <3>2. e = [[h EXCEPT ![p] = Error_New] EXCEPT ![o].error = p]
      BY <2>2 DEF OTClientResponseWrapper_mutable_error
    <3>. HIDE DEF p, e
    <3>3. m \in ClientWrapperType /\ m.error = p
      BY <3>1, ClientRoot, ClientWrapperMembers, NullIsNoAddress
    <3>4. Error_New \in SubType("error")
      BY NewSubs
    <3>5. e = [h EXCEPT ![p] = Error_New, ![o] = m]
      BY <3>1, <3>2, ClientRoot
    <3>. HIDE DEF m
    <3>6. HeapOK(CWrapper, [h EXCEPT ![p] = Error_New, ![o] = m], hd)
      BY <2>2, <3>1, <3>3, <3>4, WrapperClasses, SubAllocated
    <3>7. e[o].error = p /\ Kept(e)
      <4>1. DOMAIN h = Roots \cup Addr
        BY ClientRoot
      <4>2. e[o] = m /\ \A a \in (Roots \cup Addr) \ {o, p} : e[a] = h[a]
        BY <3>1, <3>5, <4>1
      <4>. QED
        BY <3>1, <3>3, <4>2, NullIsNoAddress
    <3>. QED
      BY <3>1, <3>5, <3>6, <3>7
  <2>. QED
    BY <2>1, <2>2
<1>. QED
  BY <1>1

LEMMA Released ==
  ASSUME NEW h, NEW o \in Roots
  PROVE  /\ HeapOK(SWrapper, h, nullptr) =>
              /\ HeapOK(SWrapper, OTServerResponseWrapper_release_error(h, o), h[o].error)
              /\ HeapOK(SWrapper, OTServerResponseWrapper_release_result(h, o), h[o].result)
         /\ HeapOK(CWrapper, h, nullptr) =>
              HeapOK(CWrapper, OTClientResponseWrapper_release_error(h, o), h[o].error)
<1>1. ASSUME HeapOK(SWrapper, h, nullptr)
      PROVE  HeapOK(SWrapper, OTServerResponseWrapper_release_error(h, o), h[o].error)
  <2>. DEFINE m == [h[o] EXCEPT !.error = nullptr]
  <2>1. m \in ServerWrapperType /\ m.error = nullptr /\ m.result = h[o].result
    BY <1>1, ServerRoot, ServerWrapperMembers, NullIsNoAddress
  <2>2. OTServerResponseWrapper_release_error(h, o) = [h EXCEPT ![o] = m]
    BY <1>1, ServerRoot, MemberSet DEF OTServerResponseWrapper_release_error
  <2>. HIDE DEF m
  <2>3. HeapOK(SWrapper, [h EXCEPT ![o] = m], h[o]["error"])
    BY <1>1, <2>1, WrapperClasses, SubReleased
  <2>. QED
    BY <2>2, <2>3
<1>2. ASSUME HeapOK(SWrapper, h, nullptr)
      PROVE  HeapOK(SWrapper, OTServerResponseWrapper_release_result(h, o), h[o].result)
  <2>. DEFINE m == [h[o] EXCEPT !.result = nullptr]
  <2>1. m \in ServerWrapperType /\ m.result = nullptr /\ m.error = h[o].error
    BY <1>2, ServerRoot, ServerWrapperMembers, NullIsNoAddress
  <2>2. OTServerResponseWrapper_release_result(h, o) = [h EXCEPT ![o] = m]
    BY <1>2, ServerRoot, MemberSet DEF OTServerResponseWrapper_release_result
  <2>. HIDE DEF m
  <2>3. HeapOK(SWrapper, [h EXCEPT ![o] = m], h[o]["result"])
    BY <1>2, <2>1, WrapperClasses, SubReleased
  <2>. QED
    BY <2>2, <2>3
<1>3. ASSUME HeapOK(CWrapper, h, nullptr)
      PROVE  HeapOK(CWrapper, OTClientResponseWrapper_release_error(h, o), h[o].error)
  <2>. DEFINE m == [h[o] EXCEPT !.error = nullptr]
  <2>1. m \in ClientWrapperType /\ m.error = nullptr
    BY <1>3, ClientRoot, ClientWrapperMembers, NullIsNoAddress
  <2>2. OTClientResponseWrapper_release_error(h, o) = [h EXCEPT ![o] = m]
    BY <1>3, ClientRoot, MemberSet DEF OTClientResponseWrapper_release_error
  <2>. HIDE DEF m
  <2>3. HeapOK(CWrapper, [h EXCEPT ![o] = m], h[o]["error"])
    BY <1>3, <2>1, WrapperClasses, SubReleased
  <2>. QED
    BY <2>2, <2>3
<1>. QED
  BY <1>1, <1>2, <1>3

\* set_allocated_: clear_, and the pointer takes what the hand has.
LEMMA ServerAttached ==
  ASSUME NEW h, NEW hd, HeapOK(SWrapper, h, hd), hd # nullptr, NEW o \in Roots
  PROVE  /\ h[hd].class = "Error" =>
              HeapOK(SWrapper, OTServerResponseWrapper_set_allocated_error(h, o, hd), nullptr)
         /\ h[hd].class = "OTServerResponse" =>
              HeapOK(SWrapper, OTServerResponseWrapper_set_allocated_result(h, o, hd), nullptr)
<1>1. /\ hd \in Addr /\ hd \in Nat
      /\ h[hd] \in ErrorType(F2) \cup ServerResponseType(F2, F1)
      /\ \A p \in Roots, x \in Held(SWrapper) : h[p][x] # hd
  BY WrapperClasses, HeldClasses, NullIsNoAddress DEF HeapOK, HandOK
<1>2. /\ h \in Heaps(SWrapper) /\ h[o] \in ServerWrapperType
      /\ h[o].error \in Addr \cup {nullptr} /\ h[o].result \in Addr \cup {nullptr}
      /\ h[o].error # hd /\ h[o].result # hd
  BY <1>1, ServerRoot, WrapperClasses
<1>3. ASSUME h[hd].class = "Error"
      PROVE  HeapOK(SWrapper, OTServerResponseWrapper_set_allocated_error(h, o, hd), nullptr)
  <2>. DEFINE e == Delete(h, h[o].error)
              m == [h[o] EXCEPT !.error = nullptr]
              g == [e EXCEPT ![o] = m]
              n == [m EXCEPT !.error = hd]
  <2>1. e \in Heaps(SWrapper) /\ e[o] = h[o] /\ e[hd] = h[hd]
    BY <1>1, <1>2, Deleted
  <2>2. m \in ServerWrapperType /\ m.error = nullptr /\ m.result = h[o].result
    BY <1>2, ServerWrapperMembers, NullIsNoAddress
  <2>3. HeapOK(SWrapper, g, hd)
    BY <2>2, ServerDeletes
  <2>4. OTServerResponseWrapper_set_allocated_error(h, o, hd) = [e EXCEPT ![o].error = hd]
    BY DEF OTServerResponseWrapper_set_allocated_error
  <2>5. [e EXCEPT ![o].error = hd] = [e EXCEPT ![o] = [h[o] EXCEPT !.error = hd]]
    BY <2>1, MemberSet
  <2>6. n = [h[o] EXCEPT !.error = hd]
    BY <1>2 DEF ServerWrapperType
  <2>. HIDE DEF e, m
  <2>7. n \in ServerWrapperType /\ n.error = hd /\ n.result = h[o].result
    BY <1>1, <2>2, ServerWrapperMembers
  <2>8. g[o] = m /\ g[hd] = h[hd] /\ [g EXCEPT ![o] = n] = [e EXCEPT ![o] = n]
    BY <1>1, <2>1, NullIsNoAddress DEF Heaps
  <2>. HIDE DEF g, n
  <2>9. h[hd] \in SubType("error")
    BY <1>1, <1>3, HeldClasses
  <2>10. HeapOK(SWrapper, [g EXCEPT ![o] = n], nullptr)
    BY <2>2, <2>3, <2>7, <2>8, <2>9, WrapperClasses, SubAttached
  <2>. QED
    BY <2>4, <2>5, <2>6, <2>8, <2>10
<1>4. ASSUME h[hd].class = "OTServerResponse"
      PROVE  HeapOK(SWrapper, OTServerResponseWrapper_set_allocated_result(h, o, hd), nullptr)
  <2>. DEFINE e == Delete(h, h[o].result)
              m == [h[o] EXCEPT !.result = nullptr]
              g == [e EXCEPT ![o] = m]
              n == [m EXCEPT !.result = hd]
  <2>1. e \in Heaps(SWrapper) /\ e[o] = h[o] /\ e[hd] = h[hd]
    BY <1>1, <1>2, Deleted
  <2>2. m \in ServerWrapperType /\ m.result = nullptr /\ m.error = h[o].error
    BY <1>2, ServerWrapperMembers, NullIsNoAddress
  <2>3. HeapOK(SWrapper, g, hd)
    BY <2>2, ServerDeletes
  <2>4. OTServerResponseWrapper_set_allocated_result(h, o, hd) = [e EXCEPT ![o].result = hd]
    BY DEF OTServerResponseWrapper_set_allocated_result
  <2>5. [e EXCEPT ![o].result = hd] = [e EXCEPT ![o] = [h[o] EXCEPT !.result = hd]]
    BY <2>1, MemberSet
  <2>6. n = [h[o] EXCEPT !.result = hd]
    BY <1>2 DEF ServerWrapperType
  <2>. HIDE DEF e, m
  <2>7. n \in ServerWrapperType /\ n.result = hd /\ n.error = h[o].error
    BY <1>1, <2>2, ServerWrapperMembers
  <2>8. g[o] = m /\ g[hd] = h[hd] /\ [g EXCEPT ![o] = n] = [e EXCEPT ![o] = n]
    BY <1>1, <2>1, NullIsNoAddress DEF Heaps
  <2>. HIDE DEF g, n
  <2>9. h[hd] \in SubType("result")
    BY <1>1, <1>4, HeldClasses
  <2>10. HeapOK(SWrapper, [g EXCEPT ![o] = n], nullptr)
    BY <2>2, <2>3, <2>7, <2>8, <2>9, WrapperClasses, SubAttached
  <2>. QED
    BY <2>4, <2>5, <2>6, <2>8, <2>10
<1>. QED
  BY <1>3, <1>4

LEMMA ClientAttached ==
  ASSUME NEW h, NEW hd, HeapOK(CWrapper, h, hd), hd # nullptr, NEW o \in Roots
  PROVE  HeapOK(CWrapper, OTClientResponseWrapper_set_allocated_error(h, o, hd), nullptr)
<1>1. /\ hd \in Addr /\ hd \in Nat
      /\ h[hd] \in SubType("error")
      /\ \A p \in Roots, x \in Held(CWrapper) : h[p][x] # hd
  BY WrapperClasses, HeldClasses, NullIsNoAddress DEF HeapOK, HandOK
<1>2. /\ h \in Heaps(CWrapper) /\ h[o] \in ClientWrapperType
      /\ h[o].error \in Addr \cup {nullptr}
      /\ h[o].error # hd
  BY <1>1, ClientRoot, WrapperClasses
<1>. DEFINE e == Delete(h, h[o].error)
            m == [h[o] EXCEPT !.error = nullptr]
            g == [e EXCEPT ![o] = m]
            n == [m EXCEPT !.error = hd]
<1>3. e \in Heaps(CWrapper) /\ e[o] = h[o] /\ e[hd] = h[hd]
  BY <1>1, <1>2, Deleted
<1>4. m \in ClientWrapperType /\ m.error = nullptr
  BY <1>2, ClientWrapperMembers, NullIsNoAddress
<1>5. HeapOK(CWrapper, g, hd)
  BY <1>4, ClientDeletes
<1>6. OTClientResponseWrapper_set_allocated_error(h, o, hd) = [e EXCEPT ![o].error = hd]
  BY DEF OTClientResponseWrapper_set_allocated_error
<1>7. [e EXCEPT ![o].error = hd] = [e EXCEPT ![o] = [h[o] EXCEPT !.error = hd]]
  BY <1>3, MemberSet
<1>8. n = [h[o] EXCEPT !.error = hd]
  BY <1>2 DEF ClientWrapperType
<1>. HIDE DEF e, m
<1>9. n \in ClientWrapperType /\ n.error = hd
  BY <1>1, <1>4, ClientWrapperMembers
<1>10. g[o] = m /\ g[hd] = h[hd] /\ [g EXCEPT ![o] = n] = [e EXCEPT ![o] = n]
  BY <1>1, <1>3, NullIsNoAddress DEF Heaps
<1>. HIDE DEF g, n
<1>11. HeapOK(CWrapper, [g EXCEPT ![o] = n], nullptr)
  BY <1>1, <1>4, <1>5, <1>9, <1>10, WrapperClasses, SubAttached
<1>. QED
  BY <1>6, <1>7, <1>8, <1>10, <1>11

LEMMA UnknownAppended ==
  ASSUME NEW h, NEW hd, NEW o \in Roots
  PROVE  /\ HeapOK(SWrapper, h, hd) => \A w \in Seq(F3) :
              HeapOK(SWrapper, [h EXCEPT ![o].unknown = @ \o w], hd)
         /\ HeapOK(CWrapper, h, hd) => \A w \in Seq(Written(CWrapper)) :
              HeapOK(CWrapper, [h EXCEPT ![o].unknown = @ \o w], hd)
<1>1. ASSUME HeapOK(SWrapper, h, hd), NEW w \in Seq(F3)
      PROVE  HeapOK(SWrapper, [h EXCEPT ![o].unknown = @ \o w], hd)
  <2>. DEFINE v == h[o].unknown \o w
              m == [h[o] EXCEPT !.unknown = v]
  <2>1. h[o] \in ServerWrapperType /\ h \in Heaps(SWrapper)
    BY <1>1, ServerRoot
  <2>2. v \in Seq(F3)
    BY <1>1, <2>1, ServerWrapperMembers, ConcatStays
  <2>3. [h EXCEPT ![o].unknown = @ \o w] = [h EXCEPT ![o] = m]
    BY <2>1, MemberSet
  <2>. HIDE DEF v
  <2>4. m \in ServerWrapperType /\ m.error = h[o].error /\ m.result = h[o].result
    BY <2>1, <2>2, ServerWrapperMembers
  <2>. HIDE DEF m
  <2>5. HeapOK(SWrapper, [h EXCEPT ![o] = m], hd)
    BY <1>1, <2>4, RootChanged, WrapperClasses
  <2>. QED
    BY <2>3, <2>5
<1>2. ASSUME HeapOK(CWrapper, h, hd), NEW w \in Seq(Written(CWrapper))
      PROVE  HeapOK(CWrapper, [h EXCEPT ![o].unknown = @ \o w], hd)
  <2>. DEFINE v == h[o].unknown \o w
              m == [h[o] EXCEPT !.unknown = v]
  <2>1. h[o] \in ClientWrapperType /\ h \in Heaps(CWrapper)
    BY <1>2, ClientRoot
  <2>2. v \in Seq(Written(CWrapper))
    BY <1>2, <2>1, ClientWrapperMembers, ConcatStays DEF CWrapper
  <2>3. [h EXCEPT ![o].unknown = @ \o w] = [h EXCEPT ![o] = m]
    BY <2>1, MemberSet
  <2>. HIDE DEF v
  <2>4. m \in ClientWrapperType /\ m.error = h[o].error
    BY <2>1, <2>2, ClientWrapperMembers DEF CWrapper
  <2>. HIDE DEF m
  <2>5. HeapOK(CWrapper, [h EXCEPT ![o] = m], hd)
    BY <1>2, <2>4, RootChanged, WrapperClasses
  <2>. QED
    BY <2>3, <2>5
<1>. QED
  BY <1>1, <1>2

\* A new submessage with a value of its own, where Construct puts it.
WithError(h, o, v)  == [h EXCEPT ![Unused(h)] = v, ![o].error = Unused(h)]
WithResult(h, o, v) == [h EXCEPT ![Unused(h)] = v, ![o].result = Unused(h)]

LEMMA ServerNewError ==
  ASSUME NEW h, NEW hd, HeapOK(SWrapper, h, hd), NEW o \in Roots, h[o].error = nullptr,
         NEW v \in ErrorType(F2)
  PROVE  HeapOK(SWrapper, WithError(h, o, v), hd) /\ WithError(h, o, v)[o].result = h[o].result
<1>. DEFINE p == Unused(h)
            g == WithError(h, o, v)
            m == [h[o] EXCEPT !.error = p]
<1>1. h[o] \in ServerWrapperType /\ DOMAIN h = Roots \cup Addr
  BY ServerRoot
<1>2. p \in Addr /\ h[p] = Free /\ p \notin Roots /\ p # nullptr /\ p \in Nat
  BY EnoughMemory, UnusedIsFree, WrapperClasses, NullIsNoAddress
<1>3. g = [h EXCEPT ![p] = v, ![o].error = p]
  BY DEF WithError
<1>. HIDE DEF p, g
<1>4. m \in ServerWrapperType /\ m.error = p /\ m.result = h[o].result
  BY <1>1, <1>2, ServerWrapperMembers
<1>5. g = [h EXCEPT ![p] = v, ![o] = m] /\ g[o] = m
  BY <1>1, <1>2, <1>3
<1>6. v \in SubType("error")
  BY HeldClasses
<1>. HIDE DEF m
<1>7. HeapOK(SWrapper, [h EXCEPT ![p] = v, ![o] = m], hd)
  BY <1>2, <1>4, <1>6, WrapperClasses, SubAllocated
<1>. QED
  BY <1>4, <1>5, <1>7 DEF g

LEMMA ServerNewResult ==
  ASSUME NEW h, NEW hd, HeapOK(SWrapper, h, hd), NEW o \in Roots, h[o].result = nullptr,
         NEW v \in ServerResponseType(F2, F1)
  PROVE  HeapOK(SWrapper, WithResult(h, o, v), hd) /\ WithResult(h, o, v)[o].error = h[o].error
<1>. DEFINE p == Unused(h)
            g == WithResult(h, o, v)
            m == [h[o] EXCEPT !.result = p]
<1>1. h[o] \in ServerWrapperType /\ DOMAIN h = Roots \cup Addr
  BY ServerRoot
<1>2. p \in Addr /\ h[p] = Free /\ p \notin Roots /\ p # nullptr /\ p \in Nat
  BY EnoughMemory, UnusedIsFree, WrapperClasses, NullIsNoAddress
<1>3. g = [h EXCEPT ![p] = v, ![o].result = p]
  BY DEF WithResult
<1>. HIDE DEF p, g
<1>4. m \in ServerWrapperType /\ m.result = p /\ m.error = h[o].error
  BY <1>1, <1>2, ServerWrapperMembers
<1>5. g = [h EXCEPT ![p] = v, ![o] = m] /\ g[o] = m
  BY <1>1, <1>2, <1>3
<1>6. v \in SubType("result")
  BY HeldClasses
<1>. HIDE DEF m
<1>7. HeapOK(SWrapper, [h EXCEPT ![p] = v, ![o] = m], hd)
  BY <1>2, <1>4, <1>6, WrapperClasses, SubAllocated
<1>. QED
  BY <1>4, <1>5, <1>7 DEF g

LEMMA ClientNewSub ==
  ASSUME NEW h, NEW hd, HeapOK(CWrapper, h, hd), NEW o \in Roots, h[o].error = nullptr,
         NEW v \in ErrorType(F2)
  PROVE  HeapOK(CWrapper, WithError(h, o, v), hd)
<1>. DEFINE p == Unused(h)
            m == [h[o] EXCEPT !.error = p]
            g == [h EXCEPT ![p] = v, ![o].error = p]
<1>1. h[o] \in ClientWrapperType /\ DOMAIN h = Roots \cup Addr
  BY ClientRoot
<1>2. p \in Addr /\ h[p] = Free /\ p \notin Roots /\ p # nullptr /\ p \in Nat
  BY EnoughMemory, UnusedIsFree, WrapperClasses, NullIsNoAddress
<1>. HIDE DEF p
<1>3. m \in ClientWrapperType /\ m.error = p
  BY <1>1, <1>2, ClientWrapperMembers
<1>4. g = [h EXCEPT ![p] = v, ![o] = m]
  BY <1>1, <1>2
<1>. HIDE DEF m, g
<1>5. HeapOK(CWrapper, [h EXCEPT ![p] = v, ![o] = m], hd)
  BY <1>2, <1>3, HeldClasses, WrapperClasses, SubAllocated
<1>6. HeapOK(CWrapper, g, hd)
  BY <1>4, <1>5
<1>. QED
  BY <1>6 DEF g, p, WithError

\* The copy constructors, on a message that has just been made.
LEMMA ServerConstructed ==
  ASSUME NEW h, NEW hd, HeapOK(SWrapper, h, hd), NEW o \in Roots, NEW from \in Roots,
         h[o].error = nullptr, h[o].result = nullptr
  PROVE  HeapOK(SWrapper, OTServerResponseWrapper_Construct(h, o, from), hd)
<1>. DEFINE m == [OTServerResponseWrapper_New EXCEPT !.unknown = h[from].unknown]
            fresh == [h EXCEPT ![o] = m]
            error == Error_Construct(h[h[from].error])
            result == OTServerResponse_Construct(h[h[from].result])
            copied == IF h[from].error = nullptr THEN fresh
                      ELSE [fresh EXCEPT ![Unused(fresh)] = error, ![o].error = Unused(fresh)]
            g == IF h[from].result = nullptr THEN copied
                 ELSE [copied EXCEPT ![Unused(copied)] = result, ![o].result = Unused(copied)]
<1>1. OTServerResponseWrapper_Construct(h, o, from) = g
  BY Zenon DEF OTServerResponseWrapper_Construct
<1>2. m \in ServerWrapperType /\ m.error = nullptr /\ m.result = nullptr
  <2>1. h[from].unknown \in Seq(F3)
    BY ServerRoot, ServerWrapperMembers
  <2>. QED
    BY <2>1, NullIsNoAddress DEF OTServerResponseWrapper_New, ServerWrapperType
<1>3. h[from].error # nullptr => error \in ErrorType(F2)
  <2>. SUFFICES ASSUME h[from].error # nullptr PROVE error \in ErrorType(F2)
    OBVIOUS
  <2>1. h[h[from].error] \in ErrorType(F2)
    BY ServerRoot
  <2>. QED
    BY <2>1, ErrorKept
<1>4. h[from].result # nullptr => result \in ServerResponseType(F2, F1)
  <2>. SUFFICES ASSUME h[from].result # nullptr PROVE result \in ServerResponseType(F2, F1)
    OBVIOUS
  <2>1. h[h[from].result] \in ServerResponseType(F2, F1)
    BY ServerRoot
  <2>. QED
    BY <2>1, ServerResponseKept
<1>. HIDE DEF m, error, result
<1>5. HeapOK(SWrapper, fresh, hd) /\ fresh[o] = m
  <2>1. \A x \in Held(SWrapper) : m[x] = h[o][x]
    BY <1>2, WrapperClasses
  <2>2. HeapOK(SWrapper, [h EXCEPT ![o] = m], hd)
    BY <1>2, <2>1, RootChanged, WrapperClasses
  <2>3. fresh[o] = m
    BY ServerRoot
  <2>. QED
    BY <2>2, <2>3
<1>. HIDE DEF fresh
<1>6. HeapOK(SWrapper, copied, hd) /\ copied[o].result = nullptr
  <2>1. CASE h[from].error = nullptr
    BY <1>2, <1>5, <2>1
  <2>2. CASE h[from].error # nullptr
    <3>1. fresh[o].error = nullptr /\ error \in ErrorType(F2) /\ fresh[o].result = nullptr
      BY <1>2, <1>3, <1>5, <2>2
    <3>2. copied = WithError(fresh, o, error)
      BY <2>2 DEF WithError
    <3>. HIDE DEF copied, g
    <3>3. HeapOK(SWrapper, copied, hd) /\ copied[o].result = fresh[o].result
      BY <1>5, <3>1, <3>2, ServerNewError
    <3>. QED
      BY <3>1, <3>3
  <2>. QED
    BY <2>1, <2>2
<1>. HIDE DEF copied
<1>7. HeapOK(SWrapper, g, hd)
  <2>1. CASE h[from].result = nullptr
    BY <1>6, <2>1
  <2>2. CASE h[from].result # nullptr
    <3>1. g = WithResult(copied, o, result)
      BY <2>2 DEF WithResult
    <3>. HIDE DEF g
    <3>. QED
      BY <1>4, <1>6, <2>2, <3>1, ServerNewResult
  <2>. QED
    BY <2>1, <2>2
<1>. QED
  BY <1>1, <1>7

LEMMA ClientConstructed ==
  ASSUME NEW h, NEW hd, HeapOK(CWrapper, h, hd), NEW o \in Roots, NEW from \in Roots,
         h[o].error = nullptr
  PROVE  HeapOK(CWrapper, OTClientResponseWrapper_Construct(h, o, from), hd)
<1>. DEFINE m == [OTClientResponseWrapper_New EXCEPT !.unknown = h[from].unknown,
                                                     !.result = h[from].result]
            fresh == [h EXCEPT ![o] = m]
            error == Error_Construct(h[h[from].error])
            g == IF h[from].error = nullptr THEN fresh
                 ELSE [fresh EXCEPT ![Unused(fresh)] = error, ![o].error = Unused(fresh)]
<1>1. OTClientResponseWrapper_Construct(h, o, from) = g
  BY Zenon DEF OTClientResponseWrapper_Construct
<1>2. m \in ClientWrapperType /\ m.error = nullptr
  <2>1. /\ h[from].unknown \in Seq(Written("OTClientResponseWrapper"))
        /\ h[from].result \in Seq(ClientResponseType(MapFields(26, F2)))
    BY ClientRoot, ClientWrapperMembers
  <2>. QED
    BY <2>1, NullIsNoAddress DEF OTClientResponseWrapper_New, ClientWrapperType
<1>3. h[from].error # nullptr => error \in ErrorType(F2)
  <2>. SUFFICES ASSUME h[from].error # nullptr PROVE error \in ErrorType(F2)
    OBVIOUS
  <2>1. h[h[from].error] \in ErrorType(F2)
    BY ClientRoot
  <2>. QED
    BY <2>1, ErrorKept
<1>. HIDE DEF m, error
<1>5. HeapOK(CWrapper, fresh, hd) /\ fresh[o] = m
  <2>1. \A x \in Held(CWrapper) : m[x] = h[o][x]
    BY <1>2, WrapperClasses
  <2>2. HeapOK(CWrapper, [h EXCEPT ![o] = m], hd)
    BY <1>2, <2>1, RootChanged, WrapperClasses
  <2>3. fresh[o] = m
    BY ClientRoot
  <2>. QED
    BY <2>2, <2>3
<1>. HIDE DEF fresh
<1>6. HeapOK(CWrapper, g, hd)
  <2>1. CASE h[from].error = nullptr
    BY <1>5, <2>1
  <2>2. CASE h[from].error # nullptr
    <3>1. g = WithError(fresh, o, error)
      BY <2>2 DEF WithError
    <3>2. fresh[o].error = nullptr /\ error \in ErrorType(F2)
      BY <1>2, <1>3, <1>5, <2>2
    <3>. HIDE DEF g
    <3>. QED
      BY <1>5, <3>1, <3>2, ClientNewSub
  <2>. QED
    BY <2>1, <2>2
<1>. QED
  BY <1>1, <1>6

\* The submessage of a pointer, merged.
SetError(h, o, v)  == [h EXCEPT ![h[o].error] = v]
SetResult(h, o, v) == [h EXCEPT ![h[o].result] = v]

LEMMA SubsSet ==
  ASSUME NEW h, NEW hd, NEW o \in Roots
  PROVE  /\ HeapOK(SWrapper, h, hd) /\ h[o].error # nullptr =>
              \A v \in ErrorType(F2) : /\ HeapOK(SWrapper, SetError(h, o, v), hd)
                                       /\ \A p \in Roots : SetError(h, o, v)[p] = h[p]
         /\ HeapOK(CWrapper, h, hd) /\ h[o].error # nullptr =>
              \A v \in ErrorType(F2) : /\ HeapOK(CWrapper, SetError(h, o, v), hd)
                                       /\ \A p \in Roots : SetError(h, o, v)[p] = h[p]
         /\ HeapOK(SWrapper, h, hd) /\ h[o].result # nullptr =>
              \A v \in ServerResponseType(F2, F1) : /\ HeapOK(SWrapper, SetResult(h, o, v), hd)
                                                    /\ \A p \in Roots : SetResult(h, o, v)[p] = h[p]
<1>1. ASSUME HeapOK(SWrapper, h, hd), h[o].error # nullptr, NEW v \in ErrorType(F2)
      PROVE  /\ HeapOK(SWrapper, SetError(h, o, v), hd)
             /\ \A p \in Roots : SetError(h, o, v)[p] = h[p]
  <2>1. h[o].error \in Addr /\ DOMAIN h = Roots \cup Addr
    BY <1>1, ServerRoot
  <2>2. v \in SubType("error") /\ "error" \in Held(SWrapper)
    BY HeldClasses, WrapperClasses
  <2>3. HeapOK(SWrapper, [h EXCEPT ![h[o]["error"]] = v], hd)
    BY <1>1, <2>2, SubChanged
  <2>. QED
    BY <2>1, <2>3, NullIsNoAddress DEF SetError
<1>2. ASSUME HeapOK(CWrapper, h, hd), h[o].error # nullptr, NEW v \in ErrorType(F2)
      PROVE  /\ HeapOK(CWrapper, SetError(h, o, v), hd)
             /\ \A p \in Roots : SetError(h, o, v)[p] = h[p]
  <2>1. h[o].error \in Addr /\ DOMAIN h = Roots \cup Addr
    BY <1>2, ClientRoot
  <2>2. v \in SubType("error") /\ "error" \in Held(CWrapper)
    BY HeldClasses, WrapperClasses
  <2>3. HeapOK(CWrapper, [h EXCEPT ![h[o]["error"]] = v], hd)
    BY <1>2, <2>2, SubChanged
  <2>. QED
    BY <2>1, <2>3, NullIsNoAddress DEF SetError
<1>3. ASSUME HeapOK(SWrapper, h, hd), h[o].result # nullptr, NEW v \in ServerResponseType(F2, F1)
      PROVE  /\ HeapOK(SWrapper, SetResult(h, o, v), hd)
             /\ \A p \in Roots : SetResult(h, o, v)[p] = h[p]
  <2>1. h[o].result \in Addr /\ DOMAIN h = Roots \cup Addr
    BY <1>3, ServerRoot
  <2>2. v \in SubType("result") /\ "result" \in Held(SWrapper)
    BY HeldClasses, WrapperClasses
  <2>3. HeapOK(SWrapper, [h EXCEPT ![h[o]["result"]] = v], hd)
    BY <1>3, <2>2, SubChanged
  <2>. QED
    BY <2>1, <2>3, NullIsNoAddress DEF SetResult
<1>. QED
  BY <1>1, <1>2, <1>3

LEMMA ServerMerged ==
  ASSUME NEW h, NEW hd, HeapOK(SWrapper, h, hd), NEW o \in Roots, NEW from \in Roots
  PROVE  HeapOK(SWrapper, OTServerResponseWrapper_MergeFrom(h, o, from), hd)
<1>. DEFINE withError == OTServerResponseWrapper_mutable_error(h, o)
            e == Error_MergeFrom(withError[withError[o].error], h[h[from].error])
            error == IF h[from].error = nullptr THEN h ELSE SetError(withError, o, e)
            withResult == OTServerResponseWrapper_mutable_result(error, o)
            r == OTServerResponse_MergeFrom(withResult[withResult[o].result], h[h[from].result])
            result == IF h[from].result = nullptr THEN error ELSE SetResult(withResult, o, r)
<1>1. OTServerResponseWrapper_MergeFrom(h, o, from) = [result EXCEPT ![o].unknown = @ \o h[from].unknown]
  BY DEF OTServerResponseWrapper_MergeFrom, SetError, SetResult
<1>2. HeapOK(SWrapper, withError, hd) /\ withError[o].error # nullptr
  BY ServerMutable
<1>. HIDE DEF withError
<1>3. HeapOK(SWrapper, error, hd)
  <2>1. CASE h[from].error = nullptr
    BY <2>1
  <2>2. CASE h[from].error # nullptr
    <3>1. withError[withError[o].error] \in ErrorType(F2) /\ h[h[from].error] \in ErrorType(F2)
      BY <1>2, <2>2, ServerRoot
    <3>2. e \in ErrorType(F2)
      BY <3>1, ErrorKept
    <3>. HIDE DEF e
    <3>. QED
      BY <1>2, <2>2, <3>2, SubsSet
  <2>. QED
    BY <2>1, <2>2
<1>. HIDE DEF error
<1>4. HeapOK(SWrapper, withResult, hd) /\ withResult[o].result # nullptr
  BY <1>3, ServerMutable
<1>. HIDE DEF withResult
<1>5. HeapOK(SWrapper, result, hd)
  <2>1. CASE h[from].result = nullptr
    BY <1>3, <2>1
  <2>2. CASE h[from].result # nullptr
    <3>1. /\ withResult[withResult[o].result] \in ServerResponseType(F2, F1)
          /\ h[h[from].result] \in ServerResponseType(F2, F1)
      BY <1>4, <2>2, ServerRoot
    <3>2. r \in ServerResponseType(F2, F1)
      BY <3>1, ServerResponseKept
    <3>. HIDE DEF r
    <3>. QED
      BY <1>4, <2>2, <3>2, SubsSet
  <2>. QED
    BY <2>1, <2>2
<1>. HIDE DEF result
<1>6. h[from].unknown \in Seq(F3)
  BY ServerRoot, ServerWrapperMembers
<1>7. HeapOK(SWrapper, [result EXCEPT ![o].unknown = @ \o h[from].unknown], hd)
  BY <1>5, <1>6, UnknownAppended
<1>. QED
  BY <1>1, <1>7

LEMMA ClientMerged ==
  ASSUME NEW h, NEW hd, HeapOK(CWrapper, h, hd), NEW o \in Roots, NEW from \in Roots
  PROVE  HeapOK(CWrapper, OTClientResponseWrapper_MergeFrom(h, o, from), hd)
<1>. DEFINE withError == OTClientResponseWrapper_mutable_error(h, o)
            e == Error_MergeFrom(withError[withError[o].error], h[h[from].error])
            error == IF h[from].error = nullptr THEN h ELSE SetError(withError, o, e)
            m == [error[o] EXCEPT !.result = @ \o h[from].result]
            results == [error EXCEPT ![o] = m]
<1>1. OTClientResponseWrapper_MergeFrom(h, o, from)
        = [error EXCEPT ![o].result = @ \o h[from].result, ![o].unknown = @ \o h[from].unknown]
  BY DEF OTClientResponseWrapper_MergeFrom, SetError
<1>2. HeapOK(CWrapper, withError, hd) /\ withError[o].error # nullptr
  BY ClientMutable
<1>. HIDE DEF withError
<1>3. HeapOK(CWrapper, error, hd)
  <2>1. CASE h[from].error = nullptr
    BY <2>1
  <2>2. CASE h[from].error # nullptr
    <3>1. withError[withError[o].error] \in ErrorType(F2) /\ h[h[from].error] \in ErrorType(F2)
      BY <1>2, <2>2, ClientRoot
    <3>2. e \in ErrorType(F2)
      BY <3>1, ErrorKept
    <3>. HIDE DEF e
    <3>. QED
      BY <1>2, <2>2, <3>2, SubsSet
  <2>. QED
    BY <2>1, <2>2
<1>. HIDE DEF error
<1>4. /\ error[o] \in ClientWrapperType /\ DOMAIN error = Roots \cup Addr
      /\ h[from].unknown \in Seq(Written(CWrapper))
      /\ h[from].result \in Seq(ClientResponseType(MapFields(26, F2)))
  BY <1>3, ClientRoot, ClientWrapperMembers DEF CWrapper
<1>5. m \in ClientWrapperType /\ m.error = error[o].error
  <2>1. error[o].result \o h[from].result \in Seq(ClientResponseType(MapFields(26, F2)))
    BY <1>4, ClientWrapperMembers, ConcatStays
  <2>. QED
    BY <1>4, <2>1, ClientWrapperMembers
<1>6. [error EXCEPT ![o].result = @ \o h[from].result, ![o].unknown = @ \o h[from].unknown]
        = [results EXCEPT ![o].unknown = @ \o h[from].unknown]
  BY <1>4
<1>. HIDE DEF m
<1>7. HeapOK(CWrapper, results, hd)
  BY <1>3, <1>5, RootChanged, WrapperClasses
<1>. HIDE DEF results
<1>8. HeapOK(CWrapper, [results EXCEPT ![o].unknown = @ \o h[from].unknown], hd)
  BY <1>4, <1>7, UnknownAppended
<1>. QED
  BY <1>1, <1>6, <1>8

LEMMA WrappersCopied ==
  ASSUME NEW h, NEW hd, NEW o \in Roots, NEW from \in Roots
  PROVE  /\ HeapOK(SWrapper, h, hd) => HeapOK(SWrapper, OTServerResponseWrapper_CopyFrom(h, o, from), hd)
         /\ HeapOK(CWrapper, h, hd) => HeapOK(CWrapper, OTClientResponseWrapper_CopyFrom(h, o, from), hd)
<1>1. ASSUME HeapOK(SWrapper, h, hd)
      PROVE  HeapOK(SWrapper, OTServerResponseWrapper_CopyFrom(h, o, from), hd)
  BY <1>1, ServerCleared, ServerMerged DEF OTServerResponseWrapper_CopyFrom
<1>2. ASSUME HeapOK(CWrapper, h, hd)
      PROVE  HeapOK(CWrapper, OTClientResponseWrapper_CopyFrom(h, o, from), hd)
  BY <1>2, ClientCleared, ClientMerged DEF OTClientResponseWrapper_CopyFrom
<1>. QED
  BY <1>1, <1>2

LEMMA WrappersSwapped ==
  /\ \A m, n \in ServerWrapperType :
       /\ OTServerResponseWrapper_Swap(m, n) \in ServerWrapperType
       /\ OTServerResponseWrapper_Swap(m, n).error = n.error
       /\ OTServerResponseWrapper_Swap(m, n).result = n.result
  /\ \A m, n \in ClientWrapperType :
       /\ OTClientResponseWrapper_Swap(m, n) \in ClientWrapperType
       /\ OTClientResponseWrapper_Swap(m, n).error = n.error
<1>1. ASSUME NEW m \in ServerWrapperType, NEW n \in ServerWrapperType
      PROVE  /\ OTServerResponseWrapper_Swap(m, n) \in ServerWrapperType
             /\ OTServerResponseWrapper_Swap(m, n).error = n.error
             /\ OTServerResponseWrapper_Swap(m, n).result = n.result
  BY DEF OTServerResponseWrapper_Swap, ServerWrapperType
<1>2. ASSUME NEW m \in ClientWrapperType, NEW n \in ClientWrapperType
      PROVE  /\ OTClientResponseWrapper_Swap(m, n) \in ClientWrapperType
             /\ OTClientResponseWrapper_Swap(m, n).error = n.error
  BY DEF OTClientResponseWrapper_Swap, ClientWrapperType
<1>. QED
  BY <1>1, <1>2

-----------------------------------------------------------------------------
\* A parse of a whole wire stays in the type.

LEMMA ResponseParsed ==
  ASSUME NEW H, NEW U, U \subseteq FieldsOver(H),
         NEW m \in ResponseType(U), NEW w \in Seq(U)
  PROVE  Parsed(m, w) \in Readings(ResponseType(U))
<1>1. ASSUME NEW x \in ResponseType(U), NEW f \in U
      PROVE  Field(x, f) \in Readings(ResponseType(U))
  <2>1. x.class = "Response"
    BY ResponseMembers
  <2>2. Field(x, f) = Response_Field(x, f)
    BY <2>1 DEF Field
  <2>. QED
    BY <2>2, ResponseReads
<1>. QED
  BY <1>1, ParseStays

LEMMA ErrorParsed ==
  ASSUME NEW H, NEW U, U \subseteq FieldsOver(H),
         NEW m \in ErrorType(U), NEW w \in Seq(U)
  PROVE  Parsed(m, w) \in Readings(ErrorType(U))
<1>1. ASSUME NEW x \in ErrorType(U), NEW f \in U
      PROVE  Field(x, f) \in Readings(ErrorType(U))
  <2>1. x.class = "Error"
    BY ErrorMembers
  <2>2. Field(x, f) = Error_Field(x, f)
    BY <2>1 DEF Field
  <2>. QED
    BY <2>2, ErrorReads
<1>. QED
  BY <1>1, ParseStays

LEMMA ServiceDataParsed ==
  ASSUME NEW H, NEW U, U \subseteq FieldsOver(H),
         NEW m \in ServiceDataType(U), NEW w \in Seq(U)
  PROVE  Parsed(m, w) \in Readings(ServiceDataType(U))
<1>1. ASSUME NEW x \in ServiceDataType(U), NEW f \in U
      PROVE  Field(x, f) \in Readings(ServiceDataType(U))
  <2>1. x.class = "OTServiceData"
    BY ServiceDataMembers
  <2>2. Field(x, f) = OTServiceData_Field(x, f)
    BY <2>1 DEF Field
  <2>. QED
    BY <2>2, ServiceDataReads
<1>. QED
  BY <1>1, ParseStays

LEMMA BytesParsed ==
  ASSUME NEW H, NEW U, U \subseteq FieldsOver(H),
         NEW m \in BytesType(U), NEW w \in Seq(U)
  PROVE  Parsed(m, w) \in Readings(BytesType(U))
<1>1. ASSUME NEW x \in BytesType(U), NEW f \in U
      PROVE  Field(x, f) \in Readings(BytesType(U))
  <2>1. x.class = "Bytes"
    BY BytesMembers
  <2>2. Field(x, f) = Bytes_Field(x, f)
    BY <2>1 DEF Field
  <2>. QED
    BY <2>2, BytesReads
<1>. QED
  BY <1>1, ParseStays

LEMMA FieldsParsed ==
  ASSUME NEW H, NEW U, U \subseteq MapFields(10, FieldsOver(FieldsOver(H))),
         NEW m \in FieldsType(U), NEW w \in Seq(U)
  PROVE  Parsed(m, w) \in Readings(FieldsType(U))
<1>1. ASSUME NEW x \in FieldsType(U), NEW f \in U
      PROVE  Field(x, f) \in Readings(FieldsType(U))
  <2>1. x.class = "Fields"
    BY FieldsMembers
  <2>2. Field(x, f) = Fields_Field(x, f)
    BY <2>1 DEF Field
  <2>. QED
    BY <2>2, FieldsReads
<1>. QED
  BY <1>1, ParseStays

LEMMA ServerRequestParsed ==
  ASSUME NEW H, NEW U, U \subseteq FieldsOver(FieldsOver(H)),
         NEW m \in ServerRequestType(U, FieldsOver(H)), NEW w \in Seq(U)
  PROVE  Parsed(m, w) \in Readings(ServerRequestType(U, FieldsOver(H)))
<1>1. ASSUME NEW x \in ServerRequestType(U, FieldsOver(H)), NEW f \in U
      PROVE  Field(x, f) \in Readings(ServerRequestType(U, FieldsOver(H)))
  <2>1. x.class = "OTServerRequest"
    BY ServerRequestMembers
  <2>2. Field(x, f) = OTServerRequest_Field(x, f)
    BY <2>1 DEF Field
  <2>. QED
    BY <2>2, ServerRequestReads
<1>. QED
  BY <1>1, ParseStays

LEMMA ServerResponseParsed ==
  ASSUME NEW H, NEW U, U \subseteq FieldsOver(FieldsOver(H)),
         NEW m \in ServerResponseType(U, FieldsOver(H)), NEW w \in Seq(U)
  PROVE  Parsed(m, w) \in Readings(ServerResponseType(U, FieldsOver(H)))
<1>1. ASSUME NEW x \in ServerResponseType(U, FieldsOver(H)), NEW f \in U
      PROVE  Field(x, f) \in Readings(ServerResponseType(U, FieldsOver(H)))
  <2>1. x.class = "OTServerResponse"
    BY ServerResponseMembers
  <2>2. Field(x, f) = OTServerResponse_Field(x, f)
    BY <2>1 DEF Field
  <2>. QED
    BY <2>2, ServerResponseReads
<1>. QED
  BY <1>1, ParseStays

LEMMA ClientRequestParsed ==
  ASSUME NEW H, NEW U, U \subseteq MapFields(18, FieldsOver(FieldsOver(H))),
         NEW m \in ClientRequestType(U), NEW w \in Seq(U)
  PROVE  Parsed(m, w) \in Readings(ClientRequestType(U))
<1>1. ASSUME NEW x \in ClientRequestType(U), NEW f \in U
      PROVE  Field(x, f) \in Readings(ClientRequestType(U))
  <2>1. x.class = "OTClientRequest"
    BY ClientRequestMembers
  <2>2. Field(x, f) = OTClientRequest_Field(x, f)
    BY <2>1 DEF Field
  <2>. QED
    BY <2>2, ClientRequestReads
<1>. QED
  BY <1>1, ParseStays

LEMMA ClientResponseParsed ==
  ASSUME NEW H, NEW U, U \subseteq MapFields(26, FieldsOver(FieldsOver(H))),
         NEW m \in ClientResponseType(U), NEW w \in Seq(U)
  PROVE  Parsed(m, w) \in Readings(ClientResponseType(U))
<1>1. ASSUME NEW x \in ClientResponseType(U), NEW f \in U
      PROVE  Field(x, f) \in Readings(ClientResponseType(U))
  <2>1. x.class = "OTClientResponse"
    BY ClientResponseMembers
  <2>2. Field(x, f) = OTClientResponse_Field(x, f)
    BY <2>1 DEF Field
  <2>. QED
    BY <2>2, ClientResponseReads
<1>. QED
  BY <1>1, ParseStays

LEMMA ParsedAt ==
  ASSUME NEW h, NEW hd, NEW o \in Roots, NEW w \in Seq(F2)
  PROVE  /\ HeapOK(SWrapper, h, hd) /\ h[o].error # nullptr =>
              /\ HeapOK(SWrapper, ParseAt(h, h[o].error, w).heap, hd)
              /\ ParseAt(h, h[o].error, w).ok \in BOOLEAN
         /\ HeapOK(CWrapper, h, hd) /\ h[o].error # nullptr =>
              /\ HeapOK(CWrapper, ParseAt(h, h[o].error, w).heap, hd)
              /\ ParseAt(h, h[o].error, w).ok \in BOOLEAN
         /\ HeapOK(SWrapper, h, hd) /\ h[o].result # nullptr =>
              /\ HeapOK(SWrapper, ParseAt(h, h[o].result, w).heap, hd)
              /\ ParseAt(h, h[o].result, w).ok \in BOOLEAN
<1>1. \A m \in ErrorType(F2) : Parsed(m, w) \in Readings(ErrorType(F2))
  BY ErrorParsed DEF F2
<1>2. \A m \in ServerResponseType(F2, F1) : Parsed(m, w) \in Readings(ServerResponseType(F2, F1))
  BY ServerResponseParsed DEF F2, F1
<1>3. \A T : \A r \in Readings(T) : r.msg \in T /\ r.ok \in BOOLEAN
  BY DEF Readings
<1>4. /\ ParseAt(h, h[o].error, w).heap = SetError(h, o, Parsed(h[h[o].error], w).msg)
      /\ ParseAt(h, h[o].error, w).ok = Parsed(h[h[o].error], w).ok
      /\ ParseAt(h, h[o].result, w).heap = SetResult(h, o, Parsed(h[h[o].result], w).msg)
      /\ ParseAt(h, h[o].result, w).ok = Parsed(h[h[o].result], w).ok
  BY DEF ParseAt, SetError, SetResult
<1>5. ASSUME HeapOK(SWrapper, h, hd), h[o].error # nullptr
      PROVE  /\ HeapOK(SWrapper, ParseAt(h, h[o].error, w).heap, hd)
             /\ ParseAt(h, h[o].error, w).ok \in BOOLEAN
  <2>1. h[h[o].error] \in ErrorType(F2)
    BY <1>5, ServerRoot
  <2>2. Parsed(h[h[o].error], w).msg \in ErrorType(F2) /\ Parsed(h[h[o].error], w).ok \in BOOLEAN
    BY <1>1, <1>3, <2>1
  <2>3. HeapOK(SWrapper, SetError(h, o, Parsed(h[h[o].error], w).msg), hd)
    BY <1>5, <2>2, SubsSet, Zenon
  <2>. QED
    BY <1>4, <2>2, <2>3, Zenon
<1>6. ASSUME HeapOK(CWrapper, h, hd), h[o].error # nullptr
      PROVE  /\ HeapOK(CWrapper, ParseAt(h, h[o].error, w).heap, hd)
             /\ ParseAt(h, h[o].error, w).ok \in BOOLEAN
  <2>1. h[h[o].error] \in ErrorType(F2)
    BY <1>6, ClientRoot
  <2>2. Parsed(h[h[o].error], w).msg \in ErrorType(F2) /\ Parsed(h[h[o].error], w).ok \in BOOLEAN
    BY <1>1, <1>3, <2>1
  <2>3. HeapOK(CWrapper, SetError(h, o, Parsed(h[h[o].error], w).msg), hd)
    BY <1>6, <2>2, SubsSet, Zenon
  <2>. QED
    BY <1>4, <2>2, <2>3, Zenon
<1>7. ASSUME HeapOK(SWrapper, h, hd), h[o].result # nullptr
      PROVE  /\ HeapOK(SWrapper, ParseAt(h, h[o].result, w).heap, hd)
             /\ ParseAt(h, h[o].result, w).ok \in BOOLEAN
  <2>1. h[h[o].result] \in ServerResponseType(F2, F1)
    BY <1>7, ServerRoot
  <2>2. /\ Parsed(h[h[o].result], w).msg \in ServerResponseType(F2, F1)
        /\ Parsed(h[h[o].result], w).ok \in BOOLEAN
    BY <1>2, <1>3, <2>1
  <2>3. HeapOK(SWrapper, SetResult(h, o, Parsed(h[h[o].result], w).msg), hd)
    BY <1>7, <2>2, SubsSet, Zenon
  <2>. QED
    BY <1>4, <2>2, <2>3, Zenon
<1>. QED
  BY <1>5, <1>6, <1>7

-----------------------------------------------------------------------------
\* The parse of a wrapper.

LEMMA WireFields ==
  ASSUME NEW f \in F3
  PROVE  /\ f.sub \in Seq(F2)
         /\ f \in Written(CWrapper) /\ f.tag = 18 => f.sub \in Seq(MapFields(26, F2))
BY DEF F3, FieldsOver, Written, CWrapper

LEMMA UnknownKept ==
  ASSUME NEW h, NEW hd, NEW o \in Roots, NEW f
  PROVE  /\ HeapOK(SWrapper, h, hd) /\ f \in F3 =>
              HeapOK(SWrapper, HeapUnknown(h, o, f).heap, hd)
         /\ HeapOK(CWrapper, h, hd) /\ f \in Written(CWrapper) =>
              HeapOK(CWrapper, HeapUnknown(h, o, f).heap, hd)
         /\ HeapUnknown(h, o, f).ok \in BOOLEAN
<1>. DEFINE g == [h EXCEPT ![o].unknown = @ \o <<f>>]
<1>1. ASSUME NEW U, h[o].unknown \in Seq(U), f \in U
      PROVE  <<f>> \in Seq(U) /\ HeapUnknown(h, o, f).heap = g
  <2>1. Append(h[o].unknown, f) = h[o].unknown \o <<f>> /\ <<f>> \in Seq(U)
    BY <1>1, SMTT(40)
  <2>. QED
    BY <2>1 DEF HeapUnknown
<1>. HIDE DEF g
<1>2. ASSUME HeapOK(SWrapper, h, hd), f \in F3
      PROVE  HeapOK(SWrapper, HeapUnknown(h, o, f).heap, hd)
  <2>1. h[o].unknown \in Seq(F3)
    BY <1>2, ServerRoot, ServerWrapperMembers
  <2>2. <<f>> \in Seq(F3) /\ HeapUnknown(h, o, f).heap = g
    BY <1>1, <1>2, <2>1
  <2>3. HeapOK(SWrapper, g, hd)
    BY <1>2, <2>2, UnknownAppended, Zenon DEF g
  <2>. QED
    BY <2>2, <2>3
<1>3. ASSUME HeapOK(CWrapper, h, hd), f \in Written(CWrapper)
      PROVE  HeapOK(CWrapper, HeapUnknown(h, o, f).heap, hd)
  <2>1. h[o].unknown \in Seq(Written(CWrapper))
    BY <1>3, ClientRoot, ClientWrapperMembers DEF CWrapper
  <2>2. <<f>> \in Seq(Written(CWrapper)) /\ HeapUnknown(h, o, f).heap = g
    BY <1>1, <1>3, <2>1
  <2>3. HeapOK(CWrapper, g, hd)
    BY <1>3, <2>2, UnknownAppended, Zenon DEF g
  <2>. QED
    BY <2>2, <2>3
<1>4. HeapUnknown(h, o, f).ok \in BOOLEAN
  BY DEF HeapUnknown
<1>. QED
  BY <1>2, <1>3, <1>4

LEMMA ServerFieldStays ==
  ASSUME NEW h, NEW hd, HeapOK(SWrapper, h, hd), NEW o \in Roots, NEW f \in F3
  PROVE  /\ HeapOK(SWrapper, OTServerResponseWrapper_Field(h, o, f).heap, hd)
         /\ OTServerResponseWrapper_Field(h, o, f).ok \in BOOLEAN
<1>. DEFINE e == OTServerResponseWrapper_mutable_error(h, o)
            r == OTServerResponseWrapper_mutable_result(h, o)
<1>1. /\ HeapOK(SWrapper, e, hd) /\ e[o].error # nullptr
      /\ HeapOK(SWrapper, r, hd) /\ r[o].result # nullptr
  BY ServerMutable
<1>2. f.sub \in Seq(F2)
  BY WireFields
<1>3. OTServerResponseWrapper_Field(h, o, f) =
        CASE f.tag = 10 -> ParseAt(e, e[o].error, f.sub)
          [] f.tag = 18 -> ParseAt(r, r[o].result, f.sub)
          [] OTHER      -> HeapUnknown(h, o, f)
  BY DEF OTServerResponseWrapper_Field
<1>. HIDE DEF e, r
<1>4. /\ HeapOK(SWrapper, ParseAt(e, e[o].error, f.sub).heap, hd)
      /\ ParseAt(e, e[o].error, f.sub).ok \in BOOLEAN
  BY <1>1, <1>2, ParsedAt
<1>5. /\ HeapOK(SWrapper, ParseAt(r, r[o].result, f.sub).heap, hd)
      /\ ParseAt(r, r[o].result, f.sub).ok \in BOOLEAN
  BY <1>1, <1>2, ParsedAt
<1>6. /\ HeapOK(SWrapper, HeapUnknown(h, o, f).heap, hd)
      /\ HeapUnknown(h, o, f).ok \in BOOLEAN
  BY UnknownKept
<1>. QED
  BY <1>3, <1>4, <1>5, <1>6

LEMMA ClientFieldStays ==
  ASSUME NEW h, NEW hd, HeapOK(CWrapper, h, hd), NEW o \in Roots, NEW f \in Written(CWrapper)
  PROVE  /\ HeapOK(CWrapper, OTClientResponseWrapper_Field(h, o, f).heap, hd)
         /\ OTClientResponseWrapper_Field(h, o, f).ok \in BOOLEAN
<1>. DEFINE e == OTClientResponseWrapper_mutable_error(h, o)
            added == Parsed(OTClientResponse_New, f.sub)
            g == [h EXCEPT ![o].result = Append(@, added.msg)]
<1>1. HeapOK(CWrapper, e, hd) /\ e[o].error # nullptr
  BY ClientMutable
<1>2. f \in F3 /\ f.sub \in Seq(F2)
  BY WireFields, WrapperClasses
<1>3. OTClientResponseWrapper_Field(h, o, f) =
        CASE f.tag = 10 -> ParseAt(e, e[o].error, f.sub)
          [] f.tag = 18 -> [heap |-> g, ok |-> added.ok]
          [] OTHER      -> HeapUnknown(h, o, f)
  BY DEF OTClientResponseWrapper_Field
<1>. HIDE DEF e
<1>4. /\ HeapOK(CWrapper, ParseAt(e, e[o].error, f.sub).heap, hd)
      /\ ParseAt(e, e[o].error, f.sub).ok \in BOOLEAN
  BY <1>1, <1>2, ParsedAt
<1>5. ASSUME f.tag = 18
      PROVE  HeapOK(CWrapper, g, hd) /\ added.ok \in BOOLEAN
  <2>. DEFINE U == MapFields(26, F2)
  <2>1. U \subseteq MapFields(26, FieldsOver(FieldsOver({})))
    BY DEF F2, F1
  <2>2. f.sub \in Seq(U) /\ OTClientResponse_New \in ClientResponseType(U)
    BY <1>2, <1>5, WireFields, NewSubs
  <2>. HIDE DEF U
  <2>3. added \in Readings(ClientResponseType(U))
    BY <2>1, <2>2, ClientResponseParsed
  <2>4. added.msg \in ClientResponseType(U) /\ added.ok \in BOOLEAN
    BY <2>3 DEF Readings
  <2>. HIDE DEF added
  <2>5. h[o] \in ClientWrapperType /\ h \in Heaps(CWrapper)
    BY ClientRoot
  <2>6. Append(h[o].result, added.msg) \in Seq(ClientResponseType(U))
    <3>1. h[o].result \in Seq(ClientResponseType(U))
      BY <2>5, ClientWrapperMembers DEF U
    <3>. QED
      BY <3>1, <2>4
  <2>. DEFINE m == [h[o] EXCEPT !.result = Append(h[o].result, added.msg)]
  <2>7. m \in ClientWrapperType /\ m.error = h[o].error
    BY <2>5, <2>6, ClientWrapperMembers, Zenon DEF U
  <2>8. g = [h EXCEPT ![o] = m]
    OBVIOUS
  <2>. HIDE DEF m, g
  <2>9. m \in RootType(CWrapper) /\ \A x \in Held(CWrapper) : m[x] = h[o][x]
    BY <2>7, WrapperClasses
  <2>10. HeapOK(CWrapper, [h EXCEPT ![o] = m], hd)
    BY <2>9, RootChanged
  <2>. QED
    BY <2>4, <2>8, <2>10
<1>6. /\ HeapOK(CWrapper, HeapUnknown(h, o, f).heap, hd)
      /\ HeapUnknown(h, o, f).ok \in BOOLEAN
  BY UnknownKept
<1>. HIDE DEF g, added
<1>. QED
  BY <1>3, <1>4, <1>5, <1>6

LEMMA WrapperFieldStays ==
  ASSUME NEW c \in {SWrapper, CWrapper}, NEW h, NEW hd, HeapOK(c, h, hd), NEW o \in Roots,
         NEW f \in Written(c)
  PROVE  /\ HeapOK(c, WrapperField(h, o, f).heap, hd)
         /\ WrapperField(h, o, f).ok \in BOOLEAN
<1>1. CASE c = SWrapper
  <2>1. h[o].class = "OTServerResponseWrapper" /\ f \in F3
    BY <1>1, ServerRoot, ServerWrapperMembers, WrapperClasses
  <2>. QED
    BY <1>1, <2>1, ServerFieldStays DEF WrapperField
<1>2. CASE c = CWrapper
  <2>1. h[o].class = "OTClientResponseWrapper"
    BY <1>2, ClientRoot, ClientWrapperMembers
  <2>. QED
    BY <1>2, <2>1, ClientFieldStays DEF WrapperField
<1>. QED
  BY <1>1, <1>2

\* The loop of a parse stays among the heaps that no field leaves.
LEMMA HeapParseWithin ==
  ASSUME NEW H, NEW W, NEW h \in H, NEW o, NEW w \in Seq(W),
         \A g \in H, f \in W : WrapperField(g, o, f).heap \in H /\ WrapperField(g, o, f).ok \in BOOLEAN
  PROVE  HeapParse(h, o, w).heap \in H /\ HeapParse(h, o, w).ok \in BOOLEAN
<1>. DEFINE n == Len(w)
            S == [heap : H, ok : BOOLEAN]
            base == [heap |-> h, ok |-> TRUE]
            turn(r, f) == IF ~r.ok THEN r
                          ELSE IF ~Whole(f) THEN [r EXCEPT !.ok = FALSE]
                          ELSE WrapperField(r.heap, o, f)
            next == [x \in S \X (1..n) |-> turn(x[1], w[x[2]])]
            Obeys(p) == p = [i \in 0..n |-> IF i = 0 THEN base ELSE turn(p[i - 1], w[i])]
            upto == CHOOSE p : Obeys(p)
<1>1. n \in Nat /\ base \in S /\ \A i \in 1..n : w[i] \in W
  OBVIOUS
<1>2. ASSUME NEW r \in S, NEW f \in W PROVE turn(r, f) \in S
  <2>1. r.heap \in H /\ [r EXCEPT !.ok = FALSE] \in S
    BY <1>2
  <2>2. WrapperField(r.heap, o, f).heap \in H /\ WrapperField(r.heap, o, f).ok \in BOOLEAN
    BY <2>1
  <2>3. WrapperField(r.heap, o, f) =
          [heap |-> WrapperField(r.heap, o, f).heap, ok |-> WrapperField(r.heap, o, f).ok]
    BY DEF WrapperField, OTServerResponseWrapper_Field, OTClientResponseWrapper_Field,
           ParseAt, HeapUnknown
  <2>4. WrapperField(r.heap, o, f) \in S
    BY <2>2, <2>3
  <2>. QED
    BY <2>1, <2>4
<1>3. upto[n] = HeapParse(h, o, w)
  BY Zenon DEF HeapParse, Along
<1>4. ASSUME NEW r \in S PROVE r.heap \in H /\ r.ok \in BOOLEAN
  BY <1>4
<1>. HIDE DEF n, S, turn, base
<1>5. next \in [S \X (1..n) -> S]
  BY <1>1, <1>2
<1>6. PICK g : RecursionFromZero(g, S, n, base, next)
  <2>. HIDE DEF next
  <2>. QED
    BY <1>1, <1>5, RecursionFromZeroExists
<1>7. g \in [0..n -> S] /\ g[0] = base /\ \A i \in 1..n : g[i] = turn(g[i - 1], w[i])
  <2>1. g \in [0..n -> S] /\ g[0] = base /\ \A i \in 1..n : g[i] = next[<<g[i - 1], i>>]
    BY <1>6 DEF RecursionFromZero
  <2>2. \A i \in 1..n : i - 1 \in 0..n
    BY <1>1
  <2>. QED
    BY <2>1, <2>2
<1>8. Obeys(g)
  BY <1>1, <1>7
<1>9. Obeys(upto)
  <2>. HIDE DEF Obeys
  <2>. QED
    BY <1>8
<1>10. upto = [i \in 0..n |-> upto[i]] /\ upto[0] = base
       /\ \A i \in 1..n : upto[i] = turn(upto[i - 1], w[i])
  <2>1. 0 \in 0..n /\ \A i \in 1..n : i \in 0..n /\ i # 0
    BY <1>1
  <2>. HIDE DEF upto
  <2>. QED
    BY <1>9, <2>1
<1>. HIDE DEF upto
<1>11. Follows(upto, S, n, base, next)
  <2>1. ASSUME NEW i \in 1..n, upto[i - 1] \in S PROVE upto[i] = next[<<upto[i - 1], i>>]
    BY <1>10, <2>1
  <2>. HIDE DEF next
  <2>. QED
    BY <1>10, <2>1 DEF Follows
<1>12. RecursionFromZero(upto, S, n, base, next)
  <2>. HIDE DEF next
  <2>. QED
    BY <1>1, <1>5, <1>11, RecursionIsUnique
<1>13. upto[n] \in S
  BY <1>1, <1>12 DEF RecursionFromZero
<1>. QED
  BY <1>3, <1>4, <1>13

\* It leaves a heap in order.
LEMMA HeapParseStays ==
  ASSUME NEW c \in {SWrapper, CWrapper}, NEW h, NEW hd, HeapOK(c, h, hd), NEW o \in Roots,
         NEW w \in Seq(Written(c))
  PROVE  HeapOK(c, HeapParse(h, o, w).heap, hd) /\ HeapParse(h, o, w).ok \in BOOLEAN
<1>. DEFINE H == {g \in Heaps(c) : HeapOK(c, g, hd)}
<1>1. h \in H
  BY DEF HeapOK
<1>2. ASSUME NEW g \in H, NEW f \in Written(c)
      PROVE  WrapperField(g, o, f).heap \in H /\ WrapperField(g, o, f).ok \in BOOLEAN
  <2>1. HeapOK(c, WrapperField(g, o, f).heap, hd) /\ WrapperField(g, o, f).ok \in BOOLEAN
    BY WrapperFieldStays
  <2>. QED
    BY <2>1 DEF HeapOK
<1>3. \A g \in H : HeapOK(c, g, hd)
  OBVIOUS
<1>. HIDE DEF H
<1>4. HeapParse(h, o, w).heap \in H /\ HeapParse(h, o, w).ok \in BOOLEAN
  BY <1>1, <1>2, HeapParseWithin
<1>. QED
  BY <1>3, <1>4

-----------------------------------------------------------------------------
\* The virtual calls.

\* What a class without pointers answers to them stays in its type.
Answers(c, h, o, from) ==
  /\ h[o].class = c
  /\ New(c) \in RootType(c)
  /\ Accessors(h[o]) \subseteq RootType(c)
  /\ Exchanged(h[o], h[from]) \in RootType(c)
  /\ \A w \in Seq(Written(c)) : Parsed(h[o], w) \in Readings(RootType(c))
  /\ Serialized(h, h[o]) \in Seq(Written(c))
  /\ ByteSizeLong(h, h[o]) = WireSize(Serialized(h, h[o]))
  /\ Destroy(h, o) = h
  /\ \E v \in RootType(c) : ClearAt(h, o) = [h EXCEPT ![o] = v]
  /\ \E v \in RootType(c) : MergeAt(h, o, from) = [h EXCEPT ![o] = v]
  /\ \E v \in RootType(c) : CopyAt(h, o, from) = [h EXCEPT ![o] = v]
  /\ \E v \in RootType(c) : Construct(h, o, from) = [h EXCEPT ![o] = v]

LEMMA ResponseAnswers ==
  ASSUME NEW h, NEW o, NEW from,
         h[o] \in RootType("Response"), h[from] \in RootType("Response")
  PROVE  Answers("Response", h, o, from)
<1>. DEFINE T == ResponseType(F3)
            m == h[o]
            f == h[from]
<1>1. RootType("Response") = T /\ Written("Response") = F3
  BY DEF RootType, Written
<1>2. F3 = FieldsOver(F2)
  BY DEF F3, F2
<1>3. m \in T /\ f \in T
  BY <1>1
<1>4. m.class = "Response" /\ f.class = "Response"
  BY <1>3, ResponseMembers
<1>5. /\ Response_New \in T /\ Response_Construct(f) \in T /\ Response_Clear(m) \in T
      /\ Response_MergeFrom(m, f) \in T /\ Response_CopyFrom(m, f) \in T
      /\ Response_Swap(m, f) \in T
  BY <1>3, ResponseKept
<1>6. Response_Accessors(m) \subseteq T
  BY <1>3, ResponseAccessed
<1>7. \A w \in Seq(F3) : Parsed(m, w) \in Readings(T)
  BY <1>2, <1>3, ResponseParsed
<1>8. /\ Response_Serialize(m) \in Seq(F3)
      /\ Response_ByteSizeLong(m) = WireSize(Response_Serialize(m))
  BY <1>2, <1>3, ResponseSizeIsLength
<1>. HIDE DEF T, m, f
<1>9. /\ New("Response") = Response_New
      /\ Accessors(m) = Response_Accessors(m)
      /\ Exchanged(m, f) = Response_Swap(m, f)
      /\ Serialized(h, m) = Response_Serialize(m)
      /\ ByteSizeLong(h, m) = Response_ByteSizeLong(m)
  BY <1>4 DEF New, Accessors, Exchanged, Serialized, ByteSizeLong
<1>10. /\ Destroy(h, o) = h
       /\ ClearAt(h, o) = [h EXCEPT ![o] = Response_Clear(m)]
       /\ MergeAt(h, o, from) = [h EXCEPT ![o] = Response_MergeFrom(m, f)]
       /\ CopyAt(h, o, from) = [h EXCEPT ![o] = Response_CopyFrom(m, f)]
       /\ Construct(h, o, from) = [h EXCEPT ![o] = Response_Construct(f)]
  BY <1>4 DEF Destroy, ClearAt, MergeAt, CopyAt, Construct, m, f
<1>11. /\ \E v \in T : ClearAt(h, o) = [h EXCEPT ![o] = v]
       /\ \E v \in T : MergeAt(h, o, from) = [h EXCEPT ![o] = v]
       /\ \E v \in T : CopyAt(h, o, from) = [h EXCEPT ![o] = v]
       /\ \E v \in T : Construct(h, o, from) = [h EXCEPT ![o] = v]
  BY <1>5, <1>10, Zenon
<1>12. /\ m.class = "Response" /\ New("Response") \in T /\ Accessors(m) \subseteq T
       /\ Exchanged(m, f) \in T /\ Destroy(h, o) = h
       /\ Serialized(h, m) \in Seq(F3)
       /\ ByteSizeLong(h, m) = WireSize(Serialized(h, m))
  BY <1>4, <1>5, <1>6, <1>8, <1>9, <1>10
<1>. QED
  BY <1>1, <1>7, <1>11, <1>12, Zenon DEF Answers, m, f

LEMMA ErrorAnswers ==
  ASSUME NEW h, NEW o, NEW from,
         h[o] \in RootType("Error"), h[from] \in RootType("Error")
  PROVE  Answers("Error", h, o, from)
<1>. DEFINE T == ErrorType(F3)
            m == h[o]
            f == h[from]
<1>1. RootType("Error") = T /\ Written("Error") = F3
  BY DEF RootType, Written
<1>2. F3 = FieldsOver(F2)
  BY DEF F3, F2
<1>3. m \in T /\ f \in T
  BY <1>1
<1>4. m.class = "Error" /\ f.class = "Error"
  BY <1>3, ErrorMembers
<1>5. /\ Error_New \in T /\ Error_Construct(f) \in T /\ Error_Clear(m) \in T
      /\ Error_MergeFrom(m, f) \in T /\ Error_CopyFrom(m, f) \in T
      /\ Error_Swap(m, f) \in T
  BY <1>3, ErrorKept
<1>6. Error_Accessors(m) \subseteq T
  BY <1>3, ErrorAccessed
<1>7. \A w \in Seq(F3) : Parsed(m, w) \in Readings(T)
  BY <1>2, <1>3, ErrorParsed
<1>8. /\ Error_Serialize(m) \in Seq(F3)
      /\ Error_ByteSizeLong(m) = WireSize(Error_Serialize(m))
  BY <1>2, <1>3, ErrorSizeIsLength
<1>. HIDE DEF T, m, f
<1>9. /\ New("Error") = Error_New
      /\ Accessors(m) = Error_Accessors(m)
      /\ Exchanged(m, f) = Error_Swap(m, f)
      /\ Serialized(h, m) = Error_Serialize(m)
      /\ ByteSizeLong(h, m) = Error_ByteSizeLong(m)
  BY <1>4 DEF New, Accessors, Exchanged, Serialized, ByteSizeLong
<1>10. /\ Destroy(h, o) = h
       /\ ClearAt(h, o) = [h EXCEPT ![o] = Error_Clear(m)]
       /\ MergeAt(h, o, from) = [h EXCEPT ![o] = Error_MergeFrom(m, f)]
       /\ CopyAt(h, o, from) = [h EXCEPT ![o] = Error_CopyFrom(m, f)]
       /\ Construct(h, o, from) = [h EXCEPT ![o] = Error_Construct(f)]
  BY <1>4 DEF Destroy, ClearAt, MergeAt, CopyAt, Construct, m, f
<1>11. /\ \E v \in T : ClearAt(h, o) = [h EXCEPT ![o] = v]
       /\ \E v \in T : MergeAt(h, o, from) = [h EXCEPT ![o] = v]
       /\ \E v \in T : CopyAt(h, o, from) = [h EXCEPT ![o] = v]
       /\ \E v \in T : Construct(h, o, from) = [h EXCEPT ![o] = v]
  BY <1>5, <1>10, Zenon
<1>12. /\ m.class = "Error" /\ New("Error") \in T /\ Accessors(m) \subseteq T
       /\ Exchanged(m, f) \in T /\ Destroy(h, o) = h
       /\ Serialized(h, m) \in Seq(F3)
       /\ ByteSizeLong(h, m) = WireSize(Serialized(h, m))
  BY <1>4, <1>5, <1>6, <1>8, <1>9, <1>10
<1>. QED
  BY <1>1, <1>7, <1>11, <1>12, Zenon DEF Answers, m, f

LEMMA ServiceDataAnswers ==
  ASSUME NEW h, NEW o, NEW from,
         h[o] \in RootType("OTServiceData"), h[from] \in RootType("OTServiceData")
  PROVE  Answers("OTServiceData", h, o, from)
<1>. DEFINE T == ServiceDataType(F3)
            m == h[o]
            f == h[from]
<1>1. RootType("OTServiceData") = T /\ Written("OTServiceData") = F3
  BY DEF RootType, Written
<1>2. F3 = FieldsOver(F2) /\ \A s \in Seq(Int) : String(10, s) \in F3
  BY FieldsMade DEF F3, F2
<1>3. m \in T /\ f \in T
  BY <1>1
<1>4. m.class = "OTServiceData" /\ f.class = "OTServiceData"
  BY <1>3, ServiceDataMembers
<1>5. /\ OTServiceData_New \in T /\ OTServiceData_Construct(f) \in T /\ OTServiceData_Clear(m) \in T
      /\ OTServiceData_MergeFrom(m, f) \in T /\ OTServiceData_CopyFrom(m, f) \in T
      /\ OTServiceData_Swap(m, f) \in T
  BY <1>3, ServiceDataKept
<1>6. OTServiceData_Accessors(m) \subseteq T
  BY <1>3, ServiceDataAccessed
<1>7. \A w \in Seq(F3) : Parsed(m, w) \in Readings(T)
  BY <1>2, <1>3, ServiceDataParsed
<1>8. /\ OTServiceData_Serialize(m) \in Seq(F3)
      /\ OTServiceData_ByteSizeLong(m) = WireSize(OTServiceData_Serialize(m))
  BY <1>2, <1>3, ServiceDataSizeIsLength
<1>. HIDE DEF T, m, f
<1>9. /\ New("OTServiceData") = OTServiceData_New
      /\ Accessors(m) = OTServiceData_Accessors(m)
      /\ Exchanged(m, f) = OTServiceData_Swap(m, f)
      /\ Serialized(h, m) = OTServiceData_Serialize(m)
      /\ ByteSizeLong(h, m) = OTServiceData_ByteSizeLong(m)
  BY <1>4 DEF New, Accessors, Exchanged, Serialized, ByteSizeLong
<1>10. /\ Destroy(h, o) = h
       /\ ClearAt(h, o) = [h EXCEPT ![o] = OTServiceData_Clear(m)]
       /\ MergeAt(h, o, from) = [h EXCEPT ![o] = OTServiceData_MergeFrom(m, f)]
       /\ CopyAt(h, o, from) = [h EXCEPT ![o] = OTServiceData_CopyFrom(m, f)]
       /\ Construct(h, o, from) = [h EXCEPT ![o] = OTServiceData_Construct(f)]
  BY <1>4 DEF Destroy, ClearAt, MergeAt, CopyAt, Construct, m, f
<1>11. /\ \E v \in T : ClearAt(h, o) = [h EXCEPT ![o] = v]
       /\ \E v \in T : MergeAt(h, o, from) = [h EXCEPT ![o] = v]
       /\ \E v \in T : CopyAt(h, o, from) = [h EXCEPT ![o] = v]
       /\ \E v \in T : Construct(h, o, from) = [h EXCEPT ![o] = v]
  BY <1>5, <1>10, Zenon
<1>12. /\ m.class = "OTServiceData" /\ New("OTServiceData") \in T /\ Accessors(m) \subseteq T
       /\ Exchanged(m, f) \in T /\ Destroy(h, o) = h
       /\ Serialized(h, m) \in Seq(F3)
       /\ ByteSizeLong(h, m) = WireSize(Serialized(h, m))
  BY <1>4, <1>5, <1>6, <1>8, <1>9, <1>10
<1>. QED
  BY <1>1, <1>7, <1>11, <1>12, Zenon DEF Answers, m, f

LEMMA BytesAnswers ==
  ASSUME NEW h, NEW o, NEW from,
         h[o] \in RootType("Bytes"), h[from] \in RootType("Bytes")
  PROVE  Answers("Bytes", h, o, from)
<1>. DEFINE T == BytesType(F3)
            m == h[o]
            f == h[from]
<1>1. RootType("Bytes") = T /\ Written("Bytes") = F3
  BY DEF RootType, Written
<1>2. F3 = FieldsOver(F2)
  BY DEF F3, F2
<1>3. m \in T /\ f \in T
  BY <1>1
<1>4. m.class = "Bytes" /\ f.class = "Bytes"
  BY <1>3, BytesMembers
<1>5. /\ Bytes_New \in T /\ Bytes_Construct(f) \in T /\ Bytes_Clear(m) \in T
      /\ Bytes_MergeFrom(m, f) \in T /\ Bytes_CopyFrom(m, f) \in T
      /\ Bytes_Swap(m, f) \in T
  BY <1>3, BytesKept
<1>6. Bytes_Accessors(m) \subseteq T
  BY <1>3, BytesAccessed
<1>7. \A w \in Seq(F3) : Parsed(m, w) \in Readings(T)
  BY <1>2, <1>3, BytesParsed
<1>8. /\ Bytes_Serialize(m) \in Seq(F3)
      /\ Bytes_ByteSizeLong(m) = WireSize(Bytes_Serialize(m))
  BY <1>2, <1>3, BytesSizeIsLength
<1>. HIDE DEF T, m, f
<1>9. /\ New("Bytes") = Bytes_New
      /\ Accessors(m) = Bytes_Accessors(m)
      /\ Exchanged(m, f) = Bytes_Swap(m, f)
      /\ Serialized(h, m) = Bytes_Serialize(m)
      /\ ByteSizeLong(h, m) = Bytes_ByteSizeLong(m)
  BY <1>4 DEF New, Accessors, Exchanged, Serialized, ByteSizeLong
<1>10. /\ Destroy(h, o) = h
       /\ ClearAt(h, o) = [h EXCEPT ![o] = Bytes_Clear(m)]
       /\ MergeAt(h, o, from) = [h EXCEPT ![o] = Bytes_MergeFrom(m, f)]
       /\ CopyAt(h, o, from) = [h EXCEPT ![o] = Bytes_CopyFrom(m, f)]
       /\ Construct(h, o, from) = [h EXCEPT ![o] = Bytes_Construct(f)]
  BY <1>4 DEF Destroy, ClearAt, MergeAt, CopyAt, Construct, m, f
<1>11. /\ \E v \in T : ClearAt(h, o) = [h EXCEPT ![o] = v]
       /\ \E v \in T : MergeAt(h, o, from) = [h EXCEPT ![o] = v]
       /\ \E v \in T : CopyAt(h, o, from) = [h EXCEPT ![o] = v]
       /\ \E v \in T : Construct(h, o, from) = [h EXCEPT ![o] = v]
  BY <1>5, <1>10, Zenon
<1>12. /\ m.class = "Bytes" /\ New("Bytes") \in T /\ Accessors(m) \subseteq T
       /\ Exchanged(m, f) \in T /\ Destroy(h, o) = h
       /\ Serialized(h, m) \in Seq(F3)
       /\ ByteSizeLong(h, m) = WireSize(Serialized(h, m))
  BY <1>4, <1>5, <1>6, <1>8, <1>9, <1>10
<1>. QED
  BY <1>1, <1>7, <1>11, <1>12, Zenon DEF Answers, m, f

LEMMA FieldsAnswers ==
  ASSUME NEW h, NEW o, NEW from,
         h[o] \in RootType("Fields"), h[from] \in RootType("Fields")
  PROVE  Answers("Fields", h, o, from)
<1>. DEFINE T == FieldsType(MapFields(10, F3))
            m == h[o]
            f == h[from]
<1>1. RootType("Fields") = T /\ Written("Fields") = MapFields(10, F3)
  BY DEF RootType, Written
<1>2. F3 = FieldsOver(FieldsOver(F1))
  BY DEF F3, F2
<1>3. m \in T /\ f \in T
  BY <1>1
<1>4. m.class = "Fields" /\ f.class = "Fields"
  BY <1>3, FieldsMembers
<1>5. /\ Fields_New \in T /\ Fields_Construct(f) \in T /\ Fields_Clear(m) \in T
      /\ Fields_MergeFrom(m, f) \in T /\ Fields_CopyFrom(m, f) \in T
      /\ Fields_Swap(m, f) \in T
  BY <1>3, FieldsKept
<1>6. Fields_Accessors(m) \subseteq T
  BY <1>3, FieldsAccessed
<1>7. \A w \in Seq(MapFields(10, F3)) : Parsed(m, w) \in Readings(T)
  BY <1>2, <1>3, FieldsParsed
<1>8. /\ Fields_Serialize(m) \in Seq(MapFields(10, F3))
      /\ Fields_ByteSizeLong(m) = WireSize(Fields_Serialize(m))
  BY <1>2, <1>3, FieldsSizeIsLength
<1>. HIDE DEF T, m, f
<1>9. /\ New("Fields") = Fields_New
      /\ Accessors(m) = Fields_Accessors(m)
      /\ Exchanged(m, f) = Fields_Swap(m, f)
      /\ Serialized(h, m) = Fields_Serialize(m)
      /\ ByteSizeLong(h, m) = Fields_ByteSizeLong(m)
  BY <1>4 DEF New, Accessors, Exchanged, Serialized, ByteSizeLong
<1>10. /\ Destroy(h, o) = h
       /\ ClearAt(h, o) = [h EXCEPT ![o] = Fields_Clear(m)]
       /\ MergeAt(h, o, from) = [h EXCEPT ![o] = Fields_MergeFrom(m, f)]
       /\ CopyAt(h, o, from) = [h EXCEPT ![o] = Fields_CopyFrom(m, f)]
       /\ Construct(h, o, from) = [h EXCEPT ![o] = Fields_Construct(f)]
  BY <1>4 DEF Destroy, ClearAt, MergeAt, CopyAt, Construct, m, f
<1>11. /\ \E v \in T : ClearAt(h, o) = [h EXCEPT ![o] = v]
       /\ \E v \in T : MergeAt(h, o, from) = [h EXCEPT ![o] = v]
       /\ \E v \in T : CopyAt(h, o, from) = [h EXCEPT ![o] = v]
       /\ \E v \in T : Construct(h, o, from) = [h EXCEPT ![o] = v]
  BY <1>5, <1>10, Zenon
<1>12. /\ m.class = "Fields" /\ New("Fields") \in T /\ Accessors(m) \subseteq T
       /\ Exchanged(m, f) \in T /\ Destroy(h, o) = h
       /\ Serialized(h, m) \in Seq(MapFields(10, F3))
       /\ ByteSizeLong(h, m) = WireSize(Serialized(h, m))
  BY <1>4, <1>5, <1>6, <1>8, <1>9, <1>10
<1>. QED
  BY <1>1, <1>7, <1>11, <1>12, Zenon DEF Answers, m, f

LEMMA ServerRequestAnswers ==
  ASSUME NEW h, NEW o, NEW from,
         h[o] \in RootType("OTServerRequest"), h[from] \in RootType("OTServerRequest")
  PROVE  Answers("OTServerRequest", h, o, from)
<1>. DEFINE T == ServerRequestType(F3, F2)
            m == h[o]
            f == h[from]
<1>1. RootType("OTServerRequest") = T /\ Written("OTServerRequest") = F3
  BY DEF RootType, Written
<1>2. F3 = FieldsOver(FieldsOver(F1)) /\ F2 = FieldsOver(F1)
  BY DEF F3, F2
<1>3. m \in T /\ f \in T
  BY <1>1
<1>4. m.class = "OTServerRequest" /\ f.class = "OTServerRequest"
  BY <1>3, ServerRequestMembers
<1>5. /\ OTServerRequest_New \in T /\ OTServerRequest_Construct(f) \in T /\ OTServerRequest_Clear(m) \in T
      /\ OTServerRequest_MergeFrom(m, f) \in T /\ OTServerRequest_CopyFrom(m, f) \in T
      /\ OTServerRequest_Swap(m, f) \in T
  BY <1>3, ServerRequestKept
<1>6. OTServerRequest_Accessors(m) \subseteq T
  BY <1>3, ServerRequestAccessed
<1>7. \A w \in Seq(F3) : Parsed(m, w) \in Readings(T)
  BY <1>2, <1>3, ServerRequestParsed
<1>8. /\ OTServerRequest_Serialize(m) \in Seq(F3)
      /\ OTServerRequest_ByteSizeLong(m) = WireSize(OTServerRequest_Serialize(m))
  BY <1>2, <1>3, ServerRequestSizeIsLength
<1>. HIDE DEF T, m, f
<1>9. /\ New("OTServerRequest") = OTServerRequest_New
      /\ Accessors(m) = OTServerRequest_Accessors(m)
      /\ Exchanged(m, f) = OTServerRequest_Swap(m, f)
      /\ Serialized(h, m) = OTServerRequest_Serialize(m)
      /\ ByteSizeLong(h, m) = OTServerRequest_ByteSizeLong(m)
  BY <1>4 DEF New, Accessors, Exchanged, Serialized, ByteSizeLong
<1>10. /\ Destroy(h, o) = h
       /\ ClearAt(h, o) = [h EXCEPT ![o] = OTServerRequest_Clear(m)]
       /\ MergeAt(h, o, from) = [h EXCEPT ![o] = OTServerRequest_MergeFrom(m, f)]
       /\ CopyAt(h, o, from) = [h EXCEPT ![o] = OTServerRequest_CopyFrom(m, f)]
       /\ Construct(h, o, from) = [h EXCEPT ![o] = OTServerRequest_Construct(f)]
  BY <1>4 DEF Destroy, ClearAt, MergeAt, CopyAt, Construct, m, f
<1>11. /\ \E v \in T : ClearAt(h, o) = [h EXCEPT ![o] = v]
       /\ \E v \in T : MergeAt(h, o, from) = [h EXCEPT ![o] = v]
       /\ \E v \in T : CopyAt(h, o, from) = [h EXCEPT ![o] = v]
       /\ \E v \in T : Construct(h, o, from) = [h EXCEPT ![o] = v]
  BY <1>5, <1>10, Zenon
<1>12. /\ m.class = "OTServerRequest" /\ New("OTServerRequest") \in T /\ Accessors(m) \subseteq T
       /\ Exchanged(m, f) \in T /\ Destroy(h, o) = h
       /\ Serialized(h, m) \in Seq(F3)
       /\ ByteSizeLong(h, m) = WireSize(Serialized(h, m))
  BY <1>4, <1>5, <1>6, <1>8, <1>9, <1>10
<1>. QED
  BY <1>1, <1>7, <1>11, <1>12, Zenon DEF Answers, m, f

LEMMA ServerResponseAnswers ==
  ASSUME NEW h, NEW o, NEW from,
         h[o] \in RootType("OTServerResponse"), h[from] \in RootType("OTServerResponse")
  PROVE  Answers("OTServerResponse", h, o, from)
<1>. DEFINE T == ServerResponseType(F3, F2)
            m == h[o]
            f == h[from]
<1>1. RootType("OTServerResponse") = T /\ Written("OTServerResponse") = F3
  BY DEF RootType, Written
<1>2. F3 = FieldsOver(FieldsOver(F1)) /\ F2 = FieldsOver(F1)
  BY DEF F3, F2
<1>3. m \in T /\ f \in T
  BY <1>1
<1>4. m.class = "OTServerResponse" /\ f.class = "OTServerResponse"
  BY <1>3, ServerResponseMembers
<1>5. /\ OTServerResponse_New \in T /\ OTServerResponse_Construct(f) \in T /\ OTServerResponse_Clear(m) \in T
      /\ OTServerResponse_MergeFrom(m, f) \in T /\ OTServerResponse_CopyFrom(m, f) \in T
      /\ OTServerResponse_Swap(m, f) \in T
  BY <1>3, ServerResponseKept
<1>6. OTServerResponse_Accessors(m) \subseteq T
  BY <1>3, ServerResponseAccessed
<1>7. \A w \in Seq(F3) : Parsed(m, w) \in Readings(T)
  BY <1>2, <1>3, ServerResponseParsed
<1>8. /\ OTServerResponse_Serialize(m) \in Seq(F3)
      /\ OTServerResponse_ByteSizeLong(m) = WireSize(OTServerResponse_Serialize(m))
  BY <1>2, <1>3, ServerResponseSizeIsLength
<1>. HIDE DEF T, m, f
<1>9. /\ New("OTServerResponse") = OTServerResponse_New
      /\ Accessors(m) = OTServerResponse_Accessors(m)
      /\ Exchanged(m, f) = OTServerResponse_Swap(m, f)
      /\ Serialized(h, m) = OTServerResponse_Serialize(m)
      /\ ByteSizeLong(h, m) = OTServerResponse_ByteSizeLong(m)
  BY <1>4 DEF New, Accessors, Exchanged, Serialized, ByteSizeLong
<1>10. /\ Destroy(h, o) = h
       /\ ClearAt(h, o) = [h EXCEPT ![o] = OTServerResponse_Clear(m)]
       /\ MergeAt(h, o, from) = [h EXCEPT ![o] = OTServerResponse_MergeFrom(m, f)]
       /\ CopyAt(h, o, from) = [h EXCEPT ![o] = OTServerResponse_CopyFrom(m, f)]
       /\ Construct(h, o, from) = [h EXCEPT ![o] = OTServerResponse_Construct(f)]
  BY <1>4 DEF Destroy, ClearAt, MergeAt, CopyAt, Construct, m, f
<1>11. /\ \E v \in T : ClearAt(h, o) = [h EXCEPT ![o] = v]
       /\ \E v \in T : MergeAt(h, o, from) = [h EXCEPT ![o] = v]
       /\ \E v \in T : CopyAt(h, o, from) = [h EXCEPT ![o] = v]
       /\ \E v \in T : Construct(h, o, from) = [h EXCEPT ![o] = v]
  BY <1>5, <1>10, Zenon
<1>12. /\ m.class = "OTServerResponse" /\ New("OTServerResponse") \in T /\ Accessors(m) \subseteq T
       /\ Exchanged(m, f) \in T /\ Destroy(h, o) = h
       /\ Serialized(h, m) \in Seq(F3)
       /\ ByteSizeLong(h, m) = WireSize(Serialized(h, m))
  BY <1>4, <1>5, <1>6, <1>8, <1>9, <1>10
<1>. QED
  BY <1>1, <1>7, <1>11, <1>12, Zenon DEF Answers, m, f

LEMMA ClientRequestAnswers ==
  ASSUME NEW h, NEW o, NEW from,
         h[o] \in RootType("OTClientRequest"), h[from] \in RootType("OTClientRequest")
  PROVE  Answers("OTClientRequest", h, o, from)
<1>. DEFINE T == ClientRequestType(MapFields(18, F3))
            m == h[o]
            f == h[from]
<1>1. RootType("OTClientRequest") = T /\ Written("OTClientRequest") = MapFields(18, F3)
  BY DEF RootType, Written
<1>2. F3 = FieldsOver(FieldsOver(F1))
  BY DEF F3, F2
<1>3. m \in T /\ f \in T
  BY <1>1
<1>4. m.class = "OTClientRequest" /\ f.class = "OTClientRequest"
  BY <1>3, ClientRequestMembers
<1>5. /\ OTClientRequest_New \in T /\ OTClientRequest_Construct(f) \in T /\ OTClientRequest_Clear(m) \in T
      /\ OTClientRequest_MergeFrom(m, f) \in T /\ OTClientRequest_CopyFrom(m, f) \in T
      /\ OTClientRequest_Swap(m, f) \in T
  BY <1>3, ClientRequestKept
<1>6. OTClientRequest_Accessors(m) \subseteq T
  BY <1>3, ClientRequestAccessed
<1>7. \A w \in Seq(MapFields(18, F3)) : Parsed(m, w) \in Readings(T)
  BY <1>2, <1>3, ClientRequestParsed
<1>8. /\ OTClientRequest_Serialize(m) \in Seq(MapFields(18, F3))
      /\ OTClientRequest_ByteSizeLong(m) = WireSize(OTClientRequest_Serialize(m))
  BY <1>2, <1>3, ClientRequestSizeIsLength
<1>. HIDE DEF T, m, f
<1>9. /\ New("OTClientRequest") = OTClientRequest_New
      /\ Accessors(m) = OTClientRequest_Accessors(m)
      /\ Exchanged(m, f) = OTClientRequest_Swap(m, f)
      /\ Serialized(h, m) = OTClientRequest_Serialize(m)
      /\ ByteSizeLong(h, m) = OTClientRequest_ByteSizeLong(m)
  BY <1>4 DEF New, Accessors, Exchanged, Serialized, ByteSizeLong
<1>10. /\ Destroy(h, o) = h
       /\ ClearAt(h, o) = [h EXCEPT ![o] = OTClientRequest_Clear(m)]
       /\ MergeAt(h, o, from) = [h EXCEPT ![o] = OTClientRequest_MergeFrom(m, f)]
       /\ CopyAt(h, o, from) = [h EXCEPT ![o] = OTClientRequest_CopyFrom(m, f)]
       /\ Construct(h, o, from) = [h EXCEPT ![o] = OTClientRequest_Construct(f)]
  BY <1>4 DEF Destroy, ClearAt, MergeAt, CopyAt, Construct, m, f
<1>11. /\ \E v \in T : ClearAt(h, o) = [h EXCEPT ![o] = v]
       /\ \E v \in T : MergeAt(h, o, from) = [h EXCEPT ![o] = v]
       /\ \E v \in T : CopyAt(h, o, from) = [h EXCEPT ![o] = v]
       /\ \E v \in T : Construct(h, o, from) = [h EXCEPT ![o] = v]
  BY <1>5, <1>10, Zenon
<1>12. /\ m.class = "OTClientRequest" /\ New("OTClientRequest") \in T /\ Accessors(m) \subseteq T
       /\ Exchanged(m, f) \in T /\ Destroy(h, o) = h
       /\ Serialized(h, m) \in Seq(MapFields(18, F3))
       /\ ByteSizeLong(h, m) = WireSize(Serialized(h, m))
  BY <1>4, <1>5, <1>6, <1>8, <1>9, <1>10
<1>. QED
  BY <1>1, <1>7, <1>11, <1>12, Zenon DEF Answers, m, f

LEMMA ClientResponseAnswers ==
  ASSUME NEW h, NEW o, NEW from,
         h[o] \in RootType("OTClientResponse"), h[from] \in RootType("OTClientResponse")
  PROVE  Answers("OTClientResponse", h, o, from)
<1>. DEFINE T == ClientResponseType(MapFields(26, F3))
            m == h[o]
            f == h[from]
<1>1. RootType("OTClientResponse") = T /\ Written("OTClientResponse") = MapFields(26, F3)
  BY DEF RootType, Written
<1>2. F3 = FieldsOver(FieldsOver(F1))
  BY DEF F3, F2
<1>3. m \in T /\ f \in T
  BY <1>1
<1>4. m.class = "OTClientResponse" /\ f.class = "OTClientResponse"
  BY <1>3, ClientResponseMembers
<1>5. /\ OTClientResponse_New \in T /\ OTClientResponse_Construct(f) \in T /\ OTClientResponse_Clear(m) \in T
      /\ OTClientResponse_MergeFrom(m, f) \in T /\ OTClientResponse_CopyFrom(m, f) \in T
      /\ OTClientResponse_Swap(m, f) \in T
  BY <1>3, ClientResponseKept
<1>6. OTClientResponse_Accessors(m) \subseteq T
  BY <1>3, ClientResponseAccessed
<1>7. \A w \in Seq(MapFields(26, F3)) : Parsed(m, w) \in Readings(T)
  BY <1>2, <1>3, ClientResponseParsed
<1>8. /\ OTClientResponse_Serialize(m) \in Seq(MapFields(26, F3))
      /\ OTClientResponse_ByteSizeLong(m) = WireSize(OTClientResponse_Serialize(m))
  BY <1>2, <1>3, ClientResponseSizeIsLength
<1>. HIDE DEF T, m, f
<1>9. /\ New("OTClientResponse") = OTClientResponse_New
      /\ Accessors(m) = OTClientResponse_Accessors(m)
      /\ Exchanged(m, f) = OTClientResponse_Swap(m, f)
      /\ Serialized(h, m) = OTClientResponse_Serialize(m)
      /\ ByteSizeLong(h, m) = OTClientResponse_ByteSizeLong(m)
  BY <1>4 DEF New, Accessors, Exchanged, Serialized, ByteSizeLong
<1>10. /\ Destroy(h, o) = h
       /\ ClearAt(h, o) = [h EXCEPT ![o] = OTClientResponse_Clear(m)]
       /\ MergeAt(h, o, from) = [h EXCEPT ![o] = OTClientResponse_MergeFrom(m, f)]
       /\ CopyAt(h, o, from) = [h EXCEPT ![o] = OTClientResponse_CopyFrom(m, f)]
       /\ Construct(h, o, from) = [h EXCEPT ![o] = OTClientResponse_Construct(f)]
  BY <1>4 DEF Destroy, ClearAt, MergeAt, CopyAt, Construct, m, f
<1>11. /\ \E v \in T : ClearAt(h, o) = [h EXCEPT ![o] = v]
       /\ \E v \in T : MergeAt(h, o, from) = [h EXCEPT ![o] = v]
       /\ \E v \in T : CopyAt(h, o, from) = [h EXCEPT ![o] = v]
       /\ \E v \in T : Construct(h, o, from) = [h EXCEPT ![o] = v]
  BY <1>5, <1>10, Zenon
<1>12. /\ m.class = "OTClientResponse" /\ New("OTClientResponse") \in T /\ Accessors(m) \subseteq T
       /\ Exchanged(m, f) \in T /\ Destroy(h, o) = h
       /\ Serialized(h, m) \in Seq(MapFields(26, F3))
       /\ ByteSizeLong(h, m) = WireSize(Serialized(h, m))
  BY <1>4, <1>5, <1>6, <1>8, <1>9, <1>10
<1>. QED
  BY <1>1, <1>7, <1>11, <1>12, Zenon DEF Answers, m, f

-----------------------------------------------------------------------------
\* What any class answers keeps the heap in order.

PlainClasses == {"Response", "Error", "OTServiceData", "Bytes", "Fields", "OTServerRequest",
                 "OTServerResponse", "OTClientRequest", "OTClientResponse"}

LEMMA ClassesKnown == P!Classes = PlainClasses \cup {SWrapper, CWrapper}
BY DEF P!Classes, P!Schema, PlainClasses, SWrapper, CWrapper

LEMMA PlainAnswers ==
  ASSUME NEW c \in PlainClasses, NEW h, NEW hd, HeapOK(c, h, hd), NEW o \in Roots, NEW from \in Roots
  PROVE  Answers(c, h, o, from) /\ Held(c) = {} /\ c \notin Wrappers
<1>1. h[o] \in RootType(c) /\ h[from] \in RootType(c)
  BY DEF HeapOK, Heaps
<1>2. Answers(c, h, o, from)
  <2>1. CASE c = "Response"         BY <1>1, <2>1, ResponseAnswers
  <2>2. CASE c = "Error"            BY <1>1, <2>2, ErrorAnswers
  <2>3. CASE c = "OTServiceData"    BY <1>1, <2>3, ServiceDataAnswers
  <2>4. CASE c = "Bytes"            BY <1>1, <2>4, BytesAnswers
  <2>5. CASE c = "Fields"           BY <1>1, <2>5, FieldsAnswers
  <2>6. CASE c = "OTServerRequest"  BY <1>1, <2>6, ServerRequestAnswers
  <2>7. CASE c = "OTServerResponse" BY <1>1, <2>7, ServerResponseAnswers
  <2>8. CASE c = "OTClientRequest"  BY <1>1, <2>8, ClientRequestAnswers
  <2>9. CASE c = "OTClientResponse" BY <1>1, <2>9, ClientResponseAnswers
  <2>. QED
    BY <2>1, <2>2, <2>3, <2>4, <2>5, <2>6, <2>7, <2>8, <2>9 DEF PlainClasses
<1>3. Held(c) = {} /\ c \notin Wrappers
  BY DEF Held, Wrappers, PlainClasses
<1>. QED
  BY <1>2, <1>3

LEMMA PlainSet ==
  ASSUME NEW c \in PlainClasses, NEW h, NEW hd, HeapOK(c, h, hd), NEW o \in Roots,
         NEW v \in RootType(c)
  PROVE  HeapOK(c, [h EXCEPT ![o] = v], hd)
<1>1. Held(c) = {}
  BY DEF Held, PlainClasses
<1>. QED
  BY <1>1, RootChanged

\* A message of its class on the stack.
LEMMA WrapperIs ==
  ASSUME NEW h, NEW hd, NEW o \in Roots
  PROVE  /\ HeapOK(SWrapper, h, hd) => h[o] \in ServerWrapperType /\ h[o].class = SWrapper
         /\ HeapOK(CWrapper, h, hd) => h[o] \in ClientWrapperType /\ h[o].class = CWrapper
BY ServerRoot, ServerWrapperMembers, ClientRoot, ClientWrapperMembers DEF SWrapper, CWrapper

LEMMA WrapperNews ==
  /\ New(SWrapper) \in ServerWrapperType /\ New(SWrapper).error = nullptr
  /\ New(SWrapper).result = nullptr
  /\ New(CWrapper) \in ClientWrapperType /\ New(CWrapper).error = nullptr
<1>1. New(SWrapper) = OTServerResponseWrapper_New /\ New(CWrapper) = OTClientResponseWrapper_New
  BY DEF New, SWrapper, CWrapper
<1>. QED
  BY <1>1 DEF OTServerResponseWrapper_New, OTClientResponseWrapper_New, ServerWrapperType,
              ClientWrapperType, nullptr

LEMMA ClearStays ==
  ASSUME NEW c \in P!Classes, NEW h, NEW hd, HeapOK(c, h, hd), NEW o \in Roots
  PROVE  HeapOK(c, ClearAt(h, o), hd)
<1>1. CASE c \in PlainClasses
  <2>1. PICK v \in RootType(c) : ClearAt(h, o) = [h EXCEPT ![o] = v]
    BY <1>1, PlainAnswers DEF Answers
  <2>2. HeapOK(c, [h EXCEPT ![o] = v], hd)
    BY <1>1, PlainSet
  <2>. QED
    BY <2>1, <2>2, Zenon
<1>2. CASE c = SWrapper
  <2>1. ClearAt(h, o) = OTServerResponseWrapper_Clear(h, o)
    BY <1>2, WrapperIs DEF ClearAt, SWrapper
  <2>. QED
    BY <1>2, <2>1, ServerCleared
<1>3. CASE c = CWrapper
  <2>1. ClearAt(h, o) = OTClientResponseWrapper_Clear(h, o)
    BY <1>3, WrapperIs DEF ClearAt, CWrapper
  <2>. QED
    BY <1>3, <2>1, ClientCleared
<1>. QED
  BY <1>1, <1>2, <1>3, ClassesKnown

LEMMA MergeStays ==
  ASSUME NEW c \in P!Classes, NEW h, NEW hd, HeapOK(c, h, hd), NEW o \in Roots, NEW from \in Roots
  PROVE  HeapOK(c, MergeAt(h, o, from), hd)
<1>1. CASE c \in PlainClasses
  <2>1. PICK v \in RootType(c) : MergeAt(h, o, from) = [h EXCEPT ![o] = v]
    BY <1>1, PlainAnswers DEF Answers
  <2>2. HeapOK(c, [h EXCEPT ![o] = v], hd)
    BY <1>1, PlainSet
  <2>. QED
    BY <2>1, <2>2, Zenon
<1>2. CASE c = SWrapper
  <2>1. MergeAt(h, o, from) = OTServerResponseWrapper_MergeFrom(h, o, from)
    BY <1>2, WrapperIs DEF MergeAt, SWrapper
  <2>. QED
    BY <1>2, <2>1, ServerMerged
<1>3. CASE c = CWrapper
  <2>1. MergeAt(h, o, from) = OTClientResponseWrapper_MergeFrom(h, o, from)
    BY <1>3, WrapperIs DEF MergeAt, CWrapper
  <2>. QED
    BY <1>3, <2>1, ClientMerged
<1>. QED
  BY <1>1, <1>2, <1>3, ClassesKnown

LEMMA CopyStays ==
  ASSUME NEW c \in P!Classes, NEW h, NEW hd, HeapOK(c, h, hd), NEW o \in Roots, NEW from \in Roots
  PROVE  HeapOK(c, CopyAt(h, o, from), hd)
<1>1. CASE c \in PlainClasses
  <2>1. PICK v \in RootType(c) : CopyAt(h, o, from) = [h EXCEPT ![o] = v]
    BY <1>1, PlainAnswers DEF Answers
  <2>2. HeapOK(c, [h EXCEPT ![o] = v], hd)
    BY <1>1, PlainSet
  <2>. QED
    BY <2>1, <2>2, Zenon
<1>2. CASE c = SWrapper
  <2>1. CopyAt(h, o, from) = OTServerResponseWrapper_CopyFrom(h, o, from)
    BY <1>2, WrapperIs DEF CopyAt, SWrapper
  <2>. QED
    BY <1>2, <2>1, WrappersCopied
<1>3. CASE c = CWrapper
  <2>1. CopyAt(h, o, from) = OTClientResponseWrapper_CopyFrom(h, o, from)
    BY <1>3, WrapperIs DEF CopyAt, CWrapper
  <2>. QED
    BY <1>3, <2>1, WrappersCopied
<1>. QED
  BY <1>1, <1>2, <1>3, ClassesKnown

LEMMA RenewStays ==
  ASSUME NEW c \in P!Classes, NEW h, NEW hd, HeapOK(c, h, hd), NEW o \in Roots
  PROVE  /\ HeapOK(c, [Destroy(h, o) EXCEPT ![o] = New(c)], hd)
         /\ [Destroy(h, o) EXCEPT ![o] = New(c)][o] = New(c)
<1>1. HeapOK(c, [Destroy(h, o) EXCEPT ![o] = New(c)], hd)
  <2>1. CASE c \in PlainClasses
    <3>1. Destroy(h, o) = h /\ New(c) \in RootType(c)
      BY <2>1, PlainAnswers DEF Answers
    <3>. QED
      BY <2>1, <3>1, PlainSet
  <2>2. CASE c = SWrapper
    <3>1. Destroy(h, o) = OTServerResponseWrapper_SharedDtor(h, o)
      BY <2>2, WrapperIs DEF Destroy, SWrapper
    <3>. QED
      BY <2>2, <3>1, ServerCleared, WrapperNews
  <2>3. CASE c = CWrapper
    <3>1. Destroy(h, o) = OTClientResponseWrapper_SharedDtor(h, o)
      BY <2>3, WrapperIs DEF Destroy, CWrapper
    <3>. QED
      BY <2>3, <3>1, ClientCleared, WrapperNews
  <2>. QED
    BY <2>1, <2>2, <2>3, ClassesKnown
<1>. DEFINE g == [Destroy(h, o) EXCEPT ![o] = New(c)]
<1>2. DOMAIN g = DOMAIN Destroy(h, o) /\ DOMAIN g = Roots \cup Addr
  BY <1>1 DEF HeapOK, Heaps
<1>3. g[o] = New(c)
  BY <1>2
<1>. QED
  BY <1>1, <1>3

LEMMA ConstructStays ==
  ASSUME NEW c \in P!Classes, NEW h, NEW hd, HeapOK(c, h, hd), NEW o \in Roots, NEW from \in Roots,
         h[o] = New(c)
  PROVE  HeapOK(c, Construct(h, o, from), hd)
<1>1. CASE c \in PlainClasses
  <2>1. PICK v \in RootType(c) : Construct(h, o, from) = [h EXCEPT ![o] = v]
    BY <1>1, PlainAnswers DEF Answers
  <2>2. HeapOK(c, [h EXCEPT ![o] = v], hd)
    BY <1>1, PlainSet
  <2>. QED
    BY <2>1, <2>2, Zenon
<1>2. CASE c = SWrapper
  <2>1. Construct(h, o, from) = OTServerResponseWrapper_Construct(h, o, from)
    BY <1>2, WrapperIs DEF Construct, SWrapper
  <2>. QED
    BY <1>2, <2>1, ServerConstructed, WrapperNews
<1>3. CASE c = CWrapper
  <2>1. Construct(h, o, from) = OTClientResponseWrapper_Construct(h, o, from)
    BY <1>3, WrapperIs DEF Construct, CWrapper
  <2>. QED
    BY <1>3, <2>1, ClientConstructed, WrapperNews
<1>. QED
  BY <1>1, <1>2, <1>3, ClassesKnown

LEMMA SwapStays ==
  ASSUME NEW c \in P!Classes, NEW h, NEW hd, HeapOK(c, h, hd), NEW o \in Roots, NEW q \in Roots,
         o # q
  PROVE  HeapOK(c, [h EXCEPT ![o] = Exchanged(h[o], h[q]), ![q] = Exchanged(h[q], h[o])], hd)
<1>1. ASSUME NEW r \in Roots, NEW s \in Roots
      PROVE  /\ Exchanged(h[r], h[s]) \in RootType(c)
             /\ \A x \in Held(c) : Exchanged(h[r], h[s])[x] = h[s][x]
  <2>1. CASE c \in PlainClasses
    BY <2>1, PlainAnswers DEF Answers
  <2>2. CASE c = SWrapper
    <3>1. Exchanged(h[r], h[s]) = OTServerResponseWrapper_Swap(h[r], h[s])
          /\ h[r] \in ServerWrapperType /\ h[s] \in ServerWrapperType
      BY <2>2, WrapperIs DEF Exchanged, SWrapper
    <3>. QED
      BY <2>2, <3>1, WrappersSwapped, WrapperClasses
  <2>3. CASE c = CWrapper
    <3>1. Exchanged(h[r], h[s]) = OTClientResponseWrapper_Swap(h[r], h[s])
          /\ h[r] \in ClientWrapperType /\ h[s] \in ClientWrapperType
      BY <2>3, WrapperIs DEF Exchanged, CWrapper
    <3>. QED
      BY <2>3, <3>1, WrappersSwapped, WrapperClasses
  <2>. QED
    BY <2>1, <2>2, <2>3, ClassesKnown
<1>. QED
  BY <1>1, PointersSwapped

LEMMA ParseIntoStays ==
  ASSUME NEW c \in P!Classes, NEW h, NEW hd, HeapOK(c, h, hd), NEW o \in Roots,
         NEW w \in Seq(Written(c))
  PROVE  HeapOK(c, ParseInto(h, o, w).heap, hd) /\ ParseInto(h, o, w).ok \in BOOLEAN
<1>. DEFINE g == ClearAt(h, o)
<1>1. HeapOK(c, g, hd)
  BY ClearStays
<1>. HIDE DEF g
<1>2. CASE c \in PlainClasses
  <2>1. Parsed(g[o], w) \in Readings(RootType(c)) /\ h[o].class \notin Wrappers
    BY <1>1, <1>2, PlainAnswers DEF Answers
  <2>2. Parsed(g[o], w).msg \in RootType(c) /\ Parsed(g[o], w).ok \in BOOLEAN
    BY <2>1 DEF Readings
  <2>3. /\ ParseInto(h, o, w).heap = [g EXCEPT ![o] = Parsed(g[o], w).msg]
        /\ ParseInto(h, o, w).ok = Parsed(g[o], w).ok
    BY <2>1 DEF ParseInto, g
  <2>. QED
    BY <1>1, <1>2, <2>2, <2>3, PlainSet
<1>3. CASE c \in {SWrapper, CWrapper}
  <2>1. h[o].class \in Wrappers
    BY <1>3, WrapperIs DEF Wrappers, SWrapper, CWrapper
  <2>2. ParseInto(h, o, w) = HeapParse(g, o, w)
    BY <2>1 DEF ParseInto, g
  <2>. QED
    BY <1>1, <1>3, <2>2, HeapParseStays
<1>. QED
  BY <1>2, <1>3, ClassesKnown

LEMMA ResultsStay ==
  ASSUME NEW m \in ClientWrapperType
  PROVE  OTClientResponseWrapper_Results(m) \subseteq Seq(ClientResponseType(MapFields(26, F2)))
<1>. DEFINE T == ClientResponseType(MapFields(26, F2))
<1>1. m.result \in Seq(T) /\ OTClientResponse_New \in T
  BY ClientWrapperMembers, NewSubs
<1>2. \A r \in T : OTClientResponse_Accessors(r) \subseteq T
  BY ClientResponseAccessed
<1>. HIDE DEF T
<1>. SUFFICES ASSUME NEW e \in OTClientResponseWrapper_Results(m)
              PROVE  e \in Seq(T)
  BY DEF T
<1>3. CASE e = <<>>
  BY <1>3
<1>4. CASE \E last \in DOMAIN m.result : e = SubSeq(m.result, 1, Len(m.result) - 1)
  BY <1>1, <1>4
<1>5. CASE \E r \in OTClientResponse_Accessors(OTClientResponse_New) : e \in Add(m.result, r)
  <2>1. PICK r \in T : e \in Add(m.result, r)
    BY <1>1, <1>2, <1>5
  <2>2. e = Append(m.result, r)
    BY <2>1 DEF Add
  <2>. QED
    BY <1>1, <2>2
<1>6. CASE \E i \in DOMAIN m.result : \E r \in OTClientResponse_Accessors(m.result[i]) :
             e = [m.result EXCEPT ![i] = r]
  <2>1. PICK i \in DOMAIN m.result :
          \E r \in OTClientResponse_Accessors(m.result[i]) : e = [m.result EXCEPT ![i] = r]
    BY <1>6
  <2>2. i \in 1..Len(m.result) /\ m.result[i] \in T
    BY <1>1
  <2>3. PICK r \in T : e = [m.result EXCEPT ![i] = r]
    BY <1>2, <2>1, <2>2
  <2>. QED
    BY <1>1, <2>2, <2>3
<1>. QED
  BY <1>3, <1>4, <1>5, <1>6 DEF OTClientResponseWrapper_Results

LEMMA AccessStays ==
  ASSUME NEW c \in P!Classes, NEW h, NEW hd, HeapOK(c, h, hd), NEW o \in Roots,
         NEW m \in Accessors(h[o])
  PROVE  HeapOK(c, [h EXCEPT ![o] = m], hd)
<1>1. CASE c \in PlainClasses
  <2>1. m \in RootType(c)
    BY <1>1, PlainAnswers DEF Answers
  <2>. QED
    BY <1>1, <2>1, PlainSet
<1>2. CASE c = SWrapper
  <2>1. Accessors(h[o]) = {}
    BY <1>2, WrapperIs DEF Accessors, SWrapper
  <2>. QED
    BY <2>1
<1>3. CASE c = CWrapper
  <2>1. h[o] \in ClientWrapperType /\ h[o].class = "OTClientResponseWrapper"
    BY <1>3, WrapperIs DEF CWrapper
  <2>2. Accessors(h[o]) = {[h[o] EXCEPT !.result = seq] : seq \in OTClientResponseWrapper_Results(h[o])}
    BY <2>1 DEF Accessors
  <2>3. PICK seq \in OTClientResponseWrapper_Results(h[o]) : m = [h[o] EXCEPT !.result = seq]
    BY <2>2
  <2>4. seq \in Seq(ClientResponseType(MapFields(26, F2)))
    BY <2>1, ResultsStay
  <2>5. m \in ClientWrapperType /\ m.error = h[o].error
    BY <2>1, <2>3, <2>4, ClientWrapperMembers, Zenon
  <2>6. m \in RootType(c) /\ \A x \in Held(c) : m[x] = h[o][x]
    BY <1>3, <2>5, WrapperClasses
  <2>. QED
    BY <2>6, RootChanged
<1>. QED
  BY <1>1, <1>2, <1>3, ClassesKnown

-----------------------------------------------------------------------------
\* The wires of the wrappers.

ErrorWire(h, p) ==
  IF p = nullptr THEN <<>> ELSE <<Message(10, Error_Serialize(h[p]), Error_ByteSizeLong(h[p]))>>
ErrorSize(h, p) ==
  IF p = nullptr THEN 0 ELSE 1 + MessageSize(Error_ByteSizeLong(h[p]))
ResultWire(h, p) ==
  IF p = nullptr THEN <<>>
  ELSE <<Message(18, OTServerResponse_Serialize(h[p]), OTServerResponse_ByteSizeLong(h[p]))>>
ResultSize(h, p) ==
  IF p = nullptr THEN 0 ELSE 1 + MessageSize(OTServerResponse_ByteSizeLong(h[p]))
ResultsWire(seq) ==
  Each(LAMBDA r : Message(18, OTClientResponse_Serialize(r), OTClientResponse_ByteSizeLong(r)), seq)
ResultsSize(seq) == SumOf(LAMBDA r : MessageSize(OTClientResponse_ByteSizeLong(r)), seq)

LEMMA ErrorPart ==
  ASSUME NEW h, NEW p, p # nullptr => h[p] \in ErrorType(F2)
  PROVE  /\ ErrorWire(h, p) \in Seq(F3) /\ ErrorWire(h, p) \in Seq(Written(CWrapper))
         /\ ErrorSize(h, p) \in Nat /\ WireSize(ErrorWire(h, p)) = ErrorSize(h, p)
<1>. DEFINE w == Error_Serialize(h[p])
            len == Error_ByteSizeLong(h[p])
<1>1. CASE p = nullptr
  BY <1>1, WireSizeEmpty DEF ErrorWire, ErrorSize
<1>2. CASE p # nullptr
  <2>1. w \in Seq(F2) /\ len \in Nat
    BY <1>2, ErrorSizeIsLength DEF F2
  <2>. HIDE DEF w, len
  <2>2. Message(10, w, len) \in F3 /\ FieldSize(Message(10, w, len)) = 1 + MessageSize(len)
    BY <2>1, FieldsMade, FieldsMadeSize DEF F3, MessageSize
  <2>3. Message(10, w, len) \in Written(CWrapper)
    <3>1. Message(10, w, len).tag = 10
      BY DEF Message, Blank
    <3>. QED
      BY <2>2, <3>1 DEF Written, CWrapper
  <2>4. WireSize(<<Message(10, w, len)>>) = 1 + MessageSize(len) /\ MessageSize(len) \in Nat
    BY <2>1, <2>2, WireSizeOfOne, DelimitedType DEF F3, MessageSize
  <2>5. ErrorWire(h, p) = <<Message(10, w, len)>> /\ ErrorSize(h, p) = 1 + MessageSize(len)
    BY <1>2 DEF ErrorWire, ErrorSize, w, len
  <2>. QED
    BY <2>2, <2>3, <2>4, <2>5
<1>. QED
  BY <1>1, <1>2

LEMMA ResultPart ==
  ASSUME NEW h, NEW p, p # nullptr => h[p] \in ServerResponseType(F2, F1)
  PROVE  /\ ResultWire(h, p) \in Seq(F3)
         /\ ResultSize(h, p) \in Nat /\ WireSize(ResultWire(h, p)) = ResultSize(h, p)
<1>. DEFINE w == OTServerResponse_Serialize(h[p])
            len == OTServerResponse_ByteSizeLong(h[p])
<1>1. CASE p = nullptr
  BY <1>1, WireSizeEmpty DEF ResultWire, ResultSize
<1>2. CASE p # nullptr
  <2>1. w \in Seq(F2) /\ len \in Nat
    BY <1>2, ServerResponseSizeIsLength DEF F2, F1
  <2>. HIDE DEF w, len
  <2>2. Message(18, w, len) \in F3 /\ FieldSize(Message(18, w, len)) = 1 + MessageSize(len)
    BY <2>1, FieldsMade, FieldsMadeSize DEF F3, MessageSize
  <2>3. WireSize(<<Message(18, w, len)>>) = 1 + MessageSize(len) /\ MessageSize(len) \in Nat
    BY <2>1, <2>2, WireSizeOfOne, DelimitedType DEF F3, MessageSize
  <2>4. ResultWire(h, p) = <<Message(18, w, len)>> /\ ResultSize(h, p) = 1 + MessageSize(len)
    BY <1>2 DEF ResultWire, ResultSize, w, len
  <2>. QED
    BY <2>2, <2>3, <2>4
<1>. QED
  BY <1>1, <1>2

LEMMA ResultsPart ==
  ASSUME NEW seq \in Seq(ClientResponseType(MapFields(26, F2)))
  PROVE  /\ ResultsWire(seq) \in Seq(Written(CWrapper))
         /\ ResultsSize(seq) \in Nat /\ Len(seq) \in Nat
         /\ WireSize(ResultsWire(seq)) = Len(seq) + ResultsSize(seq)
<1>. DEFINE one(r) == Message(18, OTClientResponse_Serialize(r), OTClientResponse_ByteSizeLong(r))
            size(r) == MessageSize(OTClientResponse_ByteSizeLong(r))
            w == [i \in 1..Len(seq) |-> one(seq[i])]
            ns == [i \in 1..Len(seq) |-> size(seq[i])]
<1>. HIDE DEF one, size, w, ns
<1>1. ASSUME NEW i \in 1..Len(seq)
      PROVE  /\ one(seq[i]) \in Written(CWrapper) /\ one(seq[i]) \in F3 /\ size(seq[i]) \in Nat
             /\ FieldSize(one(seq[i])) = 1 + size(seq[i])
  <2>. DEFINE v == OTClientResponse_Serialize(seq[i])
              len == OTClientResponse_ByteSizeLong(seq[i])
  <2>1. seq[i] \in ClientResponseType(MapFields(26, F2))
    OBVIOUS
  <2>2. v \in Seq(MapFields(26, F2)) /\ len \in Nat
    BY <2>1, ClientResponseSizeIsLength DEF F2, F1
  <2>. HIDE DEF v, len
  <2>3. v \in Seq(F2)
    BY <2>2, SeqOfMore DEF MapFields
  <2>4. /\ Message(18, v, len) \in F3
        /\ FieldSize(Message(18, v, len)) = 1 + MessageSize(len)
        /\ MessageSize(len) \in Nat
    <3>1. Message(18, v, len) \in F3
      BY <2>2, <2>3, FieldsMade DEF F3
    <3>2. FieldSize(Message(18, v, len)) = 1 + MessageSize(len)
      BY FieldsMadeSize DEF MessageSize
    <3>3. MessageSize(len) \in Nat
      BY <2>2, DelimitedType DEF MessageSize
    <3>. QED
      BY <3>1, <3>2, <3>3
  <2>5. Message(18, v, len) \in Written(CWrapper)
    <3>1. Message(18, v, len).sub = v
      BY DEF Message, Blank
    <3>. DEFINE f == Message(18, v, len)
    <3>2. f \in F3 /\ f.sub \in Seq(MapFields(26, F2))
      BY <2>2, <2>4, <3>1
    <3>. HIDE DEF f
    <3>3. Written(CWrapper) = {x \in F3 : x.tag = 18 => x.sub \in Seq(MapFields(26, F2))}
      BY DEF Written, CWrapper
    <3>4. f \in Written(CWrapper)
      BY <3>2, <3>3
    <3>. QED
      BY <3>4 DEF f
  <2>. QED
    BY <2>4, <2>5 DEF v, len, one, size
<1>. USE DEF w, ns
<1>2. w \in Seq(Written(CWrapper)) /\ w \in Seq(F3) /\ ns \in Seq(Nat) /\ ns \in Seq(Int)
      /\ Len(w) = Len(seq) /\ Len(ns) = Len(seq) /\ Len(seq) \in Nat
  BY <1>1
<1>3. ASSUME NEW i \in 1..Len(w) PROVE FieldSize(w[i]) = 1 + ns[i]
  BY <1>1, <1>2
<1>4. ResultsWire(seq) = w /\ ResultsSize(seq) = Total(ns)
  BY Zenon DEF ResultsWire, ResultsSize, Each, SumOf, one, size
<1>. HIDE DEF w, ns
<1>5. w \in Seq(FieldsOver(F2))
  BY <1>2 DEF F3
<1>. QED
  BY <1>2, <1>3, <1>4, <1>5, PartsSize, TotalIsNat

LEMMA ServerWrapperSizeIsLength ==
  ASSUME NEW h, NEW hd, HeapOK(SWrapper, h, hd), NEW o \in Roots
  PROVE  /\ OTServerResponseWrapper_Serialize(h, h[o]) \in Seq(F3)
         /\ OTServerResponseWrapper_ByteSizeLong(h, h[o])
              = WireSize(OTServerResponseWrapper_Serialize(h, h[o]))
<1>. DEFINE m == h[o]
            e == ErrorWire(h, m.error)
            r == ResultWire(h, m.result)
<1>1. e \in Seq(F3) /\ ErrorSize(h, m.error) \in Nat /\ WireSize(e) = ErrorSize(h, m.error)
  BY ServerRoot, ErrorPart
<1>2. r \in Seq(F3) /\ ResultSize(h, m.result) \in Nat /\ WireSize(r) = ResultSize(h, m.result)
  BY ServerRoot, ResultPart
<1>3. m.unknown \in Seq(F3)
  BY ServerRoot, ServerWrapperMembers
<1>4. /\ OTServerResponseWrapper_Serialize(h, m) = (e \o r) \o m.unknown
      /\ OTServerResponseWrapper_ByteSizeLong(h, m) =
           ErrorSize(h, m.error) + ResultSize(h, m.result) + WireSize(m.unknown)
  BY Zenon DEF OTServerResponseWrapper_Serialize, OTServerResponseWrapper_ByteSizeLong,
               ErrorWire, ErrorSize, ResultWire, ResultSize
<1>. HIDE DEF m, e, r
<1>5. e \o r \in Seq(F3) /\ (e \o r) \o m.unknown \in Seq(F3)
  BY <1>1, <1>2, <1>3, ConcatStays
<1>6. /\ WireSize(e \o r) = WireSize(e) + WireSize(r)
      /\ WireSize((e \o r) \o m.unknown) = WireSize(e \o r) + WireSize(m.unknown)
  BY <1>1, <1>2, <1>3, <1>5, WireSizeConcat DEF F3
<1>. QED
  BY <1>1, <1>2, <1>4, <1>5, <1>6 DEF m

LEMMA ClientWrapperSizeIsLength ==
  ASSUME NEW h, NEW hd, HeapOK(CWrapper, h, hd), NEW o \in Roots
  PROVE  /\ OTClientResponseWrapper_Serialize(h, h[o]) \in Seq(Written(CWrapper))
         /\ OTClientResponseWrapper_ByteSizeLong(h, h[o])
              = WireSize(OTClientResponseWrapper_Serialize(h, h[o]))
<1>. DEFINE m == h[o]
            W == Written(CWrapper)
            e == ErrorWire(h, m.error)
            r == ResultsWire(m.result)
<1>1. e \in Seq(W) /\ ErrorSize(h, m.error) \in Nat /\ WireSize(e) = ErrorSize(h, m.error)
  BY ClientRoot, ErrorPart
<1>2. /\ r \in Seq(W) /\ ResultsSize(m.result) \in Nat /\ Len(m.result) \in Nat
      /\ WireSize(r) = Len(m.result) + ResultsSize(m.result)
  BY ClientRoot, ClientWrapperMembers, ResultsPart
<1>3. m.unknown \in Seq(W)
  BY ClientRoot, ClientWrapperMembers DEF CWrapper
<1>4. /\ OTClientResponseWrapper_Serialize(h, m) = (e \o r) \o m.unknown
      /\ OTClientResponseWrapper_ByteSizeLong(h, m) =
           Len(m.result) + ResultsSize(m.result) + ErrorSize(h, m.error) + WireSize(m.unknown)
  BY Zenon DEF OTClientResponseWrapper_Serialize, OTClientResponseWrapper_ByteSizeLong,
               ErrorWire, ErrorSize, ResultsWire, ResultsSize
<1>5. W \subseteq FieldsOver(F2)
  BY WrapperClasses DEF F3
<1>. HIDE DEF m, e, r, W
<1>6. e \o r \in Seq(W) /\ (e \o r) \o m.unknown \in Seq(W)
  BY <1>1, <1>2, <1>3, ConcatStays
<1>7. /\ e \in Seq(FieldsOver(F2)) /\ r \in Seq(FieldsOver(F2)) /\ e \o r \in Seq(FieldsOver(F2))
      /\ m.unknown \in Seq(FieldsOver(F2))
  BY <1>1, <1>2, <1>3, <1>5, <1>6, SeqOfMore
<1>8. /\ WireSize(e \o r) = WireSize(e) + WireSize(r)
      /\ WireSize((e \o r) \o m.unknown) = WireSize(e \o r) + WireSize(m.unknown)
  BY <1>7, WireSizeConcat
<1>9. WireSize(m.unknown) \in Nat
  BY <1>7, WireSizeType
<1>. QED
  BY <1>1, <1>2, <1>4, <1>6, <1>8, <1>9 DEF m, W

\* Of every class: the wire is of the fields the class reads, and as long as ByteSizeLong says.
LEMMA SerializeStays ==
  ASSUME NEW c \in P!Classes, NEW h, NEW hd, HeapOK(c, h, hd), NEW o \in Roots
  PROVE  /\ Serialized(h, h[o]) \in Seq(Written(c))
         /\ ByteSizeLong(h, h[o]) = WireSize(Serialized(h, h[o]))
<1>1. CASE c \in PlainClasses
  BY <1>1, PlainAnswers DEF Answers
<1>2. CASE c = SWrapper
  <2>1. /\ Serialized(h, h[o]) = OTServerResponseWrapper_Serialize(h, h[o])
        /\ ByteSizeLong(h, h[o]) = OTServerResponseWrapper_ByteSizeLong(h, h[o])
    BY <1>2, WrapperIs DEF Serialized, ByteSizeLong, SWrapper
  <2>. QED
    BY <1>2, <2>1, ServerWrapperSizeIsLength, WrapperClasses
<1>3. CASE c = CWrapper
  <2>1. /\ Serialized(h, h[o]) = OTClientResponseWrapper_Serialize(h, h[o])
        /\ ByteSizeLong(h, h[o]) = OTClientResponseWrapper_ByteSizeLong(h, h[o])
    BY <1>3, WrapperIs DEF Serialized, ByteSizeLong, CWrapper
  <2>. QED
    BY <1>3, <2>1, ClientWrapperSizeIsLength
<1>. QED
  BY <1>1, <1>2, <1>3, ClassesKnown

-----------------------------------------------------------------------------
\* What arrives.

LEMMA WrittenKnown ==
  ASSUME NEW c \in P!Classes
  PROVE  /\ Written(c) \subseteq F3
         /\ ExtraFields \subseteq Written(c)
         /\ Torn \in Written(c)
         /\ \A s \in Seq(Int) : String(10, s) \in Written(c) \/ c = "Fields"
<1>1. Written(c) \subseteq F3
  BY DEF Written, MapFields
<1>2. ASSUME NEW f \in F3, f.tag \notin {10, 18, 26}
      PROVE  f \in Written(c)
  BY <1>2 DEF Written, MapFields
<1>3. Torn \in F3 /\ Torn.tag = 122
  <2>1. Torn \in F3
    <3>1. <<>> \in Seq(F2)
      OBVIOUS
    <3>. QED
      BY <3>1, FieldsMade DEF Torn, F3
  <2>. QED
    BY <2>1 DEF Torn, Message, Blank
<1>4. ASSUME NEW f \in ExtraFields PROVE f \in F3 /\ f.tag \notin {10, 18, 26}
  <2>1. <<>> \in Seq(F2)
    OBVIOUS
  <2>. QED
    BY <2>1, ExtraFieldsAssumption DEF F3, FieldsOver
<1>5. ASSUME NEW s \in Seq(Int), c # "Fields"
      PROVE  String(10, s) \in Written(c)
  <2>1. String(10, s) \in F3
    BY FieldsMade DEF F3
  <2>2. String(10, s).tag = 10
    BY DEF String, Blank
  <2>. QED
    BY <1>5, <2>1, <2>2 DEF Written, MapFields
<1>. QED
  BY <1>1, <1>2, <1>3, <1>4, <1>5

LEMMA SentStays ==
  ASSUME kind \in P!Classes, HeapOK(kind, heap, hand), NEW from \in Senders
  PROVE  Sent(from) \in Seq(Written(kind))
<1>1. from[1] \in Roots /\ (Len(from) # 1 => from[2] \in Roots)
  BY DEF Senders
<1>2. \A r \in Roots : Serialized(heap, heap[r]) \in Seq(Written(kind))
  BY SerializeStays
<1>. QED
  BY <1>1, <1>2, ConcatStays DEF Sent

\* What a peer with an older schema writes again of what it read.
LEMMA OlderWrites ==
  ASSUME NEW c \in P!Classes, OlderClass(c) # c, NEW w \in Seq(Written(c)), NEW h
  PROVE  Serialized(h, Parsed(New(OlderClass(c)), w).msg) \in Seq(Written(c))
<1>. DEFINE old == Parsed(New(OlderClass(c)), w).msg
<1>1. CASE c = "Response"
  <2>1. New(OlderClass(c)) \in ErrorType(F3) /\ Written(c) = F3
    BY <1>1 DEF OlderClass, New, Error_New, ErrorType, Written
  <2>2. old \in ErrorType(F3)
    BY <2>1, ErrorParsed DEF F3, Readings
  <2>. HIDE DEF old
  <2>3. Serialized(h, old) = Error_Serialize(old)
    BY <2>2, ErrorMembers DEF Serialized
  <2>4. Error_Serialize(old) \in Seq(F3)
    BY <2>2, ErrorSizeIsLength DEF F3
  <2>. QED
    BY <2>1, <2>3, <2>4 DEF old
<1>2. CASE c \in {"OTServerRequest", "OTServerResponse", "OTClientRequest", "OTClientResponse"}
  <2>. DEFINE U == Written(c)
  <2>1. OlderClass(c) = "OTServiceData"
    BY <1>2 DEF OlderClass
  <2>2. New("OTServiceData") \in ServiceDataType(U)
    BY DEF New, OTServiceData_New, ServiceDataType
  <2>3. U \subseteq FieldsOver(F2) /\ \A s \in Seq(Int) : String(10, s) \in U
    BY <1>2, WrittenKnown DEF F3
  <2>. HIDE DEF U
  <2>4. old \in ServiceDataType(U)
    BY <2>1, <2>2, <2>3, ServiceDataParsed DEF Readings, U
  <2>. HIDE DEF old
  <2>5. Serialized(h, old) = OTServiceData_Serialize(old)
    BY <2>4, ServiceDataMembers DEF Serialized
  <2>6. OTServiceData_Serialize(old) \in Seq(U)
    BY <2>3, <2>4, ServiceDataSizeIsLength
  <2>. QED
    BY <2>5, <2>6 DEF old, U
<1>. QED
  BY <1>1, <1>2 DEF OlderClass

LEMMA ArrivingStays ==
  ASSUME kind \in P!Classes, NEW w \in Seq(Written(kind))
  PROVE  Arriving(w) \subseteq Seq(Written(kind))
<1>. DEFINE U == Written(kind)
            older == Parsed(New(OlderClass(kind)), w)
<1>. SUFFICES ASSUME NEW v \in Arriving(w) PROVE v \in Seq(U)
  OBVIOUS
<1>1. Torn \in U /\ ExtraFields \subseteq U
  BY WrittenKnown
<1>2. OlderClass(kind) # kind => Serialized(heap, older.msg) \in Seq(U)
  BY OlderWrites
<1>3. w \in Seq(U)
  OBVIOUS
<1>4. v \in {w} \cup {Front(w) : cut \in {w} \ {<<>>}}
           \cup {Append(Front(w), Torn) : cut \in {w} \ {<<>>}}
           \cup {Append(w, f) : f \in ExtraFields}
           \cup {Serialized(heap, older.msg) :
                   aged \in {c \in {OlderClass(kind)} \ {kind} : older.ok}}
  BY Zenon DEF Arriving
<1>. HIDE DEF U, older
<1>5. w # <<>> => Front(w) \in Seq(U)
  BY <1>3 DEF Front
<1>6. CASE v = w
  BY <1>3, <1>6
<1>7. CASE w # <<>> /\ v = Front(w)
  BY <1>5, <1>7
<1>8. CASE w # <<>> /\ v = Append(Front(w), Torn)
  BY <1>1, <1>5, <1>8
<1>9. CASE \E f \in ExtraFields : v = Append(w, f)
  BY <1>1, <1>3, <1>9
<1>10. CASE OlderClass(kind) # kind /\ v = Serialized(heap, older.msg)
  BY <1>2, <1>10
<1>. QED
  BY <1>4, <1>6, <1>7, <1>8, <1>9, <1>10

-----------------------------------------------------------------------------
\* The invariant is inductive.

LEMMA NewIsEmpty ==
  ASSUME NEW c \in P!Classes
  PROVE  New(c) \in RootType(c) /\ \A x \in Held(c) : New(c)[x] = nullptr
<1>1. <<>> \in Seq(Int) /\ \A X : <<>> \in Seq(X)
  OBVIOUS
<1>2. CASE c = "Response"
  BY <1>1, <1>2 DEF New, RootType, Held, Response_New, ResponseType
<1>3. CASE c = "Error"
  BY <1>1, <1>3 DEF New, RootType, Held, Error_New, ErrorType
<1>4. CASE c = "OTServiceData"
  BY <1>1, <1>4 DEF New, RootType, Held, OTServiceData_New, ServiceDataType
<1>5. CASE c = "Bytes"
  BY <1>1, <1>5 DEF New, RootType, Held, Bytes_New, BytesType
<1>6. CASE c = "Fields"
  BY <1>1, <1>6, MapsNone DEF New, RootType, Held, Fields_New, FieldsType
<1>7. CASE c = "OTServerRequest"
  BY <1>1, <1>7 DEF New, RootType, Held, OTServerRequest_New, ServerRequestType
<1>8. CASE c = "OTServerResponse"
  BY <1>1, <1>8 DEF New, RootType, Held, OTServerResponse_New, ServerResponseType
<1>9. CASE c = "OTClientRequest"
  BY <1>1, <1>9, MapsNone DEF New, RootType, Held, OTClientRequest_New, ClientRequestType
<1>10. CASE c = "OTClientResponse"
  BY <1>1, <1>10, MapsNone DEF New, RootType, Held, OTClientResponse_New, ClientResponseType
<1>11. CASE c = SWrapper
  BY <1>11, WrapperNews, WrapperClasses
<1>12. CASE c = CWrapper
  BY <1>12, WrapperNews, WrapperClasses
<1>. QED
  BY <1>2, <1>3, <1>4, <1>5, <1>6, <1>7, <1>8, <1>9, <1>10, <1>11, <1>12, ClassesKnown DEF PlainClasses

LEMMA InitHolds == Init => IInv
<1>. SUFFICES ASSUME Init PROVE IInv
  OBVIOUS
<1>1. kind \in P!Classes /\ hand = nullptr
  BY KindsAssumption DEF Init
<1>2. /\ heap \in [Roots \cup Addr -> RootType(kind) \cup CellType]
      /\ \A o \in Roots : heap[o] = New(kind)
      /\ \A a \in Addr : heap[a] = Free
  BY <1>1, NewIsEmpty, NullIsNoAddress DEF Init, CellType
<1>3. heap \in Heaps(kind)
  BY <1>1, <1>2, NewIsEmpty DEF Heaps, CellType
<1>4. \A o \in Roots, x \in Held(kind) : heap[o][x] = nullptr
  BY <1>1, <1>2, NewIsEmpty
<1>5. PointersOK(kind, heap) /\ HandOK(kind, heap, hand) /\ AllOwned(kind, heap, hand)
  BY <1>1, <1>2, <1>4 DEF PointersOK, HandOK, AllOwned
<1>6. HeapOK(kind, heap, hand)
  BY <1>3, <1>5 DEF HeapOK
<1>. QED
  BY <1>6, BoundsAssumption DEF Init, IInv

\* An accessor of a submessage.
LEMMA MutateStays ==
  ASSUME NEW c, NEW h, NEW hd, HeapOK(c, h, hd), NEW o \in Roots, NEW x \in Held(c),
         h[o][x] # nullptr, NEW m \in Accessors(h[h[o][x]])
  PROVE  HeapOK(c, [h EXCEPT ![h[o][x]] = m], hd)
<1>. DEFINE s == h[h[o][x]]
<1>1. s \in SubType(x)
  BY DEF HeapOK, PointersOK
<1>2. x \in {"error", "result"}
  BY HeldClasses
<1>3. CASE x = "error"
  <2>1. s \in ErrorType(F2) /\ s.class = "Error"
    BY <1>1, <1>3, HeldClasses
  <2>2. Accessors(s) = Error_Accessors(s)
    BY <2>1 DEF Accessors
  <2>3. m \in SubType(x)
    BY <1>3, <2>1, <2>2, ErrorAccessed, HeldClasses
  <2>. QED
    BY <2>3, SubChanged
<1>4. CASE x = "result"
  <2>1. s \in ServerResponseType(F2, F1) /\ s.class = "OTServerResponse"
    BY <1>1, <1>4, HeldClasses
  <2>2. Accessors(s) = OTServerResponse_Accessors(s)
    BY <2>1 DEF Accessors
  <2>3. m \in SubType(x)
    BY <1>4, <2>1, <2>2, ServerResponseAccessed, HeldClasses
  <2>. QED
    BY <2>3, SubChanged
<1>. QED
  BY <1>2, <1>3, <1>4

\* Every call of an accessor keeps the heap in order.
LEMMA AccessorStep ==
  ASSUME IInv, NEW o \in Roots,
         \/ Access(o) \/ MutableError(o) \/ MutableResult(o)
         \/ ClearSub(o) \/ Release(o) \/ SetAllocated(o)
  PROVE  HeapOK(kind, heap', hand')
<1>1. kind \in P!Classes /\ HeapOK(kind, heap, hand)
  BY KindsAssumption DEF IInv
<1>2. CASE Access(o)
  <2>1. PICK m \in Accessors(heap[o]) : heap' = [heap EXCEPT ![o] = m]
    BY <1>2 DEF Access
  <2>2. HeapOK(kind, [heap EXCEPT ![o] = m], hand)
    BY <1>1, AccessStays
  <2>3. hand' = hand
    BY <1>2 DEF Access
  <2>. QED
    BY <2>1, <2>2, <2>3, Zenon
<1>3. ASSUME NEW h, HeapOK(kind, h, hand), NEW x \in Held(kind), h[o][x] # nullptr, Mutate(h, o, x)
      PROVE  HeapOK(kind, heap', hand')
  <2>1. PICK m \in Accessors(h[h[o][x]]) : heap' = [h EXCEPT ![h[o][x]] = m]
    BY <1>3 DEF Mutate
  <2>2. HeapOK(kind, [h EXCEPT ![h[o][x]] = m], hand)
    BY <1>3, MutateStays
  <2>3. hand' = hand
    BY <1>3 DEF Mutate
  <2>. QED
    BY <2>1, <2>2, <2>3, Zenon
<1>4. CASE MutableError(o)
  <2>1. CASE kind = SWrapper
    <3>. DEFINE h == OTServerResponseWrapper_mutable_error(heap, o)
    <3>1. HeapOK(kind, h, hand) /\ h[o].error # nullptr /\ "error" \in Held(kind)
      BY <1>1, <2>1, ServerMutable, WrapperClasses
    <3>2. Mutate(h, o, "error")
      BY <1>4, <2>1 DEF MutableError, SWrapper
    <3>. HIDE DEF h
    <3>. QED
      BY <1>3, <3>1, <3>2
  <2>2. CASE kind = CWrapper
    <3>. DEFINE h == OTClientResponseWrapper_mutable_error(heap, o)
    <3>1. HeapOK(kind, h, hand) /\ h[o].error # nullptr /\ "error" \in Held(kind)
      BY <1>1, <2>2, ClientMutable, WrapperClasses
    <3>2. Mutate(h, o, "error")
      BY <1>4, <2>2 DEF MutableError, CWrapper
    <3>. HIDE DEF h
    <3>. QED
      BY <1>3, <3>1, <3>2
  <2>. QED
    BY <1>4, <2>1, <2>2 DEF MutableError, SWrapper, CWrapper
<1>5. CASE MutableResult(o)
  <2>. DEFINE h == OTServerResponseWrapper_mutable_result(heap, o)
  <2>1. kind = SWrapper /\ Mutate(h, o, "result")
    BY <1>5 DEF MutableResult, SWrapper
  <2>2. HeapOK(kind, h, hand) /\ h[o].result # nullptr /\ "result" \in Held(kind)
    BY <1>1, <2>1, ServerMutable, WrapperClasses
  <2>. HIDE DEF h
  <2>. QED
    BY <1>3, <2>1, <2>2
<1>6. CASE ClearSub(o)
  BY <1>1, <1>6, ServerCleared, ClientCleared DEF ClearSub, SWrapper, CWrapper
<1>7. CASE Release(o)
  <2>1. CASE kind = SWrapper
    BY <1>1, <1>7, <2>1, Released DEF Release, SWrapper
  <2>2. CASE kind = CWrapper
    BY <1>1, <1>7, <2>2, Released DEF Release, CWrapper
  <2>. QED
    BY <1>7, <2>1, <2>2 DEF Release, SWrapper, CWrapper
<1>8. CASE SetAllocated(o)
  <2>1. CASE kind = SWrapper
    BY <1>1, <1>8, <2>1, ServerAttached DEF SetAllocated, SWrapper
  <2>2. CASE kind = CWrapper
    BY <1>1, <1>8, <2>2, ClientAttached DEF SetAllocated, CWrapper
  <2>. QED
    BY <1>8, <2>1, <2>2 DEF SetAllocated, SWrapper, CWrapper
<1>. QED
  BY <1>2, <1>4, <1>5, <1>6, <1>7, <1>8

\* So does every operation on whole messages.
LEMMA MessageStep ==
  ASSUME IInv, NEW o \in Roots
  PROVE  /\ ClearMessage(o) \/ Renew(o) => HeapOK(kind, heap', hand')
         /\ \A other \in Roots \ {o} :
              CopyConstruct(o, other) \/ CopyAssign(o, other) \/ MergeFrom(o, other)
                \/ SwapMessages(o, other) => HeapOK(kind, heap', hand')
         /\ \A from \in Senders : Transfer(o, from) => HeapOK(kind, heap', hand')
<1>1. kind \in P!Classes /\ HeapOK(kind, heap, hand)
  BY KindsAssumption DEF IInv
<1>2. ASSUME ClearMessage(o) PROVE HeapOK(kind, heap', hand')
  BY <1>1, <1>2, ClearStays DEF ClearMessage
<1>3. ASSUME Renew(o) PROVE HeapOK(kind, heap', hand')
  BY <1>1, <1>3, RenewStays, Zenon DEF Renew
<1>4. ASSUME NEW other \in Roots \ {o}, CopyConstruct(o, other) PROVE HeapOK(kind, heap', hand')
  <2>. DEFINE g == [Destroy(heap, o) EXCEPT ![o] = New(kind)]
  <2>1. HeapOK(kind, g, hand) /\ g[o] = New(kind)
    BY <1>1, RenewStays
  <2>2. heap' = Construct(g, o, other) /\ hand' = hand
    BY <1>4 DEF CopyConstruct
  <2>. HIDE DEF g
  <2>. QED
    BY <1>1, <2>1, <2>2, ConstructStays
<1>5. ASSUME NEW other \in Roots \ {o}, CopyAssign(o, other) PROVE HeapOK(kind, heap', hand')
  BY <1>1, <1>5, CopyStays DEF CopyAssign
<1>6. ASSUME NEW other \in Roots \ {o}, MergeFrom(o, other) PROVE HeapOK(kind, heap', hand')
  BY <1>1, <1>6, MergeStays DEF MergeFrom
<1>7. ASSUME NEW other \in Roots \ {o}, SwapMessages(o, other) PROVE HeapOK(kind, heap', hand')
  BY <1>1, <1>7, SwapStays, Zenon DEF SwapMessages
<1>8. ASSUME NEW from \in Senders, Transfer(o, from) PROVE HeapOK(kind, heap', hand')
  <2>1. PICK w \in Arriving(Sent(from)) : heap' = ParseInto(heap, o, w).heap
    BY <1>8 DEF Transfer
  <2>2. w \in Seq(Written(kind))
    BY <1>1, <2>1, SentStays, ArrivingStays
  <2>3. hand' = hand
    BY <1>8 DEF Transfer
  <2>. QED
    BY <1>1, <2>1, <2>2, <2>3, ParseIntoStays
<1>. QED
  BY <1>2, <1>3, <1>4, <1>5, <1>6, <1>7, <1>8

LEMMA ReleasedDeleted ==
  ASSUME IInv, DeleteReleased
  PROVE  HeapOK(kind, heap', hand')
<1>1. hand # nullptr /\ heap' = Delete(heap, hand) /\ hand' = nullptr
  BY DEF DeleteReleased
<1>2. heap' = [heap EXCEPT ![hand] = Free]
  BY <1>1 DEF Delete
<1>3. HeapOK(kind, [heap EXCEPT ![hand] = Free], nullptr)
  BY <1>1, HandDeleted DEF IInv
<1>. QED
  BY <1>1, <1>2, <1>3, Zenon

LEMMA NextStep == IInv /\ [Next]_vars => IInv'
<1>1. ASSUME IInv, UNCHANGED vars PROVE IInv'
  BY <1>1 DEF IInv, vars
<1>2. ASSUME IInv, Next PROVE IInv'
  <2>1. HeapOK(kind, heap', hand')
    <3>1. ASSUME NEW o \in Roots,
                 \/ Access(o) \/ MutableError(o) \/ MutableResult(o)
                 \/ ClearSub(o) \/ Release(o) \/ SetAllocated(o)
          PROVE  HeapOK(kind, heap', hand')
      BY <1>2, <3>1, AccessorStep
    <3>2. ASSUME NEW o \in Roots, ClearMessage(o) \/ Renew(o) PROVE HeapOK(kind, heap', hand')
      BY <1>2, <3>2, MessageStep
    <3>3. ASSUME NEW o \in Roots, NEW from \in Senders, Transfer(o, from)
          PROVE  HeapOK(kind, heap', hand')
      BY <1>2, <3>3, MessageStep
    <3>4. ASSUME NEW o \in Roots, NEW other \in Roots \ {o},
                 \/ CopyConstruct(o, other) \/ CopyAssign(o, other)
                 \/ MergeFrom(o, other) \/ SwapMessages(o, other)
          PROVE  HeapOK(kind, heap', hand')
      BY <1>2, <3>4, MessageStep
    <3>5. ASSUME DeleteReleased PROVE HeapOK(kind, heap', hand')
      BY <1>2, <3>5, ReleasedDeleted
    <3>. QED
      BY <1>2, <3>1, <3>2, <3>3, <3>4, <3>5 DEF Next
  <2>2. kind' = kind /\ kind \in Kinds /\ spoiled \subseteq Roots
        /\ edits \in 0..MaxEdits /\ transfers \in 0..MaxTransfers
    BY <1>2 DEF Next, IInv
  <2>3. spoiled' \subseteq Roots /\ edits' \in 0..MaxEdits /\ transfers' \in 0..MaxTransfers
    <3>1. ASSUME NEW o \in Roots,
                 \/ Access(o) \/ MutableError(o) \/ MutableResult(o)
                 \/ ClearSub(o) \/ Release(o)
          PROVE  spoiled' = spoiled /\ edits' \in 0..MaxEdits /\ transfers' = transfers
      BY <2>2, <3>1, BoundsAssumption
         DEF Access, MutableError, MutableResult, Mutate, ClearSub, Release, Edited
    <3>2. ASSUME NEW o \in Roots, SetAllocated(o) \/ ClearMessage(o) \/ Renew(o)
          PROVE  spoiled' \subseteq Roots /\ edits' = edits /\ transfers' = transfers
      BY <2>2, <3>2 DEF SetAllocated, ClearMessage, Renew
    <3>3. ASSUME NEW o \in Roots, NEW from \in Senders, Transfer(o, from)
          PROVE  spoiled' \subseteq Roots /\ edits' = edits /\ transfers' \in 0..MaxTransfers
      BY <2>2, <3>3, BoundsAssumption DEF Transfer
    <3>4. ASSUME NEW o \in Roots, NEW other \in Roots \ {o},
                 \/ CopyConstruct(o, other) \/ CopyAssign(o, other)
                 \/ MergeFrom(o, other) \/ SwapMessages(o, other)
          PROVE  spoiled' \subseteq Roots /\ edits' = edits /\ transfers' = transfers
      BY <2>2, <3>4 DEF CopyConstruct, CopyAssign, MergeFrom, SwapMessages
    <3>5. ASSUME DeleteReleased
          PROVE  spoiled' = spoiled /\ edits' = edits /\ transfers' = transfers
      BY <3>5 DEF DeleteReleased
    <3>. QED
      BY <1>2, <2>2, <3>1, <3>2, <3>3, <3>4, <3>5 DEF Next
  <2>. QED
    BY <2>1, <2>2, <2>3 DEF IInv
<1>. QED
  BY <1>1, <1>2

\* Whatever a program does with messages of a generated class, the heap stays in
\* order: every message holds members of their types, every pointer of a wrapper
\* is null or the only one to a submessage of its field's class, what release_
\* handed out is no longer held by a wrapper, nothing is leaked, and new always
\* finds an address.
THEOREM HeapInOrder == Spec => []IInv
BY InitHolds, NextStep, PTL DEF Spec

-----------------------------------------------------------------------------
\* The members of a class are the fields of the schema.

LEMMA FieldsOfSchema ==
  ASSUME NEW c \in P!Classes
  PROVE  /\ P!Fields(c) = {P!Schema[c][i] : i \in DOMAIN P!Schema[c]}
         /\ DOMAIN P!Default(c) = {"class", "unknown"} \cup {P!Schema[c][i].name : i \in DOMAIN P!Schema[c]}
<1>1. P!Fields(c) = {P!Schema[c][i] : i \in DOMAIN P!Schema[c]}
  BY DEF P!Fields, P!ToSet
<1>2. P!Names(c) = {P!Schema[c][i].name : i \in DOMAIN P!Schema[c]}
  BY <1>1 DEF P!Names
<1>3. DOMAIN P!Default(c) = {"class", "unknown"} \cup P!Names(c)
  BY Zenon DEF P!Default
<1>. QED
  BY <1>1, <1>2, <1>3

LEMMA MembersAreFields ==
  ASSUME NEW c \in P!Classes, NEW m \in RootType(c)
  PROVE  DOMAIN m = DOMAIN P!Default(c) /\ m.class = c
<1>1. CASE c = "Response"
  <2>. DEFINE s == P!Schema[c]
  <2>1. DOMAIN s = {1, 2, 3, 4} /\ s[1].name = "code" /\ s[2].name = "message" /\ s[3].name = "reqTimeMillis" /\ s[4].name = "data"
    BY <1>1 DEF P!Schema, P!one, P!repeated, P!map
  <2>. HIDE DEF s
  <2>2. {s[i].name : i \in DOMAIN s} = {"code", "message", "reqTimeMillis", "data"}
    BY <2>1
  <2>3. DOMAIN P!Default(c) = {"class", "unknown", "code", "message", "reqTimeMillis", "data"}
    BY <2>2, FieldsOfSchema DEF s
  <2>4. DOMAIN m = {"class", "unknown", "code", "message", "reqTimeMillis", "data"} /\ m.class = "Response"
    BY <1>1 DEF RootType, ResponseType
  <2>. QED
    BY <1>1, <2>3, <2>4
<1>2. CASE c = "Error"
  <2>. DEFINE s == P!Schema[c]
  <2>1. DOMAIN s = {1, 2} /\ s[1].name = "code" /\ s[2].name = "message"
    BY <1>2 DEF P!Schema, P!one, P!repeated, P!map
  <2>. HIDE DEF s
  <2>2. {s[i].name : i \in DOMAIN s} = {"code", "message"}
    BY <2>1
  <2>3. DOMAIN P!Default(c) = {"class", "unknown", "code", "message"}
    BY <2>2, FieldsOfSchema DEF s
  <2>4. DOMAIN m = {"class", "unknown", "code", "message"} /\ m.class = "Error"
    BY <1>2 DEF RootType, ErrorType
  <2>. QED
    BY <1>2, <2>3, <2>4
<1>3. CASE c = "OTServiceData"
  <2>. DEFINE s == P!Schema[c]
  <2>1. DOMAIN s = {1} /\ s[1].name = "value"
    BY <1>3 DEF P!Schema, P!one, P!repeated, P!map
  <2>. HIDE DEF s
  <2>2. {s[i].name : i \in DOMAIN s} = {"value"}
    BY <2>1
  <2>3. DOMAIN P!Default(c) = {"class", "unknown", "value"}
    BY <2>2, FieldsOfSchema DEF s
  <2>4. DOMAIN m = {"class", "unknown", "value"} /\ m.class = "OTServiceData"
    BY <1>3 DEF RootType, ServiceDataType
  <2>. QED
    BY <1>3, <2>3, <2>4
<1>4. CASE c = "Bytes"
  <2>. DEFINE s == P!Schema[c]
  <2>1. DOMAIN s = {1} /\ s[1].name = "bts"
    BY <1>4 DEF P!Schema, P!one, P!repeated, P!map
  <2>. HIDE DEF s
  <2>2. {s[i].name : i \in DOMAIN s} = {"bts"}
    BY <2>1
  <2>3. DOMAIN P!Default(c) = {"class", "unknown", "bts"}
    BY <2>2, FieldsOfSchema DEF s
  <2>4. DOMAIN m = {"class", "unknown", "bts"} /\ m.class = "Bytes"
    BY <1>4 DEF RootType, BytesType
  <2>. QED
    BY <1>4, <2>3, <2>4
<1>5. CASE c = "OTServerRequest"
  <2>. DEFINE s == P!Schema[c]
  <2>1. DOMAIN s = {1, 2, 3, 4, 5} /\ s[1].name = "function" /\ s[2].name = "sessionToken" /\ s[3].name = "k" /\ s[4].name = "keys" /\ s[5].name = "bytes"
    BY <1>5 DEF P!Schema, P!one, P!repeated, P!map
  <2>. HIDE DEF s
  <2>2. {s[i].name : i \in DOMAIN s} = {"function", "sessionToken", "k", "keys", "bytes"}
    BY <2>1
  <2>3. DOMAIN P!Default(c) = {"class", "unknown", "function", "sessionToken", "k", "keys", "bytes"}
    BY <2>2, FieldsOfSchema DEF s
  <2>4. DOMAIN m = {"class", "unknown", "function", "sessionToken", "k", "keys", "bytes"} /\ m.class = "OTServerRequest"
    BY <1>5 DEF RootType, ServerRequestType
  <2>. QED
    BY <1>5, <2>3, <2>4
<1>6. CASE c = "OTServerResponse"
  <2>. DEFINE s == P!Schema[c]
  <2>1. DOMAIN s = {1, 2, 3} /\ s[1].name = "function" /\ s[2].name = "values" /\ s[3].name = "bytes"
    BY <1>6 DEF P!Schema, P!one, P!repeated, P!map
  <2>. HIDE DEF s
  <2>2. {s[i].name : i \in DOMAIN s} = {"function", "values", "bytes"}
    BY <2>1
  <2>3. DOMAIN P!Default(c) = {"class", "unknown", "function", "values", "bytes"}
    BY <2>2, FieldsOfSchema DEF s
  <2>4. DOMAIN m = {"class", "unknown", "function", "values", "bytes"} /\ m.class = "OTServerResponse"
    BY <1>6 DEF RootType, ServerResponseType
  <2>. QED
    BY <1>6, <2>3, <2>4
<1>7. CASE c = "OTServerResponseWrapper"
  <2>. DEFINE s == P!Schema[c]
  <2>1. DOMAIN s = {1, 2} /\ s[1].name = "error" /\ s[2].name = "result"
    BY <1>7 DEF P!Schema, P!one, P!repeated, P!map
  <2>. HIDE DEF s
  <2>2. {s[i].name : i \in DOMAIN s} = {"error", "result"}
    BY <2>1
  <2>3. DOMAIN P!Default(c) = {"class", "unknown", "error", "result"}
    BY <2>2, FieldsOfSchema DEF s
  <2>4. DOMAIN m = {"class", "unknown", "error", "result"} /\ m.class = "OTServerResponseWrapper"
    BY <1>7 DEF RootType, ServerWrapperType
  <2>. QED
    BY <1>7, <2>3, <2>4
<1>8. CASE c = "OTClientRequest"
  <2>. DEFINE s == P!Schema[c]
  <2>1. DOMAIN s = {1, 2} /\ s[1].name = "function" /\ s[2].name = "uinWithLabelMap"
    BY <1>8 DEF P!Schema, P!one, P!repeated, P!map
  <2>. HIDE DEF s
  <2>2. {s[i].name : i \in DOMAIN s} = {"function", "uinWithLabelMap"}
    BY <2>1
  <2>3. DOMAIN P!Default(c) = {"class", "unknown", "function", "uinWithLabelMap"}
    BY <2>2, FieldsOfSchema DEF s
  <2>4. DOMAIN m = {"class", "unknown", "function", "uinWithLabelMap"} /\ m.class = "OTClientRequest"
    BY <1>8 DEF RootType, ClientRequestType
  <2>. QED
    BY <1>8, <2>3, <2>4
<1>9. CASE c = "Fields"
  <2>. DEFINE s == P!Schema[c]
  <2>1. DOMAIN s = {1} /\ s[1].name = "msg"
    BY <1>9 DEF P!Schema, P!one, P!repeated, P!map
  <2>. HIDE DEF s
  <2>2. {s[i].name : i \in DOMAIN s} = {"msg"}
    BY <2>1
  <2>3. DOMAIN P!Default(c) = {"class", "unknown", "msg"}
    BY <2>2, FieldsOfSchema DEF s
  <2>4. DOMAIN m = {"class", "unknown", "msg"} /\ m.class = "Fields"
    BY <1>9 DEF RootType, FieldsType
  <2>. QED
    BY <1>9, <2>3, <2>4
<1>10. CASE c = "OTClientResponse"
  <2>. DEFINE s == P!Schema[c]
  <2>1. DOMAIN s = {1, 2, 3} /\ s[1].name = "function" /\ s[2].name = "reqTimeMillis" /\ s[3].name = "resMap"
    BY <1>10 DEF P!Schema, P!one, P!repeated, P!map
  <2>. HIDE DEF s
  <2>2. {s[i].name : i \in DOMAIN s} = {"function", "reqTimeMillis", "resMap"}
    BY <2>1
  <2>3. DOMAIN P!Default(c) = {"class", "unknown", "function", "reqTimeMillis", "resMap"}
    BY <2>2, FieldsOfSchema DEF s
  <2>4. DOMAIN m = {"class", "unknown", "function", "reqTimeMillis", "resMap"} /\ m.class = "OTClientResponse"
    BY <1>10 DEF RootType, ClientResponseType
  <2>. QED
    BY <1>10, <2>3, <2>4
<1>11. CASE c = "OTClientResponseWrapper"
  <2>. DEFINE s == P!Schema[c]
  <2>1. DOMAIN s = {1, 2} /\ s[1].name = "error" /\ s[2].name = "result"
    BY <1>11 DEF P!Schema, P!one, P!repeated, P!map
  <2>. HIDE DEF s
  <2>2. {s[i].name : i \in DOMAIN s} = {"error", "result"}
    BY <2>1
  <2>3. DOMAIN P!Default(c) = {"class", "unknown", "error", "result"}
    BY <2>2, FieldsOfSchema DEF s
  <2>4. DOMAIN m = {"class", "unknown", "error", "result"} /\ m.class = "OTClientResponseWrapper"
    BY <1>11 DEF RootType, ClientWrapperType
  <2>. QED
    BY <1>11, <2>3, <2>4
<1>. QED
  BY <1>1, <1>2, <1>3, <1>4, <1>5, <1>6, <1>7, <1>8, <1>9, <1>10, <1>11, ClassesKnown DEF PlainClasses, SWrapper, CWrapper

\* A pointer of a class is a message field of the schema, of the type it says.
LEMMA PointersAreFields ==
  ASSUME NEW c \in P!Classes, NEW m, m.class = c
  PROVE  /\ Pointers(m) = Held(c)
         /\ \A x \in Held(c) : \A s \in SubType(x) : s.class = P!FieldOf(c, x).type
<1>1. Pointers(m) = Held(c)
  BY DEF Pointers, Held
<1>2. CASE c = SWrapper
  <2>. DEFINE e == P!one("Error", "error")
              r == P!one("OTServerResponse", "result")
  <2>1. P!Schema[c] = <<e, r>>
    BY <1>2 DEF P!Schema, SWrapper
  <2>2. P!Fields(c) = {e, r}
    <3>. DEFINE s == P!Schema[c]
    <3>. HIDE DEF e, r
    <3>1. DOMAIN s = {1, 2} /\ s[1] = e /\ s[2] = r
      BY <2>1
    <3>2. P!Fields(c) = {s[i] : i \in DOMAIN s}
      BY FieldsOfSchema
    <3>. HIDE DEF s
    <3>. QED
      BY <3>1, <3>2
  <2>3. e.name = "error" /\ r.name = "result" /\ e.type = "Error" /\ r.type = "OTServerResponse"
    BY DEF P!one
  <2>. HIDE DEF e, r
  <2>4. P!FieldOf(c, "error") = e /\ P!FieldOf(c, "result") = r
    BY <2>2, <2>3 DEF P!FieldOf
  <2>. QED
    BY <1>1, <1>2, <2>3, <2>4, HeldClasses, WrapperClasses
<1>3. CASE c = CWrapper
  <2>. DEFINE e == P!one("Error", "error")
              r == P!repeated("OTClientResponse", "result")
  <2>1. P!Schema[c] = <<e, r>>
    BY <1>3 DEF P!Schema, CWrapper
  <2>2. P!Fields(c) = {e, r}
    <3>. DEFINE s == P!Schema[c]
    <3>. HIDE DEF e, r
    <3>1. DOMAIN s = {1, 2} /\ s[1] = e /\ s[2] = r
      BY <2>1
    <3>2. P!Fields(c) = {s[i] : i \in DOMAIN s}
      BY FieldsOfSchema
    <3>. HIDE DEF s
    <3>. QED
      BY <3>1, <3>2
  <2>3. e.name = "error" /\ r.name = "result" /\ e.type = "Error"
    BY DEF P!one, P!repeated
  <2>. HIDE DEF e, r
  <2>4. P!FieldOf(c, "error") = e
    BY <2>2, <2>3 DEF P!FieldOf
  <2>. QED
    BY <1>1, <1>3, <2>3, <2>4, HeldClasses, WrapperClasses
<1>4. CASE c \in PlainClasses
  <2>1. Held(c) = {}
    BY <1>4 DEF Held, PlainClasses
  <2>. QED
    BY <1>1, <2>1
<1>. QED
  BY <1>2, <1>3, <1>4, ClassesKnown

-----------------------------------------------------------------------------
LEMMA TypeFollows == IInv => TypeOK
<1>. SUFFICES ASSUME IInv PROVE TypeOK
  OBVIOUS
<1>1. kind \in P!Classes /\ HeapOK(kind, heap, hand)
  BY KindsAssumption DEF IInv
<1>2. ASSUME NEW o \in Roots
      PROVE  /\ DOMAIN heap[o] = DOMAIN P!Default(kind) /\ heap[o].class = kind
             /\ \A x \in Pointers(heap[o]) :
                  heap[o][x] # nullptr => heap[heap[o][x]].class = P!FieldOf(kind, x).type
  <2>1. heap[o] \in RootType(kind)
    BY <1>1 DEF HeapOK, Heaps
  <2>2. DOMAIN heap[o] = DOMAIN P!Default(kind) /\ heap[o].class = kind
    BY <1>1, <2>1, MembersAreFields
  <2>3. \A x \in Held(kind) : heap[o][x] # nullptr => heap[heap[o][x]] \in SubType(x)
    BY <1>1 DEF HeapOK, PointersOK
  <2>. QED
    BY <1>1, <2>2, <2>3, PointersAreFields
<1>3. ASSUME NEW a \in Addr
      PROVE  heap[a].class \in {"free", "Error", "OTServerResponse"}
  <2>1. heap[a] \in {Free} \cup ErrorType(F2) \cup ServerResponseType(F2, F1)
    BY <1>1 DEF HeapOK, Heaps, CellType, SubTypes
  <2>. QED
    BY <2>1, HeldClasses
<1>4. hand # nullptr => heap[hand].class # "free"
  <2>1. hand # nullptr => \E x \in {"error", "result"} : heap[hand] \in SubType(x)
    BY <1>1, HeldClasses DEF HeapOK, HandOK
  <2>. QED
    BY <2>1, HeldClasses
<1>. QED
  BY <1>2, <1>3, <1>4 DEF TypeOK, IInv

LEMMA OwnersFollow == IInv => OneOwner
<1>. SUFFICES ASSUME IInv PROVE OneOwner
  OBVIOUS
<1>. DEFINE slots == {<<o, x>> : o \in Roots, x \in {"error", "result"}}
            used == {s \in slots : s[2] \in Pointers(heap[s[1]]) /\ heap[s[1]][s[2]] # nullptr}
            at(s) == heap[s[1]][s[2]]
<1>1. kind \in P!Classes /\ HeapOK(kind, heap, hand)
  BY KindsAssumption DEF IInv
<1>2. \A o \in Roots : Pointers(heap[o]) = Held(kind)
  <2>1. \A o \in Roots : heap[o] \in RootType(kind)
    BY <1>1 DEF HeapOK, Heaps
  <2>. QED
    BY <1>1, <2>1, MembersAreFields, PointersAreFields
<1>3. ASSUME NEW s \in used
      PROVE  /\ s[1] \in Roots /\ s[2] \in Held(kind) /\ at(s) # nullptr /\ s = <<s[1], s[2]>>
             /\ at(s) \in Addr /\ at(s) # hand /\ heap[at(s)] # Free
  <2>1. s[1] \in Roots /\ s[2] \in Held(kind) /\ at(s) # nullptr /\ s = <<s[1], s[2]>>
    BY <1>2
  <2>2. at(s) \in Addr /\ heap[at(s)] \in SubType(s[2])
    BY <1>1, <2>1 DEF HeapOK, PointersOK
  <2>3. at(s) # hand
    BY <1>1, <2>1 DEF HeapOK, HandOK
  <2>4. heap[at(s)] # Free
    BY <2>1, <2>2, HeldClasses
  <2>. QED
    BY <2>1, <2>2, <2>3, <2>4
<1>4. ASSUME NEW o \in Roots, NEW x \in Held(kind), heap[o][x] # nullptr
      PROVE  <<o, x>> \in used /\ at(<<o, x>>) = heap[o][x]
  <2>1. x \in {"error", "result"}
    BY HeldClasses
  <2>. QED
    BY <1>2, <1>4, <2>1
<1>5. \A s, t \in used : s # t => at(s) # at(t)
  <2>. SUFFICES ASSUME NEW s \in used, NEW t \in used, at(s) = at(t) PROVE s = t
    OBVIOUS
  <2>1. /\ s[1] \in Roots /\ s[2] \in Held(kind) /\ at(s) # nullptr /\ s = <<s[1], s[2]>>
        /\ t[1] \in Roots /\ t[2] \in Held(kind) /\ t = <<t[1], t[2]>>
    BY <1>3
  <2>2. s[1] = t[1] /\ s[2] = t[2]
    BY <1>1, <2>1 DEF HeapOK, PointersOK
  <2>. QED
    BY <2>1, <2>2
<1>6. \A s \in used : at(s) # hand
  BY <1>3
<1>7. {a \in Addr : heap[a] # Free} = {at(s) : s \in used} \cup ({hand} \ {nullptr})
  <2>1. ASSUME NEW a \in Addr, heap[a] # Free
        PROVE  a \in {at(s) : s \in used} \cup ({hand} \ {nullptr})
    <3>1. a # nullptr
      BY NullIsNoAddress
    <3>2. a = hand \/ \E o \in Roots, x \in Held(kind) : heap[o][x] = a
      BY <1>1, <2>1 DEF HeapOK, AllOwned
    <3>3. ASSUME NEW o \in Roots, NEW x \in Held(kind), heap[o][x] = a
          PROVE  \E s \in used : at(s) = a
      <4>1. <<o, x>> \in used /\ at(<<o, x>>) = a
        BY <1>4, <3>1, <3>3
      <4>. HIDE DEF used, at
      <4>. QED
        BY <4>1
    <3>. HIDE DEF used, at
    <3>. QED
      BY <3>1, <3>2, <3>3
  <2>2. ASSUME NEW s \in used PROVE at(s) \in Addr /\ heap[at(s)] # Free
    BY <1>3
  <2>3. hand # nullptr => hand \in Addr /\ heap[hand] # Free
    BY <1>1, HeldClasses DEF HeapOK, HandOK
  <2>. HIDE DEF used, at
  <2>. QED
    BY <2>1, <2>2, <2>3
<1>. QED
  BY <1>5, <1>6, <1>7 DEF OneOwner

LEMMA SizesFollow == IInv => SizeIsLength
BY KindsAssumption, SerializeStays DEF IInv, SizeIsLength

\* Messages keep their class and its members, and error_ and result_ are null or
\* point to a message of the class the .proto gives them: no method of a wrapper
\* leaves a dangling pointer behind.
THEOREM Typed == Spec => []TypeOK
BY HeapInOrder, TypeFollows, PTL

\* Every submessage belongs to one pointer of one wrapper or to the caller of
\* release_: copy, merge, swap, set_allocated_, a parse that fails half way and
\* the destructors neither share one, nor leak one, nor delete one twice.
THEOREM OneOwnerEach == Spec => []OneOwner
BY HeapInOrder, OwnersFollow, PTL

\* ByteSizeLong, by which the runtime allocates the buffer and which it writes
\* before a submessage, is the number of bytes that _InternalSerialize writes, for
\* each of the eleven classes.
THEOREM SizesAreLengths == Spec => []SizeIsLength
BY HeapInOrder, SizesFollow, PTL
=============================================================================
