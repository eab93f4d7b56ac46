---------------------------- MODULE OutputLogProof ----------------------------
(***************************************************************************)
(* Lemmas about the operators of OutputLog, for every log, query and       *)
(* number of lines: members of a set of ids in order, what a read returns, *)
(* where seek_tail makes it start, and texts put together from pieces.     *)
(***************************************************************************)
EXTENDS OutputLog, FiniteSetTheorems, SequenceTheorems, TLAPS

-----------------------------------------------------------------------------
(* Finite sets of numbers in ascending order *)

\* The ranks of the members of S are the numbers up to its cardinality, in
\* the order of the members.
LEMMA Ranks ==
    ASSUME NEW S \in SUBSET Nat, IsFiniteSet(S)
    PROVE  /\ Cardinality(S) \in Nat
           /\ \A k \in S : Rank(S, k) \in 1 .. Cardinality(S)
           /\ \A j, k \in S : j < k => Rank(S, j) < Rank(S, k)
           /\ \A n \in 1 .. Cardinality(S) : Nth(S, n) \in S /\ Rank(S, Nth(S, n)) = n
<1> DEFINE Upto(k) == {j \in S : j <= k}
<1>1. Cardinality(S) \in Nat
  BY FS_CardinalityType
<1>2. \A k : Upto(k) \in SUBSET S
  OBVIOUS
<1>3. \A k : IsFiniteSet(Upto(k)) /\ Cardinality(Upto(k)) \in 0 .. Cardinality(S)
  <2> TAKE k
  <2>1. IsFiniteSet(Upto(k)) /\ Cardinality(Upto(k)) <= Cardinality(S)
    BY <1>2, FS_Subset
  <2> QED
    BY <2>1, <1>1, FS_CardinalityType
<1>4. \A k \in S : Rank(S, k) \in 1 .. Cardinality(S)
  <2> TAKE k \in S
  <2>1. k \in Upto(k)
    OBVIOUS
  <2>2. Cardinality(Upto(k)) # 0
    BY <2>1, <1>3, FS_EmptySet
  <2> QED
    BY <2>2, <1>1, <1>3 DEF Rank
<1>5. \A j, k \in S : j < k => Rank(S, j) < Rank(S, k)
  <2> SUFFICES ASSUME NEW j \in S, NEW k \in S, j < k
               PROVE  Cardinality(Upto(j)) < Cardinality(Upto(k))
    BY DEF Rank
  <2>0. j \in Nat /\ k \in Nat /\ \A i \in S : i \in Nat
    OBVIOUS
  <2>1. Upto(j) \in SUBSET Upto(k) /\ k \in Upto(k) /\ k \notin Upto(j)
    <3>1. ASSUME NEW i \in S, i <= j PROVE i <= k
      BY <2>0, <3>1
    <3>2. k <= k /\ ~(k <= j)
      BY <2>0
    <3> QED
      BY <3>1, <3>2
  <2>2. Cardinality(Upto(j)) <= Cardinality(Upto(k)) /\ Cardinality(Upto(k)) # Cardinality(Upto(j))
    BY <2>1, <1>3, FS_Subset
  <2> QED
    BY <2>2, <1>1, <1>3
<1>6. \A n \in 1 .. Cardinality(S) : \E k \in S : Rank(S, k) = n
  <2> DEFINE T == 1 .. Cardinality(S)
             f == [k \in S |-> Rank(S, k)]
  <2>1. f \in Injection(S, T)
    <3>1. f \in [S -> T]
      BY <1>4
    <3>2. \A j, k \in S : f[j] = f[k] => j = k
      <4> SUFFICES ASSUME NEW j \in S, NEW k \in S, Rank(S, j) = Rank(S, k) PROVE j = k
        OBVIOUS
      <4>1. Rank(S, j) \in Nat /\ Rank(S, k) \in Nat
        BY <1>4
      <4>2. ~(j < k) /\ ~(k < j)
        BY <1>5, <4>1
      <4> QED
        BY <4>2
    <3> QED
      BY <3>1, <3>2 DEF Injection, IsInjective
  <2>2. IsFiniteSet(T) /\ Cardinality(T) = Cardinality(S)
    BY <1>1, FS_Interval
  <2>3. f \in Surjection(S, T)
    BY <2>1, <2>2, FS_Injection
  <2> QED
    BY <2>3 DEF Surjection
<1>7. \A n \in 1 .. Cardinality(S) : Nth(S, n) \in S /\ Rank(S, Nth(S, n)) = n
  BY <1>6 DEF Nth
<1> QED
  BY <1>1, <1>4, <1>5, <1>7

\* A finite non-empty set of numbers has a greatest and a least member.
LEMMA Extremes ==
    ASSUME NEW S \in SUBSET Nat, IsFiniteSet(S), S # {}
    PROVE  /\ Max(S) \in S /\ \A k \in S : k <= Max(S)
           /\ Min(S) \in S /\ \A k \in S : Min(S) <= k
<1>1. Cardinality(S) \in Nat \ {0}
  BY FS_CardinalityType, FS_EmptySet
<1>2. 1 \in 1 .. Cardinality(S) /\ Cardinality(S) \in 1 .. Cardinality(S)
  BY <1>1
<1> DEFINE last == Nth(S, Cardinality(S))
           first == Nth(S, 1)
<1>3. last \in S /\ Rank(S, last) = Cardinality(S) /\ first \in S /\ Rank(S, first) = 1
  BY <1>2, Ranks
<1> HIDE DEF last, first
<1>4. \A k \in S : k <= last /\ first <= k
  <2> TAKE k \in S
  <2>1. Rank(S, k) \in 1 .. Cardinality(S)
    BY Ranks
  <2>2. ~(last < k) /\ ~(k < first)
    BY <1>1, <1>3, <2>1, Ranks
  <2> QED
    BY <2>2, <1>3
<1>5. \E m \in S : \A k \in S : m >= k
  BY <1>3, <1>4
<1>6. \E m \in S : \A k \in S : m <= k
  BY <1>3, <1>4
<1> QED
  BY <1>5, <1>6 DEF Max, Min

\* InOrder lists the members of S, each once and in ascending order.
LEMMA Ordered ==
    ASSUME NEW S \in SUBSET Nat, IsFiniteSet(S)
    PROVE  /\ InOrder(S) \in Seq(S)
           /\ InOrder(S) \in [1 .. Cardinality(S) -> S]
           /\ Len(InOrder(S)) = Cardinality(S)
           /\ \A m, n \in DOMAIN InOrder(S) : m < n => InOrder(S)[m] < InOrder(S)[n]
           /\ \A k \in S : \E n \in DOMAIN InOrder(S) : InOrder(S)[n] = k
<1>1. Cardinality(S) \in Nat
  BY FS_CardinalityType
<1>2. InOrder(S) \in [1 .. Cardinality(S) -> S]
  BY Ranks DEF InOrder
<1>3. InOrder(S) \in Seq(S) /\ Len(InOrder(S)) = Cardinality(S)
  BY <1>1, <1>2
<1>4. ASSUME NEW m \in 1 .. Cardinality(S), NEW n \in 1 .. Cardinality(S), m < n
      PROVE  InOrder(S)[m] < InOrder(S)[n]
  <2>1. Nth(S, m) \in S /\ Nth(S, n) \in S /\ Rank(S, Nth(S, m)) = m /\ Rank(S, Nth(S, n)) = n
    BY Ranks
  <2>2. ~(Nth(S, n) < Nth(S, m)) /\ Nth(S, n) # Nth(S, m)
    <3>1. Nth(S, n) < Nth(S, m) => Rank(S, Nth(S, n)) < Rank(S, Nth(S, m))
      BY <2>1, Ranks
    <3>2. m \in Nat /\ n \in Nat /\ ~(n < m) /\ n # m
      BY <1>1, <1>4
    <3> QED
      BY <2>1, <3>1, <3>2
  <2>3. Nth(S, m) \in Nat /\ Nth(S, n) \in Nat
    BY <2>1
  <2>4. Nth(S, m) < Nth(S, n)
    BY <2>2, <2>3
  <2> QED
    BY <2>4 DEF InOrder
<1>5. ASSUME NEW k \in S PROVE \E n \in 1 .. Cardinality(S) : InOrder(S)[n] = k
  <2>1. Rank(S, k) \in 1 .. Cardinality(S)
    BY Ranks
  <2>2. Nth(S, Rank(S, k)) \in S /\ Rank(S, Nth(S, Rank(S, k))) = Rank(S, k)
    BY <2>1, Ranks
  <2> DEFINE l == Nth(S, Rank(S, k))
  <2>3. l \in Nat /\ k \in Nat /\ Rank(S, k) \in Nat
    <3>1. \A i \in S : i \in Nat
      OBVIOUS
    <3>2. Rank(S, k) \in Nat
      BY <2>1, <1>1
    <3>3. l \in S
      BY <2>2
    <3> QED
      BY <3>1, <3>2, <3>3
  <2>4. (l < k => Rank(S, l) < Rank(S, k)) /\ (k < l => Rank(S, k) < Rank(S, l))
    BY <2>2, Ranks
  <2>5. l = k
    BY <2>2, <2>3, <2>4
  <2> QED
    BY <2>1, <2>5 DEF InOrder
<1> QED
  BY <1>2, <1>3, <1>4, <1>5

\* The numbers of an interval in ascending order.
LEMMA IntervalOf ==
    ASSUME NEW a \in Nat, NEW b \in Nat, a <= b
    PROVE  LET S == a + 1 .. b
           IN  /\ S \in SUBSET Nat /\ IsFiniteSet(S) /\ Cardinality(S) = b - a
               /\ \A k \in 1 .. b - a : InOrder(S)[k] = a + k
<1> DEFINE S == a + 1 .. b
<1>1. S \in SUBSET Nat /\ IsFiniteSet(S) /\ Cardinality(S) = b - a
  <2>1. IsFiniteSet(S) /\ Cardinality(S) = IF a + 1 > b THEN 0 ELSE b - (a + 1) + 1
    BY FS_Interval
  <2> QED
    BY <2>1
<1>2. ASSUME NEW k \in 1 .. b - a PROVE InOrder(S)[k] = a + k
  <2> DEFINE x == Nth(S, k)
             y == a + k
  <2>1. k \in Nat /\ y \in S /\ y \in Nat
    OBVIOUS
  <2>2. {j \in S : j <= y} = a + 1 .. y
    BY <2>1
  <2>3. Rank(S, y) = k
    <3>1. Cardinality(a + 1 .. y) = IF a + 1 > y THEN 0 ELSE y - (a + 1) + 1
      BY <2>1, FS_Interval
    <3>2. Cardinality(a + 1 .. y) = k
      BY <2>1, <3>1
    <3> QED
      BY <2>2, <3>2 DEF Rank
  <2>4. x \in S /\ Rank(S, x) = k /\ x \in Nat
    <3>1. k \in 1 .. Cardinality(S)
      BY <1>1
    <3> QED
      BY <1>1, <3>1, Ranks
  <2>5. InOrder(S)[k] = x
    BY <1>1 DEF InOrder
  <2> HIDE DEF S, x, y
  <2>6. ~(x < y) /\ ~(y < x)
    <3>1. x < y => Rank(S, x) < Rank(S, y)
      BY <1>1, <2>1, <2>4, Ranks
    <3>2. y < x => Rank(S, y) < Rank(S, x)
      BY <1>1, <2>1, <2>4, Ranks
    <3> QED
      BY <2>1, <2>3, <2>4, <3>1, <3>2
  <2>7. x = y
    BY <2>1, <2>4, <2>6
  <2> QED
    BY <2>5, <2>7 DEF y
<1> QED
  BY <1>1, <1>2

-----------------------------------------------------------------------------
(* Texts put together from pieces *)

\* A longer prefix is the shorter one and one more element.
LEMMA Prefix ==
    ASSUME NEW X, NEW s \in Seq(X), NEW i \in Nat, i < Len(s)
    PROVE  /\ SubSeq(s, 1, i) \in Seq(X) /\ s[i + 1] \in X
           /\ SubSeq(s, 1, i + 1) = Append(SubSeq(s, 1, i), s[i + 1])
<1>1. Len(s) \in Nat
  BY LenProperties
<1>2. \A j \in 1 .. i : s[j] \in X
  <2> TAKE j \in 1 .. i
  <2>1. j \in 1 .. Len(s)
    BY <1>1
  <2> QED
    BY <2>1, ElementOfSeq
<1>3. SubSeq(s, 1, i) \in Seq(X)
  BY <1>2, SubSeqProperties
<1>4. i + 1 \in 1 .. Len(s) /\ 1 \in 1 .. Len(s) /\ (i + 1) - 1 = i
  BY <1>1
<1>5. s[i + 1] \in X
  BY <1>4, ElementOfSeq
<1>6. SubSeq(s, 1, i + 1) = SubSeq(s, 1, (i + 1) - 1) \o <<s[i + 1]>>
  BY <1>4, SubSeqRecursiveSecond
<1> QED
  BY <1>3, <1>4, <1>5, <1>6, AppendIsConcat

\* A piece of a text.
LEMMA PieceOf ==
    ASSUME NEW X, NEW text \in Seq(X), NEW a \in Nat, NEW b \in Nat, a <= b, b <= Len(text)
    PROVE  LET d == SubSeq(text, a + 1, b)
           IN  /\ d \in Seq(X) /\ Len(d) = b - a /\ DOMAIN d = 1 .. b - a
               /\ \A i \in 1 .. b - a : d[i] = text[a + i]
<1>1. Len(text) \in Nat
  BY LenProperties
<1>2. \A i \in a + 1 .. b : text[i] \in X
  <2> TAKE i \in a + 1 .. b
  <2>1. i \in 1 .. Len(text)
    BY <1>1
  <2> QED
    BY <2>1, ElementOfSeq
<1> DEFINE d == SubSeq(text, a + 1, b)
           m == a + 1
<1>3. /\ d \in Seq(X) /\ Len(d) = IF m <= b THEN b - m + 1 ELSE 0
      /\ \A i \in 1 .. b - m + 1 : d[i] = text[m + i - 1]
  <2>1. m \in Int /\ b \in Int
    OBVIOUS
  <2> QED
    BY <2>1, <1>2, SubSeqProperties
<1> HIDE DEF d
<1>4. Len(d) = b - a /\ b - m + 1 = b - a /\ \A i \in 1 .. b - a : m + i - 1 = a + i
  BY <1>3
<1> HIDE DEF m
<1> QED
  BY <1>3, <1>4, LenProperties DEF d, m

\* Counting up from 0 reaches every number up to m.
LEMMA Upwards ==
    ASSUME NEW m \in Nat, NEW Good, 0 \in Good,
           \A i \in 0 .. m : i \in Good /\ i < m => i + 1 \in Good
    PROVE  \A i \in 0 .. m : i \in Good
<1> DEFINE Bad == {i \in 0 .. m : i \notin Good}
<1> SUFFICES ASSUME Bad # {} PROVE FALSE
  OBVIOUS
<1>1. Bad \in SUBSET (0 .. m) /\ \A i \in 0 .. m : i \in Nat
  OBVIOUS
<1>2. Bad \in SUBSET Nat
  BY <1>1
<1>3. IsFiniteSet(Bad)
  <2>1. IsFiniteSet(0 .. m)
    BY FS_Interval
  <2> QED
    BY <1>1, <2>1, FS_Subset
<1> DEFINE least == Min(Bad)
<1>4. least \in Bad /\ \A i \in Bad : least <= i
  BY <1>2, <1>3, Extremes
<1>5. least \in 1 .. m /\ least \notin Good
  BY <1>4
<1> HIDE DEF least
<1>6. least - 1 \in 0 .. m /\ least - 1 < m /\ (least - 1) + 1 = least /\ ~(least <= least - 1)
  BY <1>5
<1>7. least - 1 \in Good
  BY <1>4, <1>6
<1> QED
  BY <1>5, <1>6, <1>7

\* FlattenSeq's function up to the n-th piece.
Flattens(s, n, f) == f = [i \in 1 .. n |-> IF i = 1 THEN s[i] ELSE f[i - 1] \o s[i]]

\* There is one, for any number of pieces.
LEMMA FlattensTo == ASSUME NEW s, NEW m \in Nat PROVE \E f : Flattens(s, m, f)
<1> DEFINE Good == {n \in Nat : \E f : Flattens(s, n, f)}
<1>1. 0 \in Good
  <2> DEFINE f == [i \in {} |-> {}]
  <2>1. f = [i \in 1 .. 0 |-> IF i = 1 THEN s[i] ELSE f[i - 1] \o s[i]]
    OBVIOUS
  <2> QED
    BY <2>1 DEF Flattens
<1>2. ASSUME NEW n \in 0 .. m, n \in Good PROVE n + 1 \in Good
  <2>1. PICK f : Flattens(s, n, f)
    BY <1>2
  <2> DEFINE g == [i \in 1 .. n + 1 |-> IF i = 1 THEN s[i] ELSE f[i - 1] \o s[i]]
  <2>2. ASSUME NEW i \in 1 .. n PROVE g[i] = f[i]
    <3>1. i \in 1 .. n + 1
      BY <1>2
    <3>2. f = [j \in 1 .. n |-> IF j = 1 THEN s[j] ELSE f[j - 1] \o s[j]]
      BY <2>1 DEF Flattens
    <3>3. f[i] = IF i = 1 THEN s[i] ELSE f[i - 1] \o s[i]
      BY <3>2
    <3> QED
      BY <3>1, <3>3
  <2>3. ASSUME NEW i \in 1 .. n + 1, i # 1 PROVE g[i - 1] = f[i - 1]
    <3>1. i - 1 \in 1 .. n
      BY <1>2, <2>3
    <3> QED
      BY <3>1, <2>2
  <2>4. g = [i \in 1 .. n + 1 |-> IF i = 1 THEN s[i] ELSE g[i - 1] \o s[i]]
    BY <2>3
  <2> HIDE DEF g
  <2>5. Flattens(s, n + 1, g)
    BY <2>4 DEF Flattens
  <2> QED
    BY <2>5, <1>2
<1> HIDE DEF Good
<1>3. m \in Good
  BY <1>1, <1>2, Upwards
<1> QED
  BY <1>3 DEF Good

\* Where each piece ends.
Offsets(s, off) ==
    /\ off \in [0 .. Len(s) -> Nat]
    /\ off[0] = 0
    /\ \A i \in 1 .. Len(s) : off[i] = off[i - 1] + Len(s[i])

\* A text made of pieces.
Joined(text, s, off) ==
    /\ Len(text) = off[Len(s)]
    /\ \A j \in 1 .. Len(s) : \A k \in 1 .. Len(s[j]) : text[off[j - 1] + k] = s[j][k]

\* FlattenSeq, without the function.
LEMMA Flattened ==
    ASSUME NEW s, Len(s) \in Nat
    PROVE  \E f : /\ Flattens(s, Len(s), f)
                  /\ FlattenSeq(s) = IF Len(s) = 0 THEN s ELSE f[Len(s)]
<1> DEFINE f == CHOOSE f : Flattens(s, Len(s), f)
<1>1. Flattens(s, Len(s), f)
  BY FlattensTo
<1>2. FlattenSeq(s) = IF Len(s) = 0 THEN s ELSE f[Len(s)]
  BY DEF FlattenSeq, Flattens
<1> QED
  BY <1>1, <1>2

\* FlattenSeq puts pieces one behind the other.
LEMMA FlattenOf ==
    ASSUME NEW X, NEW s \in Seq(Seq(X))
    PROVE  /\ FlattenSeq(s) \in Seq(X)
           /\ \E off : Offsets(s, off)
           /\ \A off : Offsets(s, off) => Joined(FlattenSeq(s), s, off)
<1> DEFINE m == Len(s)
<1>1. m \in Nat /\ \A i \in 1 .. m : s[i] \in Seq(X) /\ Len(s[i]) \in Nat
  BY ElementOfSeq, LenProperties
<1>2. PICK f : Flattens(s, m, f) /\ FlattenSeq(s) = IF m = 0 THEN s ELSE f[m]
  BY <1>1, Flattened
<1> DEFINE part(i) == IF i = 0 THEN <<>> ELSE f[i]
<1> HIDE DEF m
<1>3. \A i \in 1 .. m : f[i] = IF i = 1 THEN s[i] ELSE f[i - 1] \o s[i]
  BY <1>2 DEF Flattens
<1>4. part(0) \in Seq(X) /\ Len(part(0)) = 0
  BY EmptySeq
<1>5. ASSUME NEW i \in 0 .. m, i < m, part(i) \in Seq(X)
      PROVE  part(i + 1) = part(i) \o s[i + 1] /\ i + 1 \in 1 .. m
  <2>1. i \in Nat /\ i + 1 \in 1 .. m /\ i + 1 # 0 /\ (i + 1) - 1 = i
    BY <1>1, <1>5
  <2>2. part(i + 1) = f[i + 1] /\ s[i + 1] \in Seq(X)
    BY <2>1, <1>1
  <2>3. CASE i = 0
    <3>1. f[i + 1] = s[i + 1]
      BY <2>3, <2>1, <1>3
    <3>2. <<>> \o s[i + 1] = s[i + 1]
      BY <2>2, ConcatEmptySeq
    <3> QED
      BY <2>1, <2>2, <2>3, <3>1, <3>2
  <2>4. CASE i # 0
    <3>1. f[i + 1] = f[i] \o s[i + 1]
      <4> DEFINE n == i + 1
      <4>1. n \in 1 .. m /\ n # 1 /\ n - 1 = i
        BY <2>1, <2>4
      <4> HIDE DEF n
      <4>2. f[n] = f[i] \o s[n]
        BY <4>1, <1>3
      <4> QED
        BY <4>2 DEF n
    <3> QED
      BY <2>1, <2>2, <2>4, <3>1
  <2> QED
    BY <2>3, <2>4
<1>6. FlattenSeq(s) = part(m)
  <2>1. m = 0 => s = <<>>
    BY EmptySeq DEF m
  <2> QED
    BY <2>1, <1>2
<1> HIDE DEF part
<1>7. \A i \in 0 .. m : part(i) \in Seq(X)
  <2> DEFINE Good == {i \in 0 .. m : part(i) \in Seq(X)}
  <2>1. 0 \in Good
    BY <1>1, <1>4
  <2>2. ASSUME NEW i \in 0 .. m, i \in Good /\ i < m PROVE i + 1 \in Good
    <3>1. part(i + 1) = part(i) \o s[i + 1] /\ i + 1 \in 1 .. m /\ part(i) \in Seq(X)
      BY <2>2, <1>5
    <3>2. part(i + 1) \in Seq(X)
      BY <3>1, <1>1, ConcatProperties
    <3> QED
      BY <3>1, <3>2
  <2> HIDE DEF Good
  <2>3. \A i \in 0 .. m : i \in Good
    BY <1>1, <2>1, <2>2, Upwards
  <2> QED
    BY <2>3 DEF Good
<1>8. ASSUME NEW i \in 1 .. m
      PROVE  /\ i - 1 \in 0 .. m /\ part(i) = part(i - 1) \o s[i]
             /\ Len(part(i)) = Len(part(i - 1)) + Len(s[i]) /\ Len(part(i - 1)) \in Nat
  <2>1. i - 1 \in 0 .. m /\ i - 1 < m /\ (i - 1) + 1 = i
    BY <1>1
  <2>2. part(i) = part(i - 1) \o s[i] /\ part(i - 1) \in Seq(X) /\ s[i] \in Seq(X)
    BY <2>1, <1>1, <1>5, <1>7
  <2> QED
    BY <2>1, <2>2, ConcatProperties, LenProperties
<1>9. \E off : Offsets(s, off)
  <2> DEFINE off == [i \in 0 .. m |-> Len(part(i))]
  <2>1. off \in [0 .. m -> Nat]
    BY <1>7, LenProperties
  <2>2. off[0] = 0
    BY <1>1, <1>4
  <2>3. \A i \in 1 .. m : off[i] = off[i - 1] + Len(s[i])
    <3> TAKE i \in 1 .. m
    <3>1. i \in 0 .. m /\ i - 1 \in 0 .. m
      BY <1>1
    <3>2. off[i] = Len(part(i)) /\ off[i - 1] = Len(part(i - 1))
      BY <3>1
    <3> QED
      BY <3>2, <1>8
  <2> HIDE DEF off
  <2> QED
    BY <2>1, <2>2, <2>3 DEF Offsets, m
<1>10. ASSUME NEW off, Offsets(s, off)
       PROVE  /\ Len(part(m)) = off[m]
              /\ \A j \in 1 .. m : \A k \in 1 .. Len(s[j]) : part(m)[off[j - 1] + k] = s[j][k]
  <2> DEFINE Right(i) ==
               /\ Len(part(i)) = off[i]
               /\ \A j \in 1 .. m : \A k \in 1 .. Len(s[j]) :
                     j <= i => off[j - 1] + k \in 1 .. off[i] /\ part(i)[off[j - 1] + k] = s[j][k]
             Good == {i \in 0 .. m : Right(i)}
  <2>0. off \in [0 .. m -> Nat] /\ off[0] = 0 /\ \A i \in 1 .. m : off[i] = off[i - 1] + Len(s[i])
    BY <1>10 DEF Offsets, m
  <2>1. 0 \in Good
    <3>1. \A j \in 1 .. m : ~(j <= 0)
      BY <1>1
    <3> QED
      BY <3>1, <2>0, <1>1, <1>4
  <2>2. ASSUME NEW i \in 0 .. m, i \in Good /\ i < m PROVE i + 1 \in Good
    <3> DEFINE n == i + 1
    <3>1. n \in 1 .. m /\ n - 1 = i /\ n \in 0 .. m /\ i \in Nat
      BY <1>1, <2>2
    <3>2. /\ part(n) = part(i) \o s[n] /\ part(i) \in Seq(X) /\ s[n] \in Seq(X)
          /\ Len(part(n)) = Len(part(i)) + Len(s[n])
          /\ off[n] = off[i] + Len(s[n]) /\ Len(s[n]) \in Nat /\ off[i] \in Nat
          /\ Len(part(i)) = off[i]
      BY <3>1, <2>0, <2>2, <1>1, <1>7, <1>8
    <3>3. ASSUME NEW p \in 1 .. off[n]
          PROVE  part(n)[p] = IF p <= off[i] THEN part(i)[p] ELSE s[n][p - off[i]]
      <4> DEFINE a == part(i)
                 b == s[n]
      <4>1. \A x \in 1 .. Len(a) + Len(b) : (a \o b)[x] = IF x <= Len(a) THEN a[x] ELSE b[x - Len(a)]
        BY <3>2, ConcatProperties
      <4>2. p \in 1 .. Len(a) + Len(b) /\ Len(a) = off[i] /\ part(n) = a \o b
        BY <3>2
      <4> HIDE DEF a, b
      <4>3. part(n)[p] = IF p <= off[i] THEN a[p] ELSE b[p - off[i]]
        BY <4>1, <4>2
      <4> QED
        BY <4>3 DEF a, b
    <3>4. ASSUME NEW j \in 1 .. m, NEW k \in 1 .. Len(s[j]), j <= n
          PROVE  off[j - 1] + k \in 1 .. off[n] /\ part(n)[off[j - 1] + k] = s[j][k]
      <4>1. CASE j = n
        <5> DEFINE x == off[i] + k
        <5>1. x \in 1 .. off[n] /\ ~(x <= off[i]) /\ x - off[i] = k
          <6> DEFINE a == off[i]
                     b == Len(s[n])
          <6>1. a \in Nat /\ b \in Nat /\ off[n] = a + b /\ k \in 1 .. b
            BY <4>1, <3>2
          <6> HIDE DEF a, b
          <6>2. a + k \in 1 .. off[n] /\ ~(a + k <= a) /\ (a + k) - a = k
            BY <6>1
          <6> QED
            BY <6>2 DEF a
        <5> HIDE DEF x
        <5>2. part(n)[x] = s[n][k]
          BY <5>1, <3>3
        <5>3. off[j - 1] + k = x
          BY <4>1, <3>1 DEF x
        <5> QED
          BY <4>1, <5>1, <5>2, <5>3
      <4>2. CASE j # n
        <5>1. j <= i
          BY <4>2, <3>4, <3>1
        <5>2. off[j - 1] + k \in 1 .. off[i] /\ part(i)[off[j - 1] + k] = s[j][k]
          BY <5>1, <2>2
        <5> DEFINE x == off[j - 1] + k
        <5>3. x \in 1 .. off[i] /\ part(i)[x] = s[j][k]
          BY <5>2
        <5> HIDE DEF x, n
        <5>4. x \in 1 .. off[n] /\ x <= off[i]
          BY <5>3, <3>2
        <5>5. part(n)[x] = s[j][k]
          BY <5>3, <5>4, <3>3
        <5> QED
          BY <5>4, <5>5 DEF x
      <4> QED
        BY <4>1, <4>2
    <3>5. Len(part(n)) = off[n]
      BY <3>2
    <3> QED
      BY <3>1, <3>4, <3>5
  <2>3. m \in Good
    <3> HIDE DEF Good
    <3>1. \A i \in 0 .. m : i \in Good
      BY <1>1, <2>1, <2>2, Upwards
    <3>2. m \in 0 .. m
      BY <1>1
    <3> QED
      BY <3>1, <3>2
  <2>4. \A j \in 1 .. m : j <= m
    BY <1>1
  <2> QED
    BY <2>3, <2>4
<1>11. FlattenSeq(s) \in Seq(X)
  BY <1>1, <1>6, <1>7
<1> QED
  BY <1>6, <1>9, <1>10, <1>11 DEF m, Joined

\* One more piece comes behind the others.
LEMMA FlattenAppend ==
    ASSUME NEW X, NEW s \in Seq(Seq(X)), NEW x \in Seq(X)
    PROVE  FlattenSeq(Append(s, x)) = FlattenSeq(s) \o x
<1> DEFINE t == Append(s, x)
           m == Len(s)
<1>1. /\ m \in Nat /\ Len(t) = m + 1 /\ t[m + 1] = x /\ \A i \in 1 .. m : t[i] = s[i]
      /\ t \in Seq(Seq(X))
  BY AppendProperties, LenProperties
<1>2. PICK f : Flattens(s, m, f) /\ FlattenSeq(s) = IF m = 0 THEN s ELSE f[m]
  BY <1>1, Flattened
<1>3. PICK g : Flattens(t, m + 1, g) /\ FlattenSeq(t) = g[m + 1]
  <2>1. Len(t) \in Nat /\ Len(t) # 0
    BY <1>1
  <2>2. PICK g : Flattens(t, Len(t), g) /\ FlattenSeq(t) = IF Len(t) = 0 THEN t ELSE g[Len(t)]
    BY <2>1, Flattened
  <2> HIDE DEF t
  <2> QED
    BY <2>1, <2>2, <1>1
<1> HIDE DEF t
<1>4. CASE m = 0
  <2>1. s = <<>> /\ FlattenSeq(s) = <<>>
    BY <1>2, <1>4, EmptySeq DEF m
  <2>2. g[1] = t[1]
    BY <1>3, <1>4 DEF Flattens
  <2>3. FlattenSeq(t) = x
    BY <2>2, <1>1, <1>3, <1>4
  <2> QED
    BY <2>1, <2>3, ConcatEmptySeq DEF t
<1> HIDE DEF m
<1>5. CASE m # 0
  <2>1. /\ \A i \in 1 .. m : f[i] = IF i = 1 THEN s[i] ELSE f[i - 1] \o s[i]
        /\ \A i \in 1 .. m + 1 : g[i] = IF i = 1 THEN t[i] ELSE g[i - 1] \o t[i]
    BY <1>2, <1>3 DEF Flattens
  <2> DEFINE Good == {i \in 0 .. m : i # 0 => g[i] = f[i]}
  <2>2. 0 \in Good
    BY <1>1
  <2>3. ASSUME NEW i \in 0 .. m, i \in Good /\ i < m PROVE i + 1 \in Good
    <3> DEFINE n == i + 1
    <3>1. n \in 1 .. m /\ n \in 1 .. m + 1 /\ n \in 0 .. m /\ n - 1 = i /\ (n = 1 <=> i = 0)
      BY <1>1, <2>3
    <3> HIDE DEF n
    <3>2. g[n] = f[n]
      BY <3>1, <2>1, <2>3, <1>1
    <3> QED
      BY <3>1, <3>2 DEF n
  <2> HIDE DEF Good
  <2>4. \A i \in 0 .. m : i \in Good
    BY <1>1, <2>2, <2>3, Upwards
  <2>5. g[m] = f[m]
    <3>1. m \in 0 .. m
      BY <1>1
    <3> QED
      BY <3>1, <2>4, <1>5 DEF Good
  <2>6. g[m + 1] = g[m] \o t[m + 1]
    <3>1. m + 1 \in 1 .. m + 1 /\ m + 1 # 1 /\ (m + 1) - 1 = m
      BY <1>1, <1>5
    <3> QED
      BY <3>1, <2>1
  <2> QED
    BY <2>5, <2>6, <1>1, <1>2, <1>3, <1>5 DEF t
<1> QED
  BY <1>4, <1>5

\* Concatenation is associative.
Regroups(a, b, c) == (a \o b) \o c = a \o (b \o c)

LEMMA RegroupsAll ==
    ASSUME NEW X, NEW a \in Seq(X), NEW b \in Seq(X), NEW c \in Seq(X)
    PROVE  Regroups(a, b, c)
  BY ConcatAssociative DEF Regroups

\* Pieces behind pieces are a text behind a text.
LEMMA FlattenConcat ==
    ASSUME NEW X, NEW a \in Seq(Seq(X)), NEW b \in Seq(Seq(X))
    PROVE  FlattenSeq(a \o b) = FlattenSeq(a) \o FlattenSeq(b)
<1> DEFINE n == Len(b)
           c(i) == SubSeq(b, 1, i)
           Good == {i \in 0 .. n : FlattenSeq(a \o c(i)) = FlattenSeq(a) \o FlattenSeq(c(i))}
<1>1. n \in Nat /\ FlattenSeq(a) \in Seq(X)
  BY LenProperties, FlattenOf
<1>2. FlattenSeq(<<>>) = <<>>
  <2>1. Len(<<>>) = 0
    BY EmptySeq
  <2> QED
    BY <2>1, Flattened
<1>3. 0 \in Good
  <2>1. c(0) = <<>>
    BY SubSeqEmpty
  <2>2. a \o <<>> = a /\ FlattenSeq(a) \o <<>> = FlattenSeq(a)
    BY <1>1, ConcatEmptySeq
  <2>3. FlattenSeq(a \o c(0)) = FlattenSeq(a) \o FlattenSeq(c(0))
    BY <2>1, <2>2, <1>2
  <2>4. 0 \in 0 .. n
    BY <1>1
  <2> QED
    BY <2>3, <2>4
<1>4. ASSUME NEW i \in 0 .. n, i \in Good /\ i < n PROVE i + 1 \in Good
  <2> DEFINE d == c(i)
             x == b[i + 1]
  <2>1. i + 1 \in 1 .. n /\ i \in Nat /\ i + 1 \in 0 .. n
    BY <1>1, <1>4
  <2>2. d \in Seq(Seq(X)) /\ x \in Seq(X) /\ c(i + 1) = Append(d, x)
    BY <2>1, <1>4, Prefix
  <2> HIDE DEF d, x
  <2>3. /\ a \o Append(d, x) = Append(a \o d, x)
        /\ a \o d \in Seq(Seq(X))
    <3>1. <<x>> \in Seq(Seq(X)) /\ a \o d \in Seq(Seq(X))
      BY <2>2, ConcatProperties
    <3>2. Append(d, x) = d \o <<x>> /\ Append(a \o d, x) = (a \o d) \o <<x>>
      BY <2>2, <3>1, AppendIsConcat
    <3>3. Regroups(a, d, <<x>>)
      BY <2>2, <3>1, RegroupsAll
    <3> QED
      BY <3>1, <3>2, <3>3 DEF Regroups
  <2>4. FlattenSeq(Append(a \o d, x)) = FlattenSeq(a \o d) \o x
    BY <2>2, <2>3, FlattenAppend
  <2>5. FlattenSeq(Append(d, x)) = FlattenSeq(d) \o x /\ FlattenSeq(d) \in Seq(X)
    BY <2>2, FlattenAppend, FlattenOf
  <2>6. Regroups(FlattenSeq(a), FlattenSeq(d), x)
    BY <2>2, <2>5, <1>1, RegroupsAll
  <2>7. FlattenSeq(a \o d) = FlattenSeq(a) \o FlattenSeq(d)
    BY <1>4 DEF d
  <2>8. FlattenSeq(a \o c(i + 1)) = FlattenSeq(a) \o FlattenSeq(c(i + 1))
    BY <2>2, <2>3, <2>4, <2>5, <2>6, <2>7 DEF Regroups
  <2> QED
    BY <2>1, <2>8
<1> HIDE DEF Good, n
<1>5. \A i \in 0 .. n : i \in Good
  BY <1>1, <1>3, <1>4, Upwards
<1>6. FlattenSeq(a \o c(n)) = FlattenSeq(a) \o FlattenSeq(c(n))
  <2>1. n \in 0 .. n
    BY <1>1
  <2> QED
    BY <2>1, <1>5 DEF Good
<1>7. c(n) = b
  BY SubSeqFull DEF n
<1> QED
  BY <1>6, <1>7

\* Nothing but empty pieces is an empty text.
LEMMA FlattenNothing ==
    ASSUME NEW X, NEW s \in Seq(Seq(X)), \A i \in 1 .. Len(s) : s[i] = <<>>
    PROVE  FlattenSeq(s) = <<>>
<1> DEFINE off == [i \in 0 .. Len(s) |-> 0]
<1>1. Len(<<>>) = 0 /\ Len(s) \in Nat /\ FlattenSeq(s) \in Seq(X)
  BY EmptySeq, LenProperties, FlattenOf
<1>2. \A i \in 1 .. Len(s) : Len(s[i]) = 0 /\ off[i] = 0 /\ off[i - 1] = 0
  BY <1>1
<1>3. Offsets(s, off)
  <2>1. off \in [0 .. Len(s) -> Nat] /\ off[0] = 0
    BY <1>1
  <2> HIDE DEF off
  <2> QED
    BY <1>2, <2>1 DEF Offsets
<1>4. Len(FlattenSeq(s)) = off[Len(s)]
  BY <1>3, FlattenOf DEF Joined
<1>5. off[Len(s)] = 0
  BY <1>1
<1> QED
  BY <1>1, <1>4, <1>5, EmptySeq

\* Two ways to cut the end of a text.
Recut(a, f, r, p, d) == f \o r = p \o d => (a \o f) \o r = (a \o p) \o d

LEMMA RecutOf ==
    ASSUME NEW X, NEW a \in Seq(X), NEW f \in Seq(X), NEW r \in Seq(X),
           NEW p \in Seq(X), NEW d \in Seq(X)
    PROVE  Recut(a, f, r, p, d)
<1>1. Regroups(a, f, r) /\ Regroups(a, p, d)
  BY RegroupsAll
<1> QED
  BY ONLY <1>1 DEF Regroups, Recut

-----------------------------------------------------------------------------
(* The bytes of a chunk *)

\* The bytes of a chunk, and its line ends among them.
LEMMA NewlinesOf ==
    ASSUME NEW d \in Seq(Bytes)
    PROVE  /\ Len(d) \in Nat /\ DOMAIN d = 1 .. Len(d)
           /\ Newlines(d) \in SUBSET Nat /\ IsFiniteSet(Newlines(d))
           /\ \A k : {j \in Newlines(d) : j < k} \in SUBSET Newlines(d)
           /\ \A k : /\ IsFiniteSet({j \in Newlines(d) : j < k})
                     /\ Cardinality({j \in Newlines(d) : j < k}) \in Nat
           /\ Cardinality(Newlines(d)) \in Nat
<1>1. Len(d) \in Nat /\ DOMAIN d = 1 .. Len(d)
  BY LenProperties
<1>2. Newlines(d) \in SUBSET (1 .. Len(d))
  BY <1>1 DEF Newlines
<1>3. IsFiniteSet(Newlines(d)) /\ Cardinality(Newlines(d)) \in Nat
  <2>1. IsFiniteSet(1 .. Len(d))
    BY <1>1, FS_Interval
  <2>2. IsFiniteSet(Newlines(d))
    BY <1>2, <2>1, FS_Subset
  <2> QED
    BY <2>2, FS_CardinalityType
<1>4. \A k : {j \in Newlines(d) : j < k} \in SUBSET Newlines(d)
  OBVIOUS
<1>5. \A k : IsFiniteSet({j \in Newlines(d) : j < k})
  BY <1>3, <1>4, FS_Subset
<1>6. \A k : Cardinality({j \in Newlines(d) : j < k}) \in Nat
  BY <1>5, FS_CardinalityType
<1>7. Newlines(d) \in SUBSET Nat
  BY <1>1, <1>2
<1> QED
  BY <1>1, <1>3, <1>4, <1>5, <1>6, <1>7

\* Trimming n lines leaves the bytes that n line ends precede.
LEMMA TrimOf ==
    ASSUME NEW d \in Seq(Bytes), NEW n \in Nat
    PROVE  \E cut \in 0 .. Len(d) :
              /\ TrimLeadingLines(d, n) = SubSeq(d, cut + 1, Len(d))
              /\ \A k \in DOMAIN d : k > cut <=> Cardinality({j \in Newlines(d) : j < k}) >= n
<1> DEFINE Before(k) == {j \in Newlines(d) : j < k}
           ends == Newlines(d)
<1>0. Len(d) \in Nat /\ DOMAIN d = 1 .. Len(d) /\ Cardinality(ends) \in Nat
  BY NewlinesOf
<1>1. \A k : Before(k) \in SUBSET ends /\ IsFiniteSet(Before(k)) /\ Cardinality(Before(k)) \in Nat
  BY NewlinesOf
<1>2. ends \in SUBSET Nat /\ IsFiniteSet(ends) /\ ends \in SUBSET (1 .. Len(d))
  BY <1>0, NewlinesOf DEF Newlines
<1>3. CASE n = 0
  <2>1. TrimLeadingLines(d, n) = SubSeq(d, 0 + 1, Len(d))
    BY <1>3, SubSeqFull DEF TrimLeadingLines
  <2>2. \A k \in DOMAIN d : k > 0 <=> Cardinality(Before(k)) >= n
    BY <1>0, <1>1, <1>3
  <2> QED
    BY <2>1, <2>2, <1>0
<1>4. CASE n # 0 /\ Cardinality(ends) < n
  <2>1. TrimLeadingLines(d, n) = SubSeq(d, Len(d) + 1, Len(d))
    BY <1>4, <1>0, SubSeqEmpty DEF TrimLeadingLines
  <2>2. \A k \in DOMAIN d : k > Len(d) <=> Cardinality(Before(k)) >= n
    <3> TAKE k \in DOMAIN d
    <3>1. Cardinality(Before(k)) <= Cardinality(ends)
      BY <1>1, <1>2, FS_Subset
    <3>2. Cardinality(Before(k)) \in Nat
      BY <1>1
    <3>3. k \in Nat /\ ~(k > Len(d))
      BY <1>0
    <3> HIDE DEF Before, ends
    <3> QED
      BY <3>1, <3>2, <3>3, <1>0, <1>4
  <2> QED
    BY <2>1, <2>2, <1>0
<1>5. CASE n # 0 /\ n <= Cardinality(ends)
  <2> DEFINE cut == Nth(ends, n)
  <2>1. cut \in ends /\ Rank(ends, cut) = n
    BY <1>0, <1>2, <1>5, Ranks
  <2>2. TrimLeadingLines(d, n) = SubSeq(d, cut + 1, Len(d))
    <3>1. n # 0 /\ ~(Cardinality(Newlines(d)) < n)
      BY <1>0, <1>5
    <3> QED
      BY <3>1 DEF TrimLeadingLines
  <2> HIDE DEF cut, ends
  <2> DEFINE Upto == {j \in ends : j <= cut}
  <2>3. cut \in 1 .. Len(d) /\ \A j \in ends : j \in Nat
    BY <2>1, <1>2
  <2>4. IsFiniteSet(Upto) /\ Cardinality(Upto) = n /\ cut \in Upto
    <3>1. Upto \in SUBSET ends /\ cut \in Upto
      BY <2>1, <2>3
    <3> QED
      BY <2>1, <3>1, <1>2, FS_Subset DEF Rank
  <2>5. \A k \in DOMAIN d : k > cut <=> Cardinality({j \in ends : j < k}) >= n
    <3> TAKE k \in DOMAIN d
    <3>0. k \in Nat /\ cut \in Nat
      BY <1>0, <2>3
    <3>1. CASE k > cut
      <4>1. Upto \in SUBSET {j \in ends : j < k}
        BY <2>3, <3>0, <3>1
      <4>2. Cardinality(Upto) <= Cardinality({j \in ends : j < k})
        BY <4>1, <1>1, FS_Subset DEF ends
      <4> QED
        BY <4>2, <3>1, <2>4
    <3>2. CASE ~(k > cut)
      <4>1. {j \in ends : j < k} \in SUBSET (Upto \ {cut})
        BY <2>3, <3>0, <3>2
      <4>2. IsFiniteSet(Upto \ {cut}) /\ Cardinality(Upto \ {cut}) = n - 1
        BY <2>4, FS_RemoveElement
      <4>3. Cardinality({j \in ends : j < k}) <= n - 1
        BY <4>1, <4>2, FS_Subset
      <4>4. Cardinality({j \in ends : j < k}) \in Nat
        BY <1>1 DEF ends
      <4> QED
        BY <4>3, <4>4, <3>2
    <3> QED
      BY <3>1, <3>2
  <2>6. cut \in 0 .. Len(d)
    BY <2>3, <1>0
  <2> QED
    BY <2>2, <2>5, <2>6 DEF ends
<1>6. (n = 0) \/ (n # 0 /\ Cardinality(ends) < n) \/ (n # 0 /\ n <= Cardinality(ends))
  BY <1>0
<1> QED
  BY <1>3, <1>4, <1>5, <1>6

-----------------------------------------------------------------------------
(* Rows, and the lines counted over them *)

\* What a row holds.
LEMMA Stored ==
    ASSUME log \in Seq(Chunks)
    PROVE  /\ Len(log) \in Nat /\ DOMAIN log = 1 .. Len(log)
           /\ \A i \in DOMAIN log :
                /\ i \in Nat /\ i > 0
                /\ log[i] \in Chunks
                /\ log[i].data \in Seq(Bytes) /\ log[i].data # <<>>
                /\ Len(log[i].data) \in Nat \ {0}
                /\ DOMAIN log[i].data = 1 .. Len(log[i].data)
<1>1. Len(log) \in Nat /\ DOMAIN log = 1 .. Len(log)
  BY LenProperties
<1>2. ASSUME NEW i \in DOMAIN log
      PROVE  /\ i \in Nat /\ i > 0
             /\ log[i] \in Chunks
             /\ log[i].data \in Seq(Bytes) /\ log[i].data # <<>>
             /\ Len(log[i].data) \in Nat \ {0}
             /\ DOMAIN log[i].data = 1 .. Len(log[i].data)
  <2>1. i \in 1 .. Len(log) /\ log[i] \in Chunks
    BY <1>1, ElementOfSeq
  <2>2. log[i].data \in Data
    BY <2>1 DEF Chunks
  <2>3. log[i].data \in Seq(Bytes) /\ log[i].data # <<>>
    BY <2>2, OutputAssumption
  <2>4. Len(log[i].data) \in Nat \ {0} /\ DOMAIN log[i].data = 1 .. Len(log[i].data)
    BY <2>3, EmptySeq, LenProperties
  <2> QED
    BY <1>1, <2>1, <2>3, <2>4
<1> QED
  BY <1>1, <1>2

\* The rows a query selects.
LEMMA SelectedOf ==
    ASSUME log \in Seq(Chunks), NEW q, NEW after \in Nat
    PROVE  /\ Selected(q, after) \in SUBSET Nat
           /\ IsFiniteSet(Selected(q, after))
           /\ Selected(q, after) \subseteq DOMAIN log
           /\ \A i : i \in Selected(q, after) <=> i \in Selected(q, 0) /\ i > after
<1>1. Len(log) \in Nat /\ DOMAIN log = 1 .. Len(log)
  BY Stored
<1>2. Selected(q, after) \in SUBSET (1 .. Len(log))
  BY <1>1 DEF Selected
<1>3. IsFiniteSet(1 .. Len(log))
  BY <1>1, FS_Interval
<1>4. IsFiniteSet(Selected(q, after))
  BY <1>2, <1>3, FS_Subset
<1>5. \A i : i \in Selected(q, after) <=> i \in Selected(q, 0) /\ i > after
  BY <1>1 DEF Selected
<1> QED
  BY <1>1, <1>2, <1>4, <1>5

\* The line ends of rows: which they are, and that there are finitely many.
LEMMA LineEndsOf ==
    ASSUME log \in Seq(Chunks), NEW rows \in SUBSET DOMAIN log, IsFiniteSet(rows), NEW i
    PROVE  /\ \A e : e \in LineEnds(rows, i) <=>
                       \E j \in rows : \E p \in Newlines(log[j].data) : j >= i /\ e = <<j, p>>
           /\ IsFiniteSet(LineEnds(rows, i))
<1> DEFINE R == {j \in rows : j >= i}
           f == [j \in R |-> {j} \X Newlines(log[j].data)]
           U == {{j} \X Newlines(log[j].data) : j \in R}
<1>1. LineEnds(rows, i) = UNION U
  BY DEF LineEnds
<1>2. \A e : e \in UNION U <=> \E j \in rows : \E p \in Newlines(log[j].data) : j >= i /\ e = <<j, p>>
  OBVIOUS
<1>3. IsFiniteSet(R)
  <2>1. R \in SUBSET rows
    OBVIOUS
  <2> QED
    BY <2>1, FS_Subset
<1>4. f \in Surjection(R, U)
  BY DEF Surjection
<1>5. IsFiniteSet(U)
  BY <1>3, <1>4, FS_Surjection
<1>6. ASSUME NEW T \in U PROVE IsFiniteSet(T)
  <2>1. PICK j \in R : T = {j} \X Newlines(log[j].data)
    OBVIOUS
  <2>2. log[j].data \in Seq(Bytes)
    BY Stored
  <2>3. IsFiniteSet({j}) /\ IsFiniteSet(Newlines(log[j].data))
    BY <2>2, NewlinesOf, FS_Singleton
  <2> QED
    BY <2>1, <2>3, FS_Product
<1>7. IsFiniteSet(UNION U)
  BY <1>5, <1>6, FS_UNION
<1> QED
  BY <1>1, <1>2, <1>7

\* The lines that end at or after byte k of row i, counted as seek_tail does.
LinesAt(rows, i, k) ==
    Cardinality({e \in LineEnds(rows, i) : e[1] > i \/ e[2] >= k})
      + IF Last(log[Max(rows)].data) = NL THEN 0 ELSE 1

LEMMA LineCounts ==
    ASSUME log \in Seq(Chunks), NEW rows \in SUBSET DOMAIN log, IsFiniteSet(rows), NEW i, NEW k
    PROVE  LinesFrom(rows, i) \in Nat /\ LinesAt(rows, i, k) \in Nat
<1> DEFINE At == {e \in LineEnds(rows, i) : e[1] > i \/ e[2] >= k}
<1>1. IsFiniteSet(LineEnds(rows, i)) /\ At \in SUBSET LineEnds(rows, i)
  BY LineEndsOf
<1>2. IsFiniteSet(At)
  BY <1>1, FS_Subset
<1>3. Cardinality(LineEnds(rows, i)) \in Nat /\ Cardinality(At) \in Nat
  BY <1>1, <1>2, FS_CardinalityType
<1> QED
  BY <1>3 DEF LinesFrom, LinesAt

\* Of the lines counted from a row on, those that end before a byte of it.
LEMMA LinesSplit ==
    ASSUME log \in Seq(Chunks), NEW rows \in SUBSET DOMAIN log, IsFiniteSet(rows),
           NEW i \in rows, NEW k \in Nat
    PROVE  LinesFrom(rows, i)
             = Cardinality({j \in Newlines(log[i].data) : j < k}) + LinesAt(rows, i, k)
<1> DEFINE Before == {j \in Newlines(log[i].data) : j < k}
           At == {e \in LineEnds(rows, i) : e[1] > i \/ e[2] >= k}
           Pairs == {i} \X Before
<1>0. i \in Nat /\ log[i].data \in Seq(Bytes) /\ \A j \in rows : j \in Nat
  BY Stored
<1>1. Newlines(log[i].data) \in SUBSET Nat /\ IsFiniteSet(Before) /\ Cardinality(Before) \in Nat
  BY <1>0, NewlinesOf
<1>2. IsFiniteSet(Pairs) /\ Cardinality(Pairs) = Cardinality(Before)
  <2>1. IsFiniteSet({i}) /\ Cardinality({i}) = 1
    BY FS_Singleton
  <2>2. IsFiniteSet(Pairs) /\ Cardinality(Pairs) = 1 * Cardinality(Before)
    BY <2>1, <1>1, FS_Product
  <2> QED
    BY <2>2, <1>1
<1>3. IsFiniteSet(LineEnds(rows, i)) /\ IsFiniteSet(At) /\ Cardinality(At) \in Nat
  <2>1. IsFiniteSet(LineEnds(rows, i)) /\ At \in SUBSET LineEnds(rows, i)
    BY LineEndsOf
  <2> QED
    BY <2>1, FS_Subset, FS_CardinalityType
<1>4. LineEnds(rows, i) = Pairs \cup At /\ Pairs \cap At = {}
  <2>1. ASSUME NEW e \in LineEnds(rows, i) PROVE e \in Pairs \cup At
    <3>0. PICK j \in rows : \E p \in Newlines(log[j].data) : j >= i /\ e = <<j, p>>
      BY LineEndsOf
    <3>1. PICK p \in Newlines(log[j].data) : j >= i /\ e = <<j, p>>
      BY <3>0
    <3>2. e[1] = j /\ e[2] = p /\ j \in Nat
      BY <3>1, <1>0
    <3>3. CASE j = i
      <4>1. p \in Nat
        BY <3>3, <1>1
      <4>2. (p < k => e \in Pairs) /\ (p >= k => e \in At)
        BY <3>1, <3>2, <3>3
      <4> QED
        BY <4>1, <4>2
    <3>4. CASE j # i
      BY <3>1, <3>2, <3>4, <1>0
    <3> QED
      BY <3>3, <3>4
  <2>2. ASSUME NEW e \in Pairs PROVE e \in LineEnds(rows, i) /\ e \notin At
    <3>1. PICK p \in Newlines(log[i].data) : p < k /\ e = <<i, p>>
      OBVIOUS
    <3>2. i >= i /\ ~(i > i) /\ p \in Nat /\ ~(p >= k)
      BY <3>1, <1>0, <1>1
    <3>3. e \in LineEnds(rows, i)
      BY <3>1, <3>2, LineEndsOf
    <3> QED
      BY <3>1, <3>2, <3>3
  <2> QED
    BY <2>1, <2>2
<1>5. Cardinality(LineEnds(rows, i)) = Cardinality(Before) + Cardinality(At)
  <2>1. Cardinality(Pairs \cup At) = Cardinality(Pairs) + Cardinality(At) - Cardinality(Pairs \cap At)
    BY <1>2, <1>3, FS_Union
  <2>2. Cardinality(Pairs \cap At) = 0
    BY <1>4, FS_EmptySet
  <2> HIDE DEF Pairs, At, Before
  <2> QED
    BY <2>1, <2>2, <1>1, <1>2, <1>3, <1>4
<1>6. LinesFrom(rows, i) = Cardinality(LineEnds(rows, i)) + IF Last(log[Max(rows)].data) = NL THEN 0 ELSE 1
  BY DEF LinesFrom
<1>7. LinesAt(rows, i, k) = Cardinality(At) + IF Last(log[Max(rows)].data) = NL THEN 0 ELSE 1
  BY DEF LinesAt
<1> HIDE DEF At, Before
<1>8. LinesFrom(rows, i) = Cardinality(Before) + LinesAt(rows, i, k)
  BY <1>1, <1>3, <1>5, <1>6, <1>7
<1> QED
  BY <1>8 DEF Before

\* The further on, the fewer lines.
LEMMA LinesFall ==
    ASSUME log \in Seq(Chunks), NEW rows \in SUBSET DOMAIN log, IsFiniteSet(rows),
           NEW i \in rows, NEW j \in rows, i < j, NEW k
    PROVE  LinesFrom(rows, j) <= LinesAt(rows, i, k)
<1> DEFINE At == {e \in LineEnds(rows, i) : e[1] > i \/ e[2] >= k}
<1>0. i \in Nat /\ j \in Nat /\ \A l \in rows : l \in Nat
  BY Stored
<1>1. LineEnds(rows, j) \in SUBSET At
  <2> SUFFICES ASSUME NEW e \in LineEnds(rows, j) PROVE e \in At
    OBVIOUS
  <2>0. PICK l \in rows : \E p \in Newlines(log[l].data) : l >= j /\ e = <<l, p>>
    BY LineEndsOf
  <2>1. PICK p \in Newlines(log[l].data) : l >= j /\ e = <<l, p>>
    BY <2>0
  <2>2. l >= i /\ l > i
    BY <2>1, <1>0
  <2>3. e \in LineEnds(rows, i)
    BY <2>1, <2>2, LineEndsOf
  <2> QED
    BY <2>1, <2>2, <2>3
<1>2. IsFiniteSet(At)
  <2>1. At \in SUBSET LineEnds(rows, i) /\ IsFiniteSet(LineEnds(rows, i))
    BY LineEndsOf
  <2> QED
    BY <2>1, FS_Subset
<1>3. Cardinality(LineEnds(rows, j)) <= Cardinality(At)
  BY <1>1, <1>2, FS_Subset
<1>4. Cardinality(LineEnds(rows, j)) \in Nat /\ Cardinality(At) \in Nat
  BY <1>1, <1>2, FS_Subset, FS_CardinalityType
<1> QED
  BY <1>3, <1>4 DEF LinesFrom, LinesAt

\* At least one line ends at or after any byte, and one at the last of all.
LEMMA LastLine ==
    ASSUME log \in Seq(Chunks), NEW rows \in SUBSET DOMAIN log, IsFiniteSet(rows), rows # {}
    PROVE  /\ Max(rows) \in rows /\ \A i \in rows : i <= Max(rows)
           /\ \A i \in rows : \A k \in DOMAIN log[i].data : LinesAt(rows, i, k) > 0
           /\ LinesAt(rows, Max(rows), Len(log[Max(rows)].data)) = 1
<1> DEFINE m == Max(rows)
           d == log[m].data
           end == <<m, Len(d)>>
           At(i, k) == {e \in LineEnds(rows, i) : e[1] > i \/ e[2] >= k}
<1>0. rows \in SUBSET Nat /\ \A i \in rows : i \in Nat
  BY Stored
<1>1. m \in rows /\ \A i \in rows : i <= m
  BY <1>0, Extremes
<1>2. d \in Seq(Bytes) /\ Len(d) \in Nat \ {0} /\ DOMAIN d = 1 .. Len(d)
  BY <1>1, Stored
<1>3. Last(d) = d[Len(d)]
  BY DEF Last
<1> HIDE DEF m, d
<1>4. Last(d) = NL => Len(d) \in Newlines(d)
  <2>1. Len(d) \in DOMAIN d
    BY <1>2
  <2> QED
    BY <2>1, <1>3 DEF Newlines
<1>5. ASSUME NEW i \in rows, NEW k
      PROVE  /\ IsFiniteSet(At(i, k)) /\ Cardinality(At(i, k)) \in Nat
             /\ LinesAt(rows, i, k) = Cardinality(At(i, k)) + IF Last(d) = NL THEN 0 ELSE 1
  <2>1. At(i, k) \in SUBSET LineEnds(rows, i) /\ IsFiniteSet(LineEnds(rows, i))
    BY LineEndsOf
  <2>2. IsFiniteSet(At(i, k)) /\ Cardinality(At(i, k)) \in Nat
    BY <2>1, FS_Subset, FS_CardinalityType
  <2>3. LinesAt(rows, i, k) = Cardinality(At(i, k)) + IF Last(d) = NL THEN 0 ELSE 1
    BY DEF LinesAt, m, d
  <2> QED
    BY <2>2, <2>3
<1>6. ASSUME NEW i \in rows, NEW k \in DOMAIN log[i].data
      PROVE  LinesAt(rows, i, k) > 0
  <2>1. CASE Last(d) = NL
    <3>1. m >= i /\ Len(d) \in Newlines(d) /\ i \in Nat /\ m \in Nat
      BY <1>0, <1>1, <1>4, <2>1
    <3>2. end \in LineEnds(rows, i)
      BY <3>1, <1>1, LineEndsOf DEF d
    <3>3. m > i \/ Len(d) >= k
      <4>1. CASE m = i
        BY <4>1, <1>2 DEF d
      <4> QED
        BY <4>1, <3>1
    <3>4. end \in At(i, k)
      BY <3>2, <3>3
    <3>5. Cardinality(At(i, k)) # 0
      BY <3>4, <1>5, FS_EmptySet
    <3> HIDE DEF At
    <3> QED
      BY <3>5, <2>1, <1>5
  <2>2. CASE Last(d) # NL
    <3> HIDE DEF At
    <3> QED
      BY <2>2, <1>5
  <2> QED
    BY <2>1, <2>2
<1>7. LinesAt(rows, m, Len(d)) = 1
  <2>1. \A e \in At(m, Len(d)) : e = end /\ Last(d) = NL
    <3> TAKE e \in At(m, Len(d))
    <3>0. PICK j \in rows : \E p \in Newlines(log[j].data) : j >= m /\ e = <<j, p>>
      BY LineEndsOf
    <3>1. PICK p \in Newlines(log[j].data) : j >= m /\ e = <<j, p>>
      BY <3>0
    <3>2. j = m
      BY <3>1, <1>0, <1>1
    <3>3. p \in Newlines(d) /\ p \in 1 .. Len(d) /\ d[p] = NL
      BY <3>1, <3>2, <1>2 DEF Newlines, d
    <3>4. p >= Len(d)
      BY <3>1, <3>2, <1>0
    <3>5. p = Len(d)
      <4>1. p \in Nat /\ Len(d) \in Nat /\ p <= Len(d)
        BY <3>3, <1>2
      <4> QED
        BY <4>1, <3>4
    <3> QED
      BY <3>1, <3>2, <3>3, <3>5, <1>3
  <2>2. CASE Last(d) = NL
    <3>1. m >= m /\ Len(d) >= Len(d)
      BY <1>0, <1>1, <1>2
    <3>2. end \in LineEnds(rows, m)
      BY <3>1, <2>2, <1>1, <1>4, LineEndsOf DEF d
    <3>3. At(m, Len(d)) = {end}
      BY <2>1, <3>1, <3>2
    <3>4. Cardinality(At(m, Len(d))) = 1
      BY <3>3, FS_Singleton
    <3> HIDE DEF At
    <3> QED
      BY <3>4, <2>2, <1>1, <1>5
  <2>3. CASE Last(d) # NL
    <3>1. At(m, Len(d)) = {}
      BY <2>1, <2>3
    <3>2. Cardinality(At(m, Len(d))) = 0
      BY <3>1, FS_EmptySet
    <3> HIDE DEF At
    <3> QED
      BY <3>2, <2>3, <1>1, <1>5
  <2> QED
    BY <2>2, <2>3
<1> QED
  BY <1>1, <1>6, <1>7 DEF m, d

-----------------------------------------------------------------------------
(* What a read returns *)

\* What is sent of a row is its end, from the byte on that as many line ends
\* precede as are trimmed.
LEMMA SentOf ==
    ASSUME log \in Seq(Chunks), NEW rows, NEW trim \in Nat, NEW i \in DOMAIN log
    PROVE  LET d == log[i].data
               s == Sent(rows, trim, i)
               n == IF i = Min(rows) THEN trim ELSE 0
           IN  /\ s \in Seq(Bytes) /\ Len(s) \in 0 .. Len(d)
               /\ s = SubSeq(d, Len(d) - Len(s) + 1, Len(d))
               /\ \A k \in DOMAIN d : k > Len(d) - Len(s)
                                        <=> Cardinality({j \in Newlines(d) : j < k}) >= n
<1> DEFINE d == log[i].data
           s == Sent(rows, trim, i)
           n == IF i = Min(rows) THEN trim ELSE 0
<1>1. d \in Seq(Bytes) /\ Len(d) \in Nat /\ n \in Nat /\ DOMAIN d = 1 .. Len(d)
  BY Stored
<1>2. s = TrimLeadingLines(d, n)
  BY DEF Sent
<1> HIDE DEF d, n
<1>3. PICK cut \in 0 .. Len(d) :
        /\ s = SubSeq(d, cut + 1, Len(d))
        /\ \A k \in DOMAIN d : k > cut <=> Cardinality({j \in Newlines(d) : j < k}) >= n
  BY <1>1, <1>2, TrimOf
<1>4. s \in Seq(Bytes) /\ Len(s) = Len(d) - cut
  <2>1. cut + 1 \in Int /\ Len(d) \in Int /\ \A k \in cut + 1 .. Len(d) : d[k] \in Bytes
    BY <1>1, ElementOfSeq
  <2>2. s \in Seq(Bytes) /\ Len(s) = IF cut + 1 <= Len(d) THEN Len(d) - (cut + 1) + 1 ELSE 0
    BY <1>3, <2>1, SubSeqProperties
  <2> DEFINE l == Len(d)
  <2>3. cut \in Nat /\ l \in Nat /\ cut <= l
    BY <1>1
  <2>4. Len(s) = IF cut + 1 <= l THEN l - (cut + 1) + 1 ELSE 0
    BY <2>2
  <2> HIDE DEF s, l
  <2>5. Len(s) = l - cut
    BY <2>3, <2>4
  <2> QED
    BY <2>2, <2>5 DEF l
<1> HIDE DEF s
<1>5. Len(s) \in 0 .. Len(d) /\ Len(d) - Len(s) = cut
  BY <1>1, <1>4
<1>6. /\ s \in Seq(Bytes) /\ Len(s) \in 0 .. Len(d)
      /\ s = SubSeq(d, Len(d) - Len(s) + 1, Len(d))
      /\ \A k \in DOMAIN d : k > Len(d) - Len(s)
                               <=> Cardinality({j \in Newlines(d) : j < k}) >= n
  BY <1>3, <1>4, <1>5
<1> QED
  BY <1>6 DEF d, s, n

\* Where seek_tail makes a read start.
LEMMA SeekOf ==
    ASSUME log \in Seq(Chunks), NEW q, NEW n \in Nat
    PROVE  LET rows == Selected(q, 0)
               seek == SeekTail(q, n)
           IN  \/ rows = {} /\ seek.start = 0 /\ seek.trim = 0
               \/ n = 0 /\ rows # {} /\ seek.start = Max(rows) /\ seek.trim = 0
               \/ /\ n > 0 /\ rows # {} /\ seek.start = 0 /\ seek.trim = 0
                  /\ \A i \in rows : LinesFrom(rows, i) <= n
               \/ \E m \in rows :
                     /\ n > 0 /\ seek.start = m - 1
                     /\ LinesFrom(rows, m) > n /\ seek.trim = LinesFrom(rows, m) - n
                     /\ \A i \in rows : i > m => LinesFrom(rows, i) <= n
<1> DEFINE rows == Selected(q, 0)
           over == {i \in rows : LinesFrom(rows, i) > n}
           seek == SeekTail(q, n)
<1>1. rows \in SUBSET DOMAIN log /\ rows \in SUBSET Nat /\ IsFiniteSet(rows)
  BY SelectedOf
<1>2. \A i \in rows : LinesFrom(rows, i) \in Nat
  BY <1>1, LineCounts
<1>3. over \in SUBSET rows /\ over \in SUBSET Nat
  BY <1>1
<1>4. IsFiniteSet(over)
  BY <1>1, <1>3, FS_Subset
<1>5. over # {} => Max(over) \in over /\ \A i \in over : i <= Max(over)
  BY <1>3, <1>4, Extremes
<1>6. CASE rows = {} \/ n = 0 \/ over = {}
  <2>1. ASSUME NEW i \in rows, over = {} PROVE LinesFrom(rows, i) <= n
    BY <2>1, <1>2
  <2>2. CASE rows = {} \/ (n > 0 /\ over = {})
    <3>1. seek = [start |-> 0, trim |-> 0]
      BY <2>2 DEF SeekTail
    <3> QED
      BY <2>1, <2>2, <3>1
  <2>3. CASE rows # {} /\ n = 0
    <3>1. seek = [start |-> Max(rows), trim |-> 0]
      BY <2>3 DEF SeekTail
    <3> QED
      BY <2>3, <3>1
  <2> QED
    BY <1>6, <2>2, <2>3
<1>7. CASE ~(rows = {} \/ n = 0 \/ over = {})
  <2>1. seek = [start |-> Max(over) - 1, trim |-> LinesFrom(rows, Max(over)) - n]
    BY <1>7 DEF SeekTail
  <2>2. Max(over) \in rows /\ LinesFrom(rows, Max(over)) > n
    BY <1>5, <1>7
  <2>3. \A i \in rows : i > Max(over) => LinesFrom(rows, i) <= n
    <3> TAKE i \in rows
    <3>1. i \in Nat /\ Max(over) \in Nat /\ LinesFrom(rows, i) \in Nat
      BY <1>1, <1>2, <2>2
    <3>2. i > Max(over) => i \notin over
      BY <1>5, <1>7, <3>1
    <3> QED
      BY <3>1, <3>2
  <2>4. n > 0
    BY <1>7
  <2>5. seek.start = Max(over) - 1 /\ seek.trim = LinesFrom(rows, Max(over)) - n
    BY <2>1
  <2> HIDE DEF seek, rows, over
  <2>6. \E m \in rows :
          /\ n > 0 /\ seek.start = m - 1
          /\ LinesFrom(rows, m) > n /\ seek.trim = LinesFrom(rows, m) - n
          /\ \A i \in rows : i > m => LinesFrom(rows, i) <= n
    BY <2>2, <2>3, <2>4, <2>5
  <2> QED
    BY <2>6 DEF seek, rows
<1> QED
  BY <1>6, <1>7

\* A tail read of n lines sends a byte if and only if at most n lines end at
\* or after it.
LEMMA TailBytes ==
    ASSUME log \in Seq(Chunks), NEW q, NEW n \in Nat
    PROVE  LET rows == Selected(q, 0)
               seek == SeekTail(q, n)
           IN  /\ seek.start \in Nat /\ seek.trim \in Nat
               /\ \A i \in rows : \A k \in DOMAIN log[i].data :
                     LinesAt(rows, i, k) <= n
                       <=> /\ i > seek.start
                           /\ k > Len(log[i].data) - Len(Sent(Selected(q, seek.start), seek.trim, i))
<1> DEFINE rows == Selected(q, 0)
           start == SeekTail(q, n).start
           trim == SeekTail(q, n).trim
           sent(i) == Sent(Selected(q, start), trim, i)
           before(i, k) == Cardinality({j \in Newlines(log[i].data) : j < k})
           Right(i, k) == LinesAt(rows, i, k) <= n <=> i > start /\ k > Len(log[i].data) - Len(sent(i))
<1>1. /\ rows \in SUBSET DOMAIN log /\ rows \in SUBSET Nat /\ IsFiniteSet(rows)
      /\ \A i \in rows : i \in Nat /\ i > 0
  BY SelectedOf, Stored
<1>2. rows # {} => Max(rows) \in rows /\ \A i \in rows : i <= Max(rows)
  BY <1>1, Extremes
<1>3. \A i \in rows : LinesFrom(rows, i) \in Nat /\ \A k : LinesAt(rows, i, k) \in Nat
  BY <1>1, LineCounts
<1>4. ASSUME NEW i \in rows, NEW k \in DOMAIN log[i].data
      PROVE  /\ k \in Nat /\ Len(log[i].data) \in Nat /\ k <= Len(log[i].data) /\ k > 0
             /\ before(i, k) \in Nat
             /\ LinesFrom(rows, i) = before(i, k) + LinesAt(rows, i, k)
             /\ LinesAt(rows, i, k) > 0
  <2>1. k \in Nat /\ Len(log[i].data) \in Nat /\ k <= Len(log[i].data) /\ k > 0
    BY <1>1, Stored
  <2>2. before(i, k) \in Nat
    BY <1>1, Stored, NewlinesOf
  <2>3. LinesFrom(rows, i) = before(i, k) + LinesAt(rows, i, k)
    BY <2>1, <1>1, LinesSplit
  <2>4. LinesAt(rows, i, k) > 0
    BY <1>1, LastLine
  <2> QED
    BY <2>1, <2>2, <2>3, <2>4
\* What is sent of a row: its end, the first row selected from `start` loses
\* as many lines as are trimmed.
<1>5. ASSUME trim \in Nat, NEW i \in rows, NEW k \in DOMAIN log[i].data
      PROVE  /\ Len(sent(i)) \in Nat /\ Len(sent(i)) <= Len(log[i].data)
             /\ k > Len(log[i].data) - Len(sent(i))
                  <=> before(i, k) >= (IF i = Min(Selected(q, start)) THEN trim ELSE 0)
  <2> DEFINE first == Selected(q, start)
             d == log[i].data
             s == Sent(first, trim, i)
  <2>1. i \in DOMAIN log /\ k \in DOMAIN d
    BY <1>1
  <2>2. Len(s) \in 0 .. Len(d) /\ (k > Len(d) - Len(s)
          <=> Cardinality({j \in Newlines(d) : j < k}) >= IF i = Min(first) THEN trim ELSE 0)
    <3> HIDE DEF first, trim
    <3> QED
      BY <2>1, <1>5, SentOf
  <2>3. Len(d) \in Nat
    BY <1>4
  <2>4. Len(s) \in Nat /\ Len(s) <= Len(d)
    <3> HIDE DEF s, d
    <3> QED
      BY <2>2, <2>3
  <2> QED
    BY <2>2, <2>4
<1> HIDE DEF rows, start, trim, sent, before
<1>6. CASE rows = {} /\ start = 0 /\ trim = 0
  BY <1>6 DEF rows, start, trim
<1>7. CASE n = 0 /\ rows # {} /\ start = Max(rows) /\ trim = 0
  <2>1. start \in Nat /\ trim \in Nat
    BY <1>1, <1>2, <1>7
  <2>2. ASSUME NEW i \in rows, NEW k \in DOMAIN log[i].data PROVE Right(i, k)
    <3>1. ~(i > start)
      BY <1>1, <1>2, <1>7
    <3>2. ~(LinesAt(rows, i, k) <= n)
      BY <1>3, <1>4, <1>7
    <3> QED
      BY <3>1, <3>2
  <2> QED
    BY <2>1, <2>2 DEF rows, start, trim, sent
<1>8. CASE n > 0 /\ rows # {} /\ start = 0 /\ trim = 0 /\ \A i \in rows : LinesFrom(rows, i) <= n
  <2>1. start \in Nat /\ trim \in Nat
    BY <1>8
  <2>2. ASSUME NEW i \in rows, NEW k \in DOMAIN log[i].data PROVE Right(i, k)
    <3>1. i > start /\ k > Len(log[i].data) - Len(sent(i))
      BY <2>1, <1>1, <1>4, <1>5, <1>8
    <3>2. LinesAt(rows, i, k) <= n
      BY <1>3, <1>4, <1>8
    <3> QED
      BY <3>1, <3>2
  <2> QED
    BY <2>1, <2>2 DEF rows, start, trim, sent
<1>9. ASSUME NEW m \in rows,
             n > 0, start = m - 1, LinesFrom(rows, m) > n, trim = LinesFrom(rows, m) - n,
             \A i \in rows : i > m => LinesFrom(rows, i) <= n
      PROVE  /\ start \in Nat /\ trim \in Nat
             /\ \A i \in rows : \A k \in DOMAIN log[i].data : Right(i, k)
  <2>1. start \in Nat /\ trim \in Nat /\ m \in Nat
    BY <1>1, <1>3, <1>9
  <2>2. Min(Selected(q, start)) = m
    <3>1. /\ Selected(q, start) \in SUBSET Nat /\ IsFiniteSet(Selected(q, start))
          /\ \A i : i \in Selected(q, start) <=> i \in rows /\ i > start
      BY <2>1, SelectedOf DEF rows
    <3>2. m \in Selected(q, start)
      BY <3>1, <2>1, <1>9
    <3> DEFINE least == Min(Selected(q, start))
    <3>3. least \in rows /\ least > start /\ least <= m
      BY <3>1, <3>2, Extremes
    <3> HIDE DEF least
    <3>4. least = m
      BY <3>3, <2>1, <1>1, <1>9
    <3> QED
      BY <3>4 DEF least
  <2>3. ASSUME NEW i \in rows, NEW k \in DOMAIN log[i].data PROVE Right(i, k)
    <3>1. CASE i < m
      <4>1. LinesFrom(rows, m) <= LinesAt(rows, i, k)
        BY <3>1, <1>1, LinesFall
      <4>2. ~(LinesAt(rows, i, k) <= n)
        BY <4>1, <1>3, <1>9
      <4>3. ~(i > start)
        BY <3>1, <2>1, <1>1, <1>9
      <4> QED
        BY <4>2, <4>3
    <3>2. CASE i = m
      <4>1. i > start
        BY <3>2, <2>1, <1>9
      <4>2. k > Len(log[i].data) - Len(sent(i)) <=> before(i, k) >= trim
        BY <2>1, <2>2, <3>2, <1>5
      <4>3. before(i, k) >= trim <=> LinesAt(rows, i, k) <= n
        BY <3>2, <1>3, <1>4, <1>9
      <4> QED
        BY <4>1, <4>2, <4>3
    <3>3. CASE i > m
      <4>1. i > start
        BY <3>3, <2>1, <1>1, <1>9
      <4>2. k > Len(log[i].data) - Len(sent(i))
        <5>1. i # m
          BY <3>3, <2>1
        <5>2. before(i, k) >= 0
          BY <1>4
        <5> QED
          BY <5>1, <5>2, <2>1, <2>2, <1>5
      <4>3. LinesAt(rows, i, k) <= n
        BY <3>3, <1>3, <1>4, <1>9
      <4> QED
        BY <4>1, <4>2, <4>3
    <3> QED
      BY <3>1, <3>2, <3>3, <1>1
  <2> QED
    BY <2>1, <2>3
<1>10. /\ start \in Nat /\ trim \in Nat
       /\ \A i \in rows : \A k \in DOMAIN log[i].data : Right(i, k)
  BY <1>6, <1>7, <1>8, <1>9, SeekOf DEF rows, start, trim, sent
<1> QED
  BY <1>10 DEF rows, start, trim, sent

\* The rows sent, and the chunks: one for each, in order.
LEMMA ChunksSent ==
    ASSUME log \in Seq(Chunks), NEW rows \in SUBSET DOMAIN log, IsFiniteSet(rows), NEW trim \in Nat
    PROVE  LET kept == Kept(rows, trim)
               chunks == ChunksOf(rows, trim)
           IN  /\ kept \in SUBSET rows /\ IsFiniteSet(kept)
               /\ trim = 0 => kept = rows
               /\ chunks \in Seq([id : kept, proc : Procs, data : Seq(Bytes)])
               /\ \A k \in DOMAIN chunks : /\ chunks[k].proc = log[chunks[k].id].proc
                                           /\ chunks[k].data = Sent(rows, trim, chunks[k].id)
               /\ \A j, k \in DOMAIN chunks : j < k => chunks[j].id < chunks[k].id
               /\ \A i \in kept : \E k \in DOMAIN chunks : chunks[k].id = i
<1> DEFINE kept == Kept(rows, trim)
           chunks == ChunksOf(rows, trim)
           ids == InOrder(kept)
           T == [id : kept, proc : Procs, data : Seq(Bytes)]
<1>1. kept \in SUBSET rows
  BY DEF Kept
<1>2. IsFiniteSet(kept) /\ kept \in SUBSET Nat
  BY <1>1, FS_Subset, Stored
<1>3. trim = 0 => kept = rows
  BY Stored DEF Kept, Sent, TrimLeadingLines
<1>4. /\ ids \in [1 .. Cardinality(kept) -> kept] /\ Cardinality(kept) \in Nat
      /\ \A m, n \in DOMAIN ids : m < n => ids[m] < ids[n]
      /\ \A k \in kept : \E n \in DOMAIN ids : ids[n] = k
  BY <1>2, Ordered, FS_CardinalityType
<1>5. chunks = [k \in DOMAIN ids |-> [id |-> ids[k], proc |-> log[ids[k]].proc,
                                      data |-> Sent(rows, trim, ids[k])]]
  BY DEF ChunksOf
<1>6. \A i \in kept : log[i].proc \in Procs /\ Sent(rows, trim, i) \in Seq(Bytes)
  BY <1>1, Stored, SentOf DEF Chunks
<1> HIDE DEF kept, chunks, ids
<1>7. /\ DOMAIN chunks = DOMAIN ids
      /\ \A k \in DOMAIN ids : chunks[k] \in T /\ chunks[k].id = ids[k]
                                 /\ chunks[k].proc = log[ids[k]].proc
                                 /\ chunks[k].data = Sent(rows, trim, ids[k])
  BY <1>4, <1>5, <1>6
<1>8. chunks \in [1 .. Cardinality(kept) -> T]
  BY <1>4, <1>5, <1>6
<1>9. chunks \in Seq(T)
  <2> DEFINE size == Cardinality(kept)
  <2>1. size \in Nat /\ chunks \in [1 .. size -> T]
    BY <1>4, <1>8
  <2> HIDE DEF size, T
  <2> QED
    BY <2>1
<1> QED
  BY <1>1, <1>2, <1>3, <1>4, <1>7, <1>9 DEF kept, chunks, ids

\* An answer: the rows selected after `start`, in order, all of them unless
\* the first is trimmed away, and a cursor no row sent is behind.
LEMMA Answered ==
    ASSUME log \in Seq(Chunks), NEW q, NEW start \in Nat, start <= Len(log), NEW trim \in Nat
    PROVE  LET a == Answer(q, start, trim)
               rows == Selected(q, start)
           IN  /\ a.chunks \in Seq([id : rows, proc : Procs, data : Seq(Bytes)])
               /\ \A k \in DOMAIN a.chunks :
                     /\ a.chunks[k].proc = log[a.chunks[k].id].proc
                     /\ a.chunks[k].data = Sent(rows, trim, a.chunks[k].id)
                     /\ a.chunks[k].id <= a.resume
               /\ \A j, k \in DOMAIN a.chunks : j < k => a.chunks[j].id < a.chunks[k].id
               /\ \A i \in Kept(rows, trim) : \E k \in DOMAIN a.chunks : a.chunks[k].id = i
               /\ a.resume \in Nat /\ start <= a.resume /\ a.resume <= Len(log)
               /\ \A i \in Kept(rows, trim) : i <= a.resume
               /\ a.chunks = <<>> => a.resume = start
<1> DEFINE a == Answer(q, start, trim)
           rows == Selected(q, start)
           kept == Kept(rows, trim)
           T == [id : rows, proc : Procs, data : Seq(Bytes)]
<1>1. /\ rows \in SUBSET Nat /\ rows \in SUBSET DOMAIN log /\ IsFiniteSet(rows)
      /\ \A i \in rows : i \in Nat /\ i > start /\ i <= Len(log)
  BY SelectedOf, Stored
<1>2. a.chunks = ChunksOf(rows, trim) /\ a.resume = Resume(kept, start)
  BY DEF Answer
<1> HIDE DEF a, rows
<1>3. /\ kept \in SUBSET rows /\ IsFiniteSet(kept)
      /\ a.chunks \in Seq([id : kept, proc : Procs, data : Seq(Bytes)])
      /\ \A k \in DOMAIN a.chunks : /\ a.chunks[k].proc = log[a.chunks[k].id].proc
                                    /\ a.chunks[k].data = Sent(rows, trim, a.chunks[k].id)
      /\ \A j, k \in DOMAIN a.chunks : j < k => a.chunks[j].id < a.chunks[k].id
      /\ \A i \in kept : \E k \in DOMAIN a.chunks : a.chunks[k].id = i
  <2> DEFINE chunks == ChunksOf(rows, trim)
  <2>1. /\ kept \in SUBSET rows /\ IsFiniteSet(kept)
        /\ chunks \in Seq([id : kept, proc : Procs, data : Seq(Bytes)])
        /\ \A k \in DOMAIN chunks : /\ chunks[k].proc = log[chunks[k].id].proc
                                    /\ chunks[k].data = Sent(rows, trim, chunks[k].id)
        /\ \A j, k \in DOMAIN chunks : j < k => chunks[j].id < chunks[k].id
        /\ \A i \in kept : \E k \in DOMAIN chunks : chunks[k].id = i
    BY <1>1, ChunksSent
  <2>2. chunks = a.chunks
    BY <1>2
  <2> HIDE DEF chunks, kept
  <2> QED
    BY <2>1, <2>2
<1>4. Len(log) \in Nat /\ kept \in SUBSET Nat
  BY <1>1, <1>3, Stored
<1> HIDE DEF kept
<1>5. kept # {} => Max(kept) \in kept /\ \A i \in kept : i <= Max(kept)
  BY <1>3, <1>4, Extremes
<1>6. /\ a.resume \in Nat /\ start <= a.resume /\ a.resume <= Len(log)
      /\ \A i \in kept : i <= a.resume
  <2>1. CASE kept = {}
    BY <2>1, <1>2, <1>4 DEF Resume
  <2>2. CASE kept # {}
    <3>1. a.resume = Max(kept) /\ Max(kept) \in rows
      BY <2>2, <1>2, <1>3, <1>5 DEF Resume
    <3>2. a.resume \in Nat /\ a.resume > start /\ a.resume <= Len(log)
      BY <3>1, <1>1
    <3> QED
      BY <3>1, <3>2, <2>2, <1>5
  <2> QED
    BY <2>1, <2>2
<1>7. \A k \in DOMAIN a.chunks : a.chunks[k] \in [id : kept, proc : Procs, data : Seq(Bytes)]
  <2> DEFINE S == [id : kept, proc : Procs, data : Seq(Bytes)]
  <2>1. a.chunks \in Seq(S)
    BY <1>3
  <2> HIDE DEF S
  <2>2. \A k \in DOMAIN a.chunks : a.chunks[k] \in S
    BY <2>1, ElementOfSeq, LenProperties
  <2> QED
    BY <2>2 DEF S
<1>8. \A k \in DOMAIN a.chunks : a.chunks[k] \in T /\ a.chunks[k].id <= a.resume
  BY <1>3, <1>6, <1>7
<1>9. a.chunks \in Seq(T)
  <2>1. Len(a.chunks) \in Nat /\ a.chunks = [k \in 1 .. Len(a.chunks) |-> a.chunks[k]]
        /\ DOMAIN a.chunks = 1 .. Len(a.chunks)
    BY <1>3, LenProperties
  <2>2. a.chunks \in [1 .. Len(a.chunks) -> T]
    BY <2>1, <1>8
  <2> DEFINE l == Len(a.chunks)
  <2>3. l \in Nat /\ a.chunks \in [1 .. l -> T]
    BY <2>1, <2>2
  <2> HIDE DEF l, T
  <2> QED
    BY <2>3
<1>10. a.chunks = <<>> => a.resume = start
  <2> SUFFICES ASSUME a.chunks = <<>> PROVE a.resume = start
    OBVIOUS
  <2>1. DOMAIN a.chunks = {}
    OBVIOUS
  <2>2. kept = {}
    BY <2>1, <1>3
  <2> QED
    BY <2>2, <1>2 DEF Resume
<1> QED
  BY <1>3, <1>6, <1>8, <1>9, <1>10 DEF a, kept, rows

\* A read, with --tail or without, leaves no row of the query behind the
\* cursor it returns.
LEMMA ReadsAll ==
    ASSUME log \in Seq(Chunks), NEW q, NEW after \in Nat, after <= Len(log),
           NEW tail \in Nat \cup {Null}
    PROVE  LET a == ReadOutput(q, after, tail)
           IN  /\ a.resume \in Nat /\ a.resume <= Len(log)
               /\ Selected(q, a.resume) = {}
               /\ \A i \in Selected(q, 0) : i <= a.resume
<1> DEFINE a == ReadOutput(q, after, tail)
           rows == Selected(q, 0)
<1>0. Len(log) \in Nat /\ DOMAIN log = 1 .. Len(log)
  BY Stored
<1>1. rows \in SUBSET DOMAIN log /\ rows \in SUBSET Nat /\ IsFiniteSet(rows)
  BY SelectedOf
<1>2. SUFFICES /\ a.resume \in Nat /\ a.resume <= Len(log)
               /\ \A i \in rows : i <= a.resume
  BY SelectedOf
<1>3. CASE tail = Null
  <2>1. a = Answer(q, after, 0)
    BY <1>3 DEF ReadOutput
  <2>2. Kept(Selected(q, after), 0) = Selected(q, after)
    BY SelectedOf, ChunksSent
  <2>3. /\ a.resume \in Nat /\ after <= a.resume /\ a.resume <= Len(log)
        /\ \A i \in Selected(q, after) : i <= a.resume
    <3>1. LET b == Answer(q, after, 0)
          IN  /\ b.resume \in Nat /\ after <= b.resume /\ b.resume <= Len(log)
              /\ \A i \in Kept(Selected(q, after), 0) : i <= b.resume
      BY Answered
    <3> HIDE DEF a
    <3> QED
      BY <3>1, <2>1, <2>2
  <2> HIDE DEF a
  <2>4. ASSUME NEW i \in rows PROVE i <= a.resume
    <3>1. CASE i > after
      BY <3>1, <2>3, SelectedOf
    <3>2. CASE ~(i > after)
      BY <3>2, <2>3, <1>1
    <3> QED
      BY <3>1, <3>2
  <2> QED
    BY <2>3, <2>4 DEF a
<1>4. CASE tail # Null
  <2> DEFINE start == SeekTail(q, tail).start
             trim == SeekTail(q, tail).trim
             kept == Kept(Selected(q, start), trim)
  <2>1. tail \in Nat
    BY <1>4
  <2>2. a = Answer(q, start, trim)
    BY <1>4 DEF ReadOutput
  <2>3. start \in Nat /\ trim \in Nat
    BY <2>1, TailBytes
  <2>4. start <= Len(log)
    <3>1. \/ start = 0
          \/ rows # {} /\ start = Max(rows)
          \/ \E m \in rows : start = m - 1
      BY <2>1, SeekOf
    <3>2. rows # {} => Max(rows) \in rows
      BY <1>1, Extremes
    <3> HIDE DEF start, rows
    <3> QED
      BY <3>1, <3>2, <2>3, <1>0, <1>1
  <2>5. /\ a.resume \in Nat /\ start <= a.resume /\ a.resume <= Len(log)
        /\ \A i \in kept : i <= a.resume
    <3> HIDE DEF start, trim
    <3>1. LET b == Answer(q, start, trim)
          IN  /\ b.resume \in Nat /\ start <= b.resume /\ b.resume <= Len(log)
              /\ \A i \in Kept(Selected(q, start), trim) : i <= b.resume
      BY <2>3, <2>4, Answered
    <3> HIDE DEF a
    <3> QED
      BY <3>1, <2>2
  <2> HIDE DEF a, start, trim
  <2>6. ASSUME rows # {} PROVE Max(rows) <= a.resume
    <3> DEFINE m == Max(rows)
               d == log[m].data
    <3>1. m \in rows /\ m \in Nat
      BY <2>6, <1>1, Extremes
    <3>2. CASE tail = 0
      <4>1. start = m
        BY <3>2, <2>6, SeekOf DEF start
      <4> QED
        BY <4>1, <2>5
    <3>3. CASE tail > 0
      <4>1. LinesAt(rows, m, Len(d)) = 1 /\ LinesAt(rows, m, Len(d)) <= tail
        BY <3>3, <2>1, <2>6, <1>1, LastLine
      <4>2. Len(d) \in Nat \ {0} /\ Len(d) \in DOMAIN d
        BY <3>1, <1>1, Stored
      <4>3. m > start /\ Len(d) > Len(d) - Len(Sent(Selected(q, start), trim, m))
        <5>1. \A i \in rows : \A k \in DOMAIN log[i].data :
                 LinesAt(rows, i, k) <= tail
                   => i > start /\ k > Len(log[i].data) - Len(Sent(Selected(q, start), trim, i))
          BY <2>1, TailBytes DEF start, trim
        <5> HIDE DEF m, rows
        <5> QED
          BY <5>1, <4>1, <4>2, <3>1
      <4>4. Sent(Selected(q, start), trim, m) # <<>>
        BY <4>2, <4>3
      <4>5. m \in Selected(q, start)
        BY <4>3, <3>1, <2>3, SelectedOf
      <4>6. m \in kept
        BY <4>4, <4>5 DEF Kept
      <4> QED
        BY <4>6, <2>5
    <3> QED
      BY <3>2, <3>3, <2>1
  <2>7. ASSUME NEW i \in rows PROVE i <= a.resume
    <3>1. i <= Max(rows) /\ Max(rows) \in Nat /\ i \in Nat
      BY <1>1, Extremes
    <3> QED
      BY <3>1, <2>5, <2>6
  <2> QED
    BY <2>5, <2>7 DEF a
<1> QED
  BY <1>3, <1>4

\* What a read sends: rows of the query, in order; without --tail all of them
\* that are behind the cursor, with --tail 0 nothing.
LEMMA ReadSends ==
    ASSUME log \in Seq(Chunks), NEW q, NEW after \in Nat, after <= Len(log),
           NEW tail \in Nat \cup {Null}
    PROVE  LET a == ReadOutput(q, after, tail)
           IN  /\ a.chunks \in Seq([id : Selected(q, 0), proc : Procs, data : Seq(Bytes)])
               /\ \A j, k \in DOMAIN a.chunks : j < k => a.chunks[j].id < a.chunks[k].id
               /\ \A k \in DOMAIN a.chunks : a.chunks[k].id <= a.resume
               /\ tail = Null =>
                    /\ after <= a.resume
                    /\ \A k \in DOMAIN a.chunks : a.chunks[k].id > after
                    /\ \A i \in Selected(q, after) : \E k \in DOMAIN a.chunks : a.chunks[k].id = i
               /\ tail = 0 => a.chunks = <<>>
<1> DEFINE a == ReadOutput(q, after, tail)
           T(start) == [id : Selected(q, start), proc : Procs, data : Seq(Bytes)]
\* Both kinds of read are an answer from somewhere on.
<1>1. PICK start \in Nat : \E trim \in Nat :
        /\ start <= Len(log) /\ a = Answer(q, start, trim)
        /\ tail = Null => start = after /\ trim = 0
        /\ tail = 0 => Selected(q, start) = {}
  <2>1. CASE tail = Null
    <3>1. a = Answer(q, after, 0) /\ tail # 0
      BY <2>1, OutputAssumption DEF ReadOutput
    <3> QED
      BY <2>1, <3>1
  <2>2. CASE tail # Null
    <3> DEFINE start == SeekTail(q, tail).start
               trim == SeekTail(q, tail).trim
               rows == Selected(q, 0)
    <3>1. tail \in Nat /\ a = Answer(q, start, trim)
      BY <2>2 DEF ReadOutput
    <3>2. start \in Nat /\ trim \in Nat
      BY <3>1, TailBytes
    <3>3. /\ Len(log) \in Nat /\ rows \in SUBSET Nat /\ IsFiniteSet(rows)
          /\ \A i \in rows : i \in Nat /\ i > 0 /\ i <= Len(log)
      BY Stored, SelectedOf
    <3>4. \/ rows = {} /\ start = 0
          \/ tail # 0 /\ start = 0
          \/ rows # {} /\ start = Max(rows)
          \/ tail # 0 /\ \E m \in rows : start = m - 1
      BY <3>1, SeekOf
    <3>5. rows # {} => Max(rows) \in rows /\ \A i \in rows : i <= Max(rows)
      BY <3>3, Extremes
    <3>6. \A i : i \in Selected(q, start) <=> i \in rows /\ i > start
      BY <3>2, SelectedOf
    <3> HIDE DEF a, start, trim, rows
    <3>7. start <= Len(log)
      BY <3>2, <3>3, <3>4, <3>5
    <3>8. tail = 0 => Selected(q, start) = {}
      <4> SUFFICES ASSUME tail = 0, NEW i \in rows, i > start PROVE FALSE
        BY <3>6
      <4> QED
        BY <3>2, <3>3, <3>4, <3>5
    <3> QED
      BY <2>2, <3>1, <3>2, <3>7, <3>8
  <2> QED
    BY <2>1, <2>2
<1>2. PICK trim \in Nat :
        /\ start <= Len(log) /\ a = Answer(q, start, trim)
        /\ tail = Null => start = after /\ trim = 0
        /\ tail = 0 => Selected(q, start) = {}
  BY <1>1
<1> HIDE DEF a
<1>3. /\ a.chunks \in Seq(T(start))
      /\ \A j, k \in DOMAIN a.chunks : j < k => a.chunks[j].id < a.chunks[k].id
      /\ \A k \in DOMAIN a.chunks : a.chunks[k].id <= a.resume
      /\ start <= a.resume
      /\ \A i \in Kept(Selected(q, start), trim) : \E k \in DOMAIN a.chunks : a.chunks[k].id = i
  <2> DEFINE b == Answer(q, start, trim)
             rows == Selected(q, start)
  <2>1. /\ b.chunks \in Seq([id : rows, proc : Procs, data : Seq(Bytes)])
        /\ \A k \in DOMAIN b.chunks : b.chunks[k].id <= b.resume
        /\ \A j, k \in DOMAIN b.chunks : j < k => b.chunks[j].id < b.chunks[k].id
        /\ \A i \in Kept(rows, trim) : \E k \in DOMAIN b.chunks : b.chunks[k].id = i
        /\ start <= b.resume
    <3>1. /\ b.chunks \in Seq([id : rows, proc : Procs, data : Seq(Bytes)])
          /\ \A k \in DOMAIN b.chunks : b.chunks[k].id <= b.resume
      BY <1>2, Answered
    <3>2. \A j, k \in DOMAIN b.chunks : j < k => b.chunks[j].id < b.chunks[k].id
      BY <1>2, Answered
    <3>3. \A i \in Kept(rows, trim) : \E k \in DOMAIN b.chunks : b.chunks[k].id = i
      <4> DEFINE c == ChunksOf(rows, trim)
      <4>1. rows \in SUBSET DOMAIN log /\ IsFiniteSet(rows)
        BY SelectedOf
      <4>2. \A i \in Kept(rows, trim) : \E k \in DOMAIN c : c[k].id = i
        <5> HIDE DEF rows
        <5> QED
          BY <4>1, ChunksSent
      <4>3. c = b.chunks
        BY DEF Answer
      <4> HIDE DEF b, c
      <4> QED
        BY <4>2, <4>3
    <3>4. start <= b.resume
      BY <1>2, Answered
    <3> QED
      BY <3>1, <3>2, <3>3, <3>4
  <2>2. b = a
    BY <1>2
  <2> HIDE DEF b
  <2> QED
    BY <2>1, <2>2
<1>4. /\ DOMAIN a.chunks = 1 .. Len(a.chunks) /\ Len(a.chunks) \in Nat
      /\ \A k \in DOMAIN a.chunks : a.chunks[k] \in T(start)
  <2> HIDE DEF T
  <2> QED
    BY <1>3, ElementOfSeq, LenProperties
<1>5. a.chunks \in Seq(T(0))
  <2>1. T(start) \subseteq T(0)
    BY SelectedOf
  <2> DEFINE l == Len(a.chunks)
  <2>2. a.chunks \in [1 .. l -> T(start)] /\ l \in Nat
    <3> HIDE DEF T
    <3> QED
      BY <1>3, <1>4, LenProperties
  <2> HIDE DEF l, T
  <2> QED
    BY <2>1, <2>2
<1>6. ASSUME tail = Null
      PROVE  /\ after <= a.resume
             /\ \A k \in DOMAIN a.chunks : a.chunks[k].id > after
             /\ \A i \in Selected(q, after) : \E k \in DOMAIN a.chunks : a.chunks[k].id = i
  <2>1. start = after /\ trim = 0
    BY <1>2, <1>6
  <2>2. Kept(Selected(q, after), 0) = Selected(q, after)
    BY SelectedOf, ChunksSent
  <2>3. \A k \in DOMAIN a.chunks : a.chunks[k].id > after
    BY <1>4, <2>1, SelectedOf
  <2> QED
    BY <1>3, <2>1, <2>2, <2>3
<1>7. ASSUME tail = 0 PROVE a.chunks = <<>>
  <2>1. DOMAIN a.chunks = {}
    BY <1>2, <1>4, <1>7
  <2> DEFINE l == Len(a.chunks)
  <2>2. l = 0
    <3>1. 1 .. l = {} /\ l \in Nat
      BY <1>4, <2>1
    <3> HIDE DEF l
    <3> QED
      BY <3>1
  <2> QED
    BY <1>3, <2>2, EmptySeq
<1> QED
  BY <1>3, <1>5, <1>6, <1>7 DEF a

\* Everything behind the cursor, row by row.
LEMMA EverythingSent ==
    ASSUME log \in Seq(Chunks), NEW from \in Nat, from <= Len(log),
           NEW q, q.proc = Null, q.stream = Null, q.since = Null, q.until = Null
    PROVE  LET a == ReadOutput(q, from, Null)
           IN  /\ Len(a.chunks) = Len(log) - from
               /\ \A k \in 1 .. Len(log) - from : /\ a.chunks[k].proc = log[from + k].proc
                                                  /\ a.chunks[k].data = log[from + k].data
               /\ a.resume = Len(log)
<1> DEFINE l == Len(log)
           rows == from + 1 .. l
           c == ChunksOf(rows, 0)
           ids == InOrder(rows)
           a == ReadOutput(q, from, Null)
<1>1. l \in Nat /\ DOMAIN log = 1 .. l /\ from <= l
  BY Stored
<1> HIDE DEF l
<1>2. Selected(q, from) = rows
  <2>1. \A i : Matches(q, log[i])
    BY DEF Matches
  <2>2. Selected(q, from) = {i \in 1 .. l : i > from}
    BY <2>1, <1>1 DEF Selected
  <2> QED
    BY <2>2, <1>1
<1>3. /\ rows \in SUBSET Nat /\ IsFiniteSet(rows) /\ Cardinality(rows) = l - from
      /\ \A k \in 1 .. l - from : ids[k] = from + k
  BY <1>1, IntervalOf
<1>4. rows \in SUBSET DOMAIN log
  BY <1>1
<1>5. Kept(rows, 0) = rows
  BY <1>3, <1>4, ChunksSent
<1>6. a = [chunks |-> c, resume |-> Resume(rows, from)]
  BY <1>2, <1>5 DEF ReadOutput, Answer
<1>7. Resume(rows, from) = l
  <2>1. CASE rows = {}
    <3>1. from = l
      BY <2>1, <1>1
    <3> QED
      BY <2>1, <3>1 DEF Resume
  <2>2. CASE rows # {}
    <3> DEFINE m == Max(rows)
    <3>1. m \in rows /\ \A i \in rows : i <= m
      BY <2>2, <1>3, Extremes
    <3>2. l \in rows
      BY <2>2, <1>1
    <3> HIDE DEF m
    <3>3. m = l
      BY <3>1, <3>2, <1>1
    <3> QED
      BY <2>2, <3>3 DEF Resume, m
  <2> QED
    BY <2>1, <2>2
<1> DEFINE n == l - from
<1>8. /\ DOMAIN ids = 1 .. n /\ n \in Nat
      /\ \A i : Sent(rows, 0, i) = log[i].data
  <2>1. DOMAIN ids = 1 .. Cardinality(rows)
    BY DEF InOrder
  <2>2. \A i : Sent(rows, 0, i) = log[i].data
    BY DEF Sent, TrimLeadingLines
  <2>3. n \in Nat
    BY <1>1
  <2> QED
    BY <2>1, <2>2, <2>3, <1>3
<1>9. c = [k \in 1 .. n |-> [id |-> ids[k], proc |-> log[ids[k]].proc, data |-> log[ids[k]].data]]
  BY <1>5, <1>8 DEF ChunksOf
<1> HIDE DEF c, ids, n, rows
<1>10. Len(c) = n
  BY <1>8, <1>9
<1>11. \A k \in 1 .. n : c[k].proc = log[from + k].proc /\ c[k].data = log[from + k].data
  BY <1>3, <1>9 DEF n
<1> HIDE DEF a
<1>12. a.chunks = c /\ a.resume = l
  BY <1>6, <1>7
<1> QED
  BY <1>10, <1>11, <1>12 DEF a, n, l

-----------------------------------------------------------------------------
\* Storing a chunk.
LEMMA Inserted ==
    ASSUME LogTypeOK, NEW p \in Procs, NEW s \in Streams, NEW d \in Data, NEW at \in Times,
           InsertOutputChunk(p, s, d, at)
    PROVE  /\ LogTypeOK'
           /\ Len(log') = Len(log) + 1
           /\ DOMAIN log' = DOMAIN log \cup {Len(log) + 1}
           /\ \A i \in DOMAIN log : log'[i] = log[i]
<1> DEFINE c == [proc |-> p, stream |-> s, data |-> d, at |-> at]
<1>1. /\ log \in Seq(Chunks) /\ Len(log) < MaxChunks /\ log' = Append(log, c) /\ c \in Chunks
      /\ MaxChunks \in Nat
  BY OutputAssumption DEF LogTypeOK, InsertOutputChunk, Chunks
<1>2. Len(log) \in Nat /\ DOMAIN log = 1 .. Len(log)
  BY <1>1, Stored
<1> HIDE DEF c
<1>3. /\ log' \in Seq(Chunks) /\ Len(log') = Len(log) + 1 /\ DOMAIN log' = 1 .. Len(log) + 1
      /\ \A i \in 1 .. Len(log) : log'[i] = log[i]
  BY <1>1, <1>2, AppendProperties, LenProperties
<1> QED
  BY <1>1, <1>2, <1>3 DEF LogTypeOK
===============================================================================
