----------------------------- MODULE LogTailProof -----------------------------
(***************************************************************************)
(* What a read with --tail promises, for every log, query and number of    *)
(* lines.                                                                  *)
(***************************************************************************)
EXTENDS LogTail, OutputLogProof

-----------------------------------------------------------------------------
(* Pieces of a text *)

\* Sets that a function pairs off have the same size.
LEMMA PairedOff ==
    ASSUME NEW S, IsFiniteSet(S), NEW T, NEW f \in [S -> T],
           \A x, y \in S : f[x] = f[y] => x = y,
           \A z \in T : \E x \in S : f[x] = z
    PROVE  IsFiniteSet(T) /\ Cardinality(T) = Cardinality(S)
<1>1. f \in Surjection(S, T)
  BY DEF Surjection
<1>2. f \in Injection(S, T)
  BY DEF Injection, IsInjective
<1> QED
  BY <1>1, <1>2, FS_Surjection

\* A place in the text is a place in one of its pieces.
Places(s, off) ==
    /\ \A p \in 1 .. off[Len(s)] :
          \E i \in 1 .. Len(s) : \E k \in 1 .. Len(s[i]) : p = off[i - 1] + k
    /\ \A i \in 1 .. Len(s) : \A k \in 1 .. Len(s[i]) : off[i - 1] + k \in 1 .. off[Len(s)]
    /\ \A i, j \in 0 .. Len(s) : i <= j => off[i] <= off[j]

\* The offsets split the text into places of pieces.
LEMMA PlacesOf ==
    ASSUME NEW s, Len(s) \in Nat, \A i \in 1 .. Len(s) : Len(s[i]) \in Nat,
           NEW off, Offsets(s, off)
    PROVE  Places(s, off)
<1> DEFINE m == Len(s)
<1>1. /\ m \in Nat /\ off \in [0 .. m -> Nat] /\ off[0] = 0
      /\ \A i \in 1 .. m : off[i] = off[i - 1] + Len(s[i]) /\ i - 1 \in 0 .. m /\ Len(s[i]) \in Nat
      /\ \A i \in 0 .. m : off[i] \in Nat
  <2>1. /\ m \in Nat /\ off \in [0 .. m -> Nat] /\ off[0] = 0
        /\ \A i \in 1 .. m : off[i] = off[i - 1] + Len(s[i]) /\ Len(s[i]) \in Nat
    BY DEF Offsets
  <2> HIDE DEF m
  <2>2. \A i \in 1 .. m : i - 1 \in 0 .. m
    BY <2>1
  <2> QED
    BY <2>1, <2>2
<1> HIDE DEF m
<1>2. ASSUME NEW i \in 0 .. m PROVE \A j \in 0 .. m : i <= j => off[i] <= off[j]
  <2> DEFINE Good == {j \in 0 .. m : i <= j => off[i] <= off[j]}
  <2>1. 0 \in Good
    <3>1. i <= 0 => i = 0
      BY <1>1
    <3> QED
      BY <3>1, <1>1
  <2>2. ASSUME NEW j \in 0 .. m, j \in Good /\ j < m PROVE j + 1 \in Good
    <3> DEFINE n == j + 1
    <3>1. n \in 1 .. m /\ n \in 0 .. m /\ n - 1 = j
      BY <2>2, <1>1
    <3> HIDE DEF n
    <3>2. off[n] = off[j] + Len(s[n]) /\ off[j] \in Nat /\ Len(s[n]) \in Nat /\ off[i] \in Nat
      BY <3>1, <1>1
    <3>3. CASE i <= j
      <4>1. off[i] <= off[j]
        BY <2>2, <3>3
      <4>2. off[i] <= off[n]
        BY <3>2, <4>1
      <4> QED
        BY <4>2, <3>1 DEF n
    <3>4. CASE ~(i <= j)
      <4>1. i <= n => i = n
        BY <3>4, <1>1 DEF n
      <4>2. i <= n => off[i] <= off[n]
        BY <4>1, <3>2
      <4> QED
        BY <4>2, <3>1 DEF n
    <3> QED
      BY <3>3, <3>4
  <2> HIDE DEF Good
  <2>3. \A j \in 0 .. m : j \in Good
    BY <2>1, <2>2, <1>1, Upwards
  <2> QED
    BY <2>3 DEF Good
<1>3. ASSUME NEW i \in 1 .. m, NEW k \in 1 .. Len(s[i]) PROVE off[i - 1] + k \in 1 .. off[m]
  <2>1. i \in 0 .. m /\ m \in 0 .. m /\ i <= m
    BY <1>1
  <2>2. off[i] <= off[m]
    BY <2>1, <1>2
  <2>3. off[i] = off[i - 1] + Len(s[i]) /\ off[i - 1] \in Nat /\ off[m] \in Nat /\ Len(s[i]) \in Nat
    BY <2>1, <1>1
  <2> QED
    BY <2>2, <2>3
<1>4. \A p \in 1 .. off[m] : \E i \in 1 .. m : \E k \in 1 .. Len(s[i]) : p = off[i - 1] + k
  <2> DEFINE Found(p) == \E i \in 1 .. m : \E k \in 1 .. Len(s[i]) : p = off[i - 1] + k
             Good == {j \in 0 .. m : \A p \in 1 .. off[j] : Found(p)}
  <2>1. 0 \in Good
    <3>1. 1 .. off[0] = {}
      BY <1>1
    <3> QED
      BY <3>1, <1>1
  <2>2. ASSUME NEW j \in 0 .. m, j \in Good /\ j < m PROVE j + 1 \in Good
    <3> DEFINE n == j + 1
    <3>1. n \in 1 .. m /\ n \in 0 .. m /\ n - 1 = j
      BY <2>2, <1>1
    <3> HIDE DEF n
    <3>2. off[n] = off[j] + Len(s[n]) /\ off[j] \in Nat /\ Len(s[n]) \in Nat
      BY <3>1, <1>1
    <3>3. ASSUME NEW p \in 1 .. off[n] PROVE Found(p)
      <4>1. CASE p <= off[j]
        <5>1. p \in 1 .. off[j]
          BY <4>1, <3>2
        <5> QED
          BY <5>1, <2>2
      <4>2. CASE ~(p <= off[j])
        <5>1. p - off[j] \in 1 .. Len(s[n]) /\ p = off[j] + (p - off[j])
          BY <4>2, <3>2
        <5>2. \E k \in 1 .. Len(s[n]) : p = off[n - 1] + k
          BY <5>1, <3>1
        <5> QED
          BY <5>2, <3>1
      <4> QED
        BY <4>1, <4>2
    <3> HIDE DEF Found
    <3> QED
      BY <3>1, <3>3 DEF n
  <2> HIDE DEF Good
  <2>3. \A j \in 0 .. m : j \in Good
    BY <2>1, <2>2, <1>1, Upwards
  <2>4. m \in 0 .. m
    BY <1>1
  <2> QED
    BY <2>3, <2>4 DEF Good
<1> QED
  BY <1>2, <1>3, <1>4 DEF m, Places

\* The members of a set from one on, in order.
LEMMA InOrderFrom ==
    ASSUME NEW S \in SUBSET Nat, IsFiniteSet(S), NEW a \in 1 .. Cardinality(S),
           NEW K, \A x : x \in K <=> x \in S /\ x >= InOrder(S)[a]
    PROVE  /\ IsFiniteSet(K) /\ Cardinality(K) = Cardinality(S) - a + 1
           /\ \A k \in 1 .. Cardinality(K) : InOrder(K)[k] = InOrder(S)[a - 1 + k]
<1> DEFINE m == Cardinality(S)
           R == InOrder(S)
<1>1. /\ m \in Nat /\ a \in Nat /\ a >= 1 /\ a <= m
      /\ R \in [1 .. m -> S] /\ DOMAIN R = 1 .. m
      /\ \A i, j \in 1 .. m : i < j => R[i] < R[j]
      /\ \A x \in S : \E i \in 1 .. m : R[i] = x
  BY Ordered, FS_CardinalityType
<1>2. \A x \in S : x \in Nat
  OBVIOUS
<1> HIDE DEF m, R
<1>3. \A i, j \in 1 .. m : (R[i] <= R[j] <=> i <= j) /\ (R[i] = R[j] => i = j)
  <2> TAKE i, j \in 1 .. m
  <2>1. R[i] \in Nat /\ R[j] \in Nat /\ i \in Nat /\ j \in Nat
    <3>1. R[i] \in S /\ R[j] \in S
      BY <1>1
    <3>2. R[i] \in Nat /\ R[j] \in Nat
      BY <3>1, <1>2
    <3> QED
      BY <3>2, <1>1
  <2>2. (i < j => R[i] < R[j]) /\ (j < i => R[j] < R[i])
    BY <1>1
  <2>3. i < j \/ i = j \/ j < i
    BY <2>1
  <2> HIDE DEF R
  <2> QED
    BY <2>1, <2>2, <2>3
<1>4. a \in 1 .. m
  BY <1>1
\* Counting from the a-th member on.
<1>5. ASSUME NEW b \in a .. m
      PROVE  LET T == {x \in K : x <= R[b]} IN IsFiniteSet(T) /\ Cardinality(T) = b - a + 1
  <2> DEFINE T == {x \in K : x <= R[b]}
             f == [i \in a .. b |-> R[i]]
  <2>1. b \in 1 .. m /\ \A i \in a .. b : i \in 1 .. m /\ a <= i /\ i <= b
    BY <1>1
  <2>2. \A i \in a .. b : R[i] \in T
    <3> TAKE i \in a .. b
    <3>1. R[i] \in S /\ R[a] <= R[i] /\ R[i] <= R[b] /\ R[i] \in Nat /\ R[a] \in Nat
      BY <2>1, <1>1, <1>2, <1>3, <1>4
    <3>2. R[i] >= R[a]
      BY <3>1
    <3> QED
      BY <3>1, <3>2 DEF R
  <2>3. f \in [a .. b -> T]
    BY <2>2
  <2>4. \A i, j \in a .. b : f[i] = f[j] => i = j
    BY <2>1, <1>3
  <2>5. \A x \in T : \E i \in a .. b : f[i] = x
    <3> TAKE x \in T
    <3>1. x \in S /\ x >= R[a] /\ x <= R[b]
      BY DEF R
    <3>2. PICK i \in 1 .. m : R[i] = x
      BY <3>1, <1>1
    <3>3. R[a] <= R[i] /\ R[i] <= R[b]
      BY <3>1, <3>2, <1>1, <1>2, <1>4
    <3>4. a <= i /\ i <= b
      BY <3>3, <2>1, <1>3, <1>4
    <3>5. i \in a .. b
      BY <3>4, <1>1
    <3> QED
      BY <3>2, <3>5
  <2>6. IsFiniteSet(a .. b) /\ Cardinality(a .. b) = b - a + 1
    <3>1. a \in Int /\ b \in Int /\ ~(a > b)
      BY <2>1, <1>1
    <3> QED
      BY <3>1, FS_Interval
  <2> HIDE DEF T, f
  <2>7. IsFiniteSet(T) /\ Cardinality(T) = Cardinality(a .. b)
    BY <2>3, <2>4, <2>5, <2>6, PairedOff
  <2> QED
    BY <2>6, <2>7 DEF T
<1>6. IsFiniteSet(K) /\ Cardinality(K) = m - a + 1
  <2>1. m \in a .. m
    BY <1>1
  <2>2. \A x \in K : x <= R[m]
    <3> TAKE x \in K
    <3>1. PICK i \in 1 .. m : R[i] = x
      BY <1>1
    <3>2. i <= m /\ m \in 1 .. m
      BY <1>1
    <3> QED
      BY <3>1, <3>2, <1>3
  <2>3. K = {x \in K : x <= R[m]}
    BY <2>2
  <2> QED
    BY <2>1, <2>3, <1>5
<1>7. K \in SUBSET Nat
  BY <1>2
<1>8. ASSUME NEW k \in 1 .. Cardinality(K) PROVE InOrder(K)[k] = R[a - 1 + k]
  <2> DEFINE b == a - 1 + k
  <2>1. b \in a .. m /\ b - a + 1 = k /\ b \in 1 .. m /\ a <= b
    BY <1>1, <1>6
  <2> HIDE DEF b
  <2>2. Rank(K, R[b]) = k
    BY <2>1, <1>5 DEF Rank
  <2>3. R[b] \in K
    <3>1. R[b] \in S /\ R[a] <= R[b] /\ R[b] \in Nat /\ R[a] \in Nat
      BY <2>1, <1>1, <1>2, <1>3, <1>4
    <3>2. R[b] >= R[a]
      BY <3>1
    <3> QED
      BY <3>1, <3>2 DEF R
  <2>4. Nth(K, k) \in K /\ Rank(K, Nth(K, k)) = k
    BY <1>6, <1>7, Ranks
  <2>5. Nth(K, k) = R[b]
    <3> DEFINE x == Nth(K, k)
               y == R[b]
    <3>1. x \in K /\ y \in K /\ Rank(K, x) = k /\ Rank(K, y) = k
      BY <2>2, <2>3, <2>4
    <3>4. x \in Nat /\ y \in Nat /\ k \in Nat
      <4> HIDE DEF x, y
      <4> QED
        BY <3>1, <1>7, <1>6
    <3> HIDE DEF x, y
    <3>2. ~(x < y) /\ ~(y < x)
      BY <3>1, <3>4, <1>6, <1>7, Ranks
    <3>3. x = y
      BY <3>2, <3>4
    <3> QED
      BY <3>3 DEF x, y
  <2> QED
    BY <2>5 DEF InOrder, b
<1> QED
  BY <1>6, <1>8 DEF m, R

\* Places are ordered by piece, then by place in the piece.
TextOrder(s, off) ==
    \A i, j \in 1 .. Len(s) : \A k \in 1 .. Len(s[i]) : \A n \in 1 .. Len(s[j]) :
        /\ off[i - 1] + k >= off[j - 1] + n <=> i > j \/ (i = j /\ k >= n)
        /\ off[i - 1] + k = off[j - 1] + n => i = j /\ k = n

\* A place is behind another if its piece is, or it is further on in the same one.
LEMMA PlacesOrdered ==
    ASSUME NEW s, Len(s) \in Nat, \A i \in 1 .. Len(s) : Len(s[i]) \in Nat,
           NEW off, Offsets(s, off)
    PROVE  TextOrder(s, off)
<1> SUFFICES ASSUME NEW i \in 1 .. Len(s), NEW j \in 1 .. Len(s),
                    NEW k \in 1 .. Len(s[i]), NEW n \in 1 .. Len(s[j])
             PROVE  /\ off[i - 1] + k >= off[j - 1] + n <=> i > j \/ (i = j /\ k >= n)
                    /\ off[i - 1] + k = off[j - 1] + n => i = j /\ k = n
  BY DEF TextOrder
<1>1. \A a, b \in 1 .. Len(s) : \A x \in 1 .. Len(s[a]) : \A y \in 1 .. Len(s[b]) :
         a < b => off[a - 1] + x < off[b - 1] + y
  <2> SUFFICES ASSUME NEW a \in 1 .. Len(s), NEW b \in 1 .. Len(s),
                      NEW x \in 1 .. Len(s[a]), NEW y \in 1 .. Len(s[b]), a < b
               PROVE  off[a - 1] + x < off[b - 1] + y
    OBVIOUS
  <2> DEFINE m == Len(s)
             l == Len(s[a])
  <2>1. m \in Nat /\ a \in 1 .. m /\ b \in 1 .. m /\ l \in Nat /\ x \in 1 .. l
    OBVIOUS
  <2>1a. y \in Nat /\ y > 0
    OBVIOUS
  <2>2. a \in 0 .. m /\ a - 1 \in 0 .. m /\ b - 1 \in 0 .. m /\ a <= b - 1
    <3> HIDE DEF m, l
    <3> QED
      BY <2>1
  <2>3. off[a] \in Nat /\ off[a - 1] \in Nat /\ off[b - 1] \in Nat /\ off[a] = off[a - 1] + l
    BY <2>2 DEF Offsets
  <2>4. off[a] <= off[b - 1]
    BY <2>2, PlacesOf DEF Places
  <2> DEFINE u == off[a - 1]
             v == off[a]
             w == off[b - 1]
  <2>5. u \in Nat /\ v = u + l /\ v <= w /\ w \in Nat /\ x <= l /\ x \in Nat /\ l \in Nat
    <3> HIDE DEF m, l
    <3> QED
      BY <2>1, <2>3, <2>4
  <2> HIDE DEF u, v, w, l
  <2>6. u + x < w + y
    BY <2>1a, <2>5
  <2> QED
    BY <2>6 DEF u, w
<1>2. i \in Nat /\ j \in Nat /\ k \in Nat /\ n \in Nat
  OBVIOUS
<1>3. off[i - 1] \in Nat /\ off[j - 1] \in Nat
  <2>1. i - 1 \in 0 .. Len(s) /\ j - 1 \in 0 .. Len(s)
    OBVIOUS
  <2> QED
    BY <2>1 DEF Offsets
<1>4. /\ i < j => off[i - 1] + k < off[j - 1] + n
      /\ j < i => off[j - 1] + n < off[i - 1] + k
  BY <1>1
<1> DEFINE a == off[i - 1]
           b == off[j - 1]
           u == a + k
           v == b + n
<1>5. u \in Nat /\ v \in Nat
  <2>1. a \in Nat /\ b \in Nat
    BY <1>3
  <2> HIDE DEF a, b
  <2> QED
    BY ONLY <2>1, <1>2
<1>6. i = j => (u >= v <=> k >= n) /\ (u = v => k = n)
  <2> SUFFICES ASSUME i = j PROVE (u >= v <=> k >= n) /\ (u = v => k = n)
    OBVIOUS
  <2> DEFINE w == off[i - 1]
  <2>1. u = w + k /\ v = w + n /\ w \in Nat
    BY <1>3
  <2> HIDE DEF u, v, w
  <2> QED
    BY <2>1, <1>2
<1>7. (i < j => u < v) /\ (j < i => v < u)
  BY <1>4
<1> HIDE DEF u, v
<1>8. i < j \/ j < i \/ i = j
  BY <1>2
<1>9. u >= v <=> i > j \/ (i = j /\ k >= n)
  BY <1>2, <1>5, <1>6, <1>7, <1>8
<1>10. u = v => i = j /\ k = n
  BY <1>5, <1>6, <1>7, <1>8
<1> QED
  BY <1>9, <1>10 DEF u, v, a, b

\* Pieces of s, from byte b of the a-th on.
LeftFrom(t, s, a, b) ==
    /\ Len(t) = Len(s) - a + 1
    /\ t[1] = SubSeq(s[a], b, Len(s[a]))
    /\ \A j \in 2 .. Len(t) : t[j] = s[a - 1 + j]

\* What is left of a text from a place on is what is left of its pieces.
LEMMA FlattenFrom ==
    ASSUME NEW X, NEW s \in Seq(Seq(X)), NEW off, Offsets(s, off),
           NEW a \in 1 .. Len(s), NEW b \in 1 .. Len(s[a]),
           NEW t \in Seq(Seq(X)), LeftFrom(t, s, a, b)
    PROVE  FlattenSeq(t) = SubSeq(FlattenSeq(s), off[a - 1] + b, Len(FlattenSeq(s)))
<1> DEFINE m == Len(s)
           l == Len(t)
           d == s[a]
           v == Len(d)
           w == off[a - 1]
           P == w + b
           T == FlattenSeq(s)
           U == FlattenSeq(t)
           new == [j \in 0 .. l |-> IF j = 0 THEN 0 ELSE off[a - 1 + j] - P + 1]
<1>1. m \in Nat /\ a \in 1 .. m /\ a \in Nat /\ a >= 1 /\ a <= m /\ l = m - a + 1
  <2>1. m \in Nat
    BY LenProperties
  <2>2. a \in 1 .. m /\ l = m - a + 1
    BY DEF LeftFrom
  <2> HIDE DEF m, l
  <2> QED
    BY <2>1, <2>2
<1>2. /\ \A i \in 1 .. m : s[i] \in Seq(X) /\ Len(s[i]) \in Nat
      /\ \A i \in 1 .. l : t[i] \in Seq(X) /\ Len(t[i]) \in Nat
  BY ElementOfSeq, LenProperties
<1>3. /\ off \in [0 .. m -> Nat] /\ off[0] = 0
      /\ \A i \in 1 .. m : off[i] = off[i - 1] + Len(s[i])
  BY DEF Offsets
<1>4. /\ T \in Seq(X) /\ Len(T) = off[m]
      /\ \A i \in 1 .. m : \A k \in 1 .. Len(s[i]) : T[off[i - 1] + k] = s[i][k]
  <2>1. Offsets(s, off)
    OBVIOUS
  <2>2. FlattenSeq(s) \in Seq(X) /\ Joined(FlattenSeq(s), s, off)
    BY <2>1, FlattenOf
  <2> QED
    BY <2>2 DEF Joined
<1>5. \A i, j \in 0 .. m : i <= j => off[i] <= off[j]
  <2>1. Len(s) \in Nat /\ (\A i \in 1 .. Len(s) : Len(s[i]) \in Nat) /\ Offsets(s, off)
    BY <1>1, <1>2
  <2> QED
    BY <2>1, PlacesOf DEF Places
<1>6. d \in Seq(X) /\ v \in Nat /\ b \in 1 .. v
  BY <1>1, <1>2
<1>7. t[1] = SubSeq(d, b, v) /\ \A j \in 2 .. l : t[j] = s[a - 1 + j]
  BY DEF LeftFrom
<1>8. Len(t) = l /\ Len(s) = m /\ s[a] = d /\ off[a - 1] = w /\ P = w + b
  OBVIOUS
<1>8a. Offsets(t, new) <=> /\ new \in [0 .. l -> Nat] /\ new[0] = 0
                           /\ \A j \in 1 .. l : new[j] = new[j - 1] + Len(t[j])
  BY DEF Offsets
<1> HIDE DEF m, l, d, v, w, P, T, U
<1>9. l \in Nat /\ 1 \in 1 .. l /\ l \in 1 .. l /\ b \in Nat /\ 1 <= b /\ b <= v
  BY <1>1, <1>6
<1>10. w \in Nat /\ off[a] = w + v /\ off[m] \in Nat /\ off[a] <= off[m]
  <2>1. a - 1 \in 0 .. m /\ m \in 0 .. m /\ a \in 0 .. m
    BY <1>1
  <2>2. off[a - 1] \in Nat /\ off[m] \in Nat /\ off[a] <= off[m]
    BY <2>1, <1>1, <1>3, <1>5
  <2>3. off[a] = off[a - 1] + Len(s[a])
    BY <1>1, <1>3
  <2> QED
    BY <2>2, <2>3, <1>8 DEF v
<1>11. P \in Nat /\ 1 <= P /\ P <= off[a] /\ P <= off[m]
  BY <1>6, <1>8, <1>9, <1>10
\* The piece that is cut.
<1>12. Len(t[1]) = v - b + 1 /\ \A k \in 1 .. v - b + 1 : t[1][k] = d[b + k - 1]
  <2>1. \A i \in 1 .. v : d[i] \in X
    BY <1>6, ElementOfSeq DEF v
  <2>2. b \in Int /\ v \in Int /\ \A i \in b .. v : d[i] \in X
    BY <2>1, <1>6, <1>9
  <2>3. /\ Len(SubSeq(d, b, v)) = IF b <= v THEN v - b + 1 ELSE 0
        /\ \A i \in 1 .. v - b + 1 : SubSeq(d, b, v)[i] = d[b + i - 1]
    BY <2>2, SubSeqProperties
  <2> QED
    BY <2>3, <1>7, <1>9
\* Where the pieces end.
<1>13. \A j \in 1 .. l : /\ new[j] = off[a - 1 + j] - P + 1 /\ new[j] \in Nat
                         /\ off[a - 1 + j] \in Nat
  <2> TAKE j \in 1 .. l
  <2>1. j \in 0 .. l /\ j # 0 /\ a - 1 + j \in 0 .. m /\ a <= a - 1 + j /\ a \in 0 .. m
    BY <1>1
  <2>2. new[j] = off[a - 1 + j] - P + 1
    BY <2>1
  <2>3. off[a - 1 + j] \in Nat /\ off[a] <= off[a - 1 + j]
    BY <2>1, <1>3, <1>5
  <2> DEFINE u == off[a - 1 + j]
             e == off[a]
  <2> HIDE DEF u, e, new
  <2>4. u - P + 1 \in Nat
    <3>1. u \in Nat /\ e <= u
      BY <2>3 DEF u, e
    <3>2. P \in Nat /\ P <= e
      BY <1>11 DEF e
    <3>3. e \in Nat
      BY <1>6, <1>10 DEF e
    <3> QED
      BY <3>1, <3>2, <3>3
  <2> QED
    BY <2>2, <2>3, <2>4 DEF u
<1>14. new[0] = 0
  BY <1>9
<1>15. \A j \in 2 .. l : /\ a - 1 + j \in 1 .. m /\ t[j] = s[a - 1 + j] /\ j - 1 \in 1 .. l /\ j \in 1 .. l
                         /\ a - 1 + (j - 1) = (a - 1 + j) - 1
  <2> TAKE j \in 2 .. l
  <2>1. t[j] = s[a - 1 + j]
    BY <1>7
  <2>2. /\ a - 1 + j \in 1 .. m /\ j - 1 \in 1 .. l /\ j \in 1 .. l
        /\ a - 1 + (j - 1) = (a - 1 + j) - 1
    BY <1>1
  <2> QED
    BY <2>1, <2>2
<1>16. new \in [0 .. l -> Nat]
  <2>1. \A j \in 0 .. l : j = 0 \/ j \in 1 .. l
    BY <1>9
  <2>2. \A j \in 0 .. l : new[j] \in Nat
    <3> HIDE DEF new
    <3> QED
      BY <2>1, <1>13, <1>14
  <2> QED
    BY <2>2
<1> HIDE DEF new
<1>17. \A j \in 1 .. l : new[j] = new[j - 1] + Len(t[j])
  <2> TAKE j \in 1 .. l
  <2>1. CASE j = 1
    <3>1. new[1] = off[a] - P + 1
      <4>1. a - 1 + 1 = a
        BY <1>1
      <4> QED
        BY <4>1, <1>9, <1>13
    <3>2. new[1] = v - b + 1 /\ v - b + 1 \in Nat
      <4>1. (w + v) - (w + b) + 1 = v - b + 1 /\ v - b + 1 \in Nat
        BY <1>6, <1>9, <1>10
      <4> QED
        BY <4>1, <3>1, <1>8, <1>10
    <3>3. 0 + Len(t[1]) = v - b + 1
      BY <3>2, <1>12
    <3> QED
      BY <2>1, <3>2, <3>3, <1>14
  <2>2. CASE j # 1
    <3>1. j \in 2 .. l
      BY <2>2, <1>9
    <3> DEFINE i == a - 1 + j
               u == off[i - 1]
               x == Len(s[i])
    <3>2. i \in 1 .. m /\ t[j] = s[i] /\ new[j] = off[i] - P + 1 /\ new[j - 1] = u - P + 1 /\ u \in Nat
      BY <3>1, <1>13, <1>15
    <3> HIDE DEF i
    <3>3. off[i] = u + x /\ x \in Nat
      BY <3>2, <1>2, <1>3
    <3> HIDE DEF u, x
    <3>4. (u + x) - P + 1 = (u - P + 1) + x
      BY <3>2, <3>3, <1>11
    <3>5. Len(t[j]) = x
      BY <3>2 DEF x
    <3> QED
      BY <3>2, <3>3, <3>4, <3>5
  <2> QED
    BY <2>1, <2>2
<1>18. Offsets(t, new)
  BY <1>8a, <1>14, <1>16, <1>17
<1>19. /\ U \in Seq(X) /\ Len(U) = new[l]
       /\ \A j \in 1 .. l : \A k \in 1 .. Len(t[j]) : U[new[j - 1] + k] = t[j][k]
  <2>1. /\ FlattenSeq(t) \in Seq(X) /\ Len(FlattenSeq(t)) = new[Len(t)]
        /\ \A j \in 1 .. Len(t) : \A k \in 1 .. Len(t[j]) : FlattenSeq(t)[new[j - 1] + k] = t[j][k]
    <3>1. FlattenSeq(t) \in Seq(X) /\ Joined(FlattenSeq(t), t, new)
      BY <1>18, FlattenOf
    <3> QED
      BY <3>1 DEF Joined
  <2> QED
    BY <2>1, <1>8 DEF U
<1>20. Len(U) = off[m] - P + 1
  <2>1. a - 1 + l = m
    BY <1>1
  <2> QED
    BY <2>1, <1>9, <1>13, <1>19
<1>21. \A x \in 1 .. Len(U) : \E j \in 1 .. l : \E k \in 1 .. Len(t[j]) : x = new[j - 1] + k
  <2>1. Len(t) \in Nat /\ \A j \in 1 .. Len(t) : Len(t[j]) \in Nat
    BY <1>2, <1>8, <1>9
  <2>2. \A x \in 1 .. new[Len(t)] : \E j \in 1 .. Len(t) : \E k \in 1 .. Len(t[j]) : x = new[j - 1] + k
    <3>1. Places(t, new)
      BY <2>1, <1>18, PlacesOf
    <3> QED
      BY <3>1 DEF Places
  <2>3. new[Len(t)] = Len(U)
    BY <1>8, <1>19
  <2> QED
    BY <2>2, <2>3, <1>8
<1>22. ASSUME NEW x \in 1 .. Len(U) PROVE U[x] = T[P + x - 1]
  <2>1. PICK j \in 1 .. l : \E k \in 1 .. Len(t[j]) : x = new[j - 1] + k
    BY <1>21
  <2>2. PICK k \in 1 .. Len(t[j]) : x = new[j - 1] + k
    BY <2>1
  <2>3. U[x] = t[j][k] /\ k \in Nat
    BY <2>2, <1>2, <1>19
  <2>4. CASE j = 1
    <3>0. j - 1 = 0 /\ new[j - 1] = 0 /\ Len(t[j]) = v - b + 1
      BY <2>4, <1>12, <1>14
    <3>1. x = k /\ k \in 1 .. v - b + 1
      BY <2>2, <2>3, <3>0
    <3> DEFINE y == b + k - 1
    <3>2. y \in 1 .. v /\ w + y = P + k - 1
      BY <3>1, <1>6, <1>8, <1>9, <1>10
    <3>3. t[1][k] = d[y]
      BY <3>1, <1>12
    <3> HIDE DEF y
    <3>4. T[w + y] = d[y]
      <4>1. \A n \in 1 .. Len(s[a]) : T[off[a - 1] + n] = s[a][n]
        BY <1>1, <1>4
      <4> QED
        BY <4>1, <3>2, <1>8 DEF v
    <3> QED
      BY <2>3, <2>4, <3>1, <3>2, <3>3, <3>4
  <2>5. CASE j # 1
    <3>1. j \in 2 .. l
      BY <2>5, <1>9
    <3> DEFINE i == a - 1 + j
               u == off[i - 1]
    <3>2. i \in 1 .. m /\ t[j] = s[i] /\ new[j - 1] = u - P + 1 /\ u \in Nat
      BY <3>1, <1>13, <1>15
    <3> HIDE DEF i
    <3>3. T[u + k] = s[i][k]
      BY <3>2, <1>4
    <3> HIDE DEF u
    <3>4. u + k = P + x - 1
      BY <2>2, <2>3, <3>2, <1>11
    <3> QED
      BY <2>3, <3>2, <3>3, <3>4
  <2> QED
    BY <2>4, <2>5
<1> DEFINE e == off[m]
           V == SubSeq(T, P, e)
<1>23. e \in Nat /\ P <= e /\ Len(T) = e /\ Len(U) = e - P + 1
  BY <1>4, <1>10, <1>11, <1>20
<1> HIDE DEF e
<1>24. V \in Seq(X) /\ Len(V) = e - P + 1 /\ \A x \in 1 .. e - P + 1 : V[x] = T[P + x - 1]
  <2>1. \A i \in 1 .. e : T[i] \in X
    BY <1>4, <1>23, ElementOfSeq
  <2>2. P \in Int /\ e \in Int /\ \A i \in P .. e : T[i] \in X
    BY <2>1, <1>11, <1>23
  <2>3. /\ V \in Seq(X)
        /\ Len(V) = IF P <= e THEN e - P + 1 ELSE 0
        /\ \A x \in 1 .. e - P + 1 : V[x] = T[P + x - 1]
    BY <2>2, SubSeqProperties
  <2> QED
    BY <2>3, <1>23
<1> HIDE DEF V
<1>25. U = V
  <2>1. \A x \in 1 .. Len(U) : U[x] = V[x]
    BY <1>22, <1>23, <1>24
  <2> QED
    BY <2>1, <1>19, <1>23, <1>24, SeqEqual
<1>26. U = SubSeq(T, P, Len(T))
  BY <1>23, <1>25 DEF V
<1> QED
  BY <1>26 DEF U, T, P, w

-----------------------------------------------------------------------------
(* The lines of a text *)

\* The lines that end at or after place p of a text, a partial line at its
\* end included.
LinesAfter(text, p) ==
    Cardinality({j \in DOMAIN text : j >= p /\ text[j] = NL}) + IF Last(text) = NL THEN 0 ELSE 1

\* They get fewer towards the end, where one is left.
LEMMA LinesAfterOf ==
    ASSUME NEW X, NEW text \in Seq(X), text # <<>>
    PROVE  /\ \A p : IsFiniteSet({j \in DOMAIN text : j >= p /\ text[j] = NL})
           /\ \A p : LinesAfter(text, p) \in Nat
           /\ \A p, r \in Nat : p <= r => LinesAfter(text, r) <= LinesAfter(text, p)
           /\ LinesAfter(text, Len(text)) = 1
           /\ \A p \in DOMAIN text : p <= Len(text) /\ LinesAfter(text, p) >= 1
<1> DEFINE ends(p) == {j \in DOMAIN text : j >= p /\ text[j] = NL}
           extra == IF Last(text) = NL THEN 0 ELSE 1
           l == Len(text)
<1>1. l \in Nat /\ l # 0 /\ DOMAIN text = 1 .. l /\ Last(text) = text[l]
  BY LenProperties, EmptySeq DEF Last
<1>2. \A p : IsFiniteSet(ends(p))
  <2> TAKE p
  <2>1. ends(p) \in SUBSET (1 .. l) /\ IsFiniteSet(1 .. l)
    BY <1>1, FS_Interval
  <2> QED
    BY <2>1, FS_Subset
<1>3. \A p : Cardinality(ends(p)) \in Nat
  BY <1>2, FS_CardinalityType
<1>4. extra \in {0, 1}
  OBVIOUS
<1>5. ASSUME NEW p \in Nat, NEW r \in Nat, p <= r PROVE Cardinality(ends(r)) <= Cardinality(ends(p))
  <2>1. ends(r) \in SUBSET ends(p)
    BY <1>5, <1>1
  <2> HIDE DEF ends
  <2> QED
    BY <2>1, <1>2, FS_Subset
<1>6. Cardinality(ends(l)) + extra = 1
  <2>1. \A j \in ends(l) : j = l
    BY <1>1
  <2>2. CASE Last(text) = NL
    <3>1. l \in ends(l)
      BY <2>2, <1>1
    <3>2. ends(l) = {l}
      BY <2>1, <3>1
    <3>3. Cardinality(ends(l)) = 1 /\ extra = 0
      BY <3>2, <2>2, FS_Singleton
    <3> QED
      BY <3>3
  <2>3. CASE Last(text) # NL
    <3>1. ends(l) = {}
      BY <2>1, <2>3, <1>1
    <3>2. Cardinality(ends(l)) = 0 /\ extra = 1
      BY <3>1, <2>3, FS_EmptySet
    <3> QED
      BY <3>2
  <2> QED
    BY <2>2, <2>3
<1> HIDE DEF ends, extra
<1>7. \A p : LinesAfter(text, p) = Cardinality(ends(p)) + extra
  BY DEF LinesAfter, ends, extra
<1>8. \A p : LinesAfter(text, p) \in Nat
  BY <1>3, <1>4, <1>7
<1>9. \A p, r \in Nat : p <= r => LinesAfter(text, r) <= LinesAfter(text, p)
  BY <1>3, <1>4, <1>5, <1>7
<1>10. \A p \in DOMAIN text : p <= l /\ LinesAfter(text, p) >= 1
  <2> TAKE p \in DOMAIN text
  <2>1. p \in Nat /\ p <= l
    BY <1>1
  <2>2. LinesAfter(text, l) = 1 /\ LinesAfter(text, l) <= LinesAfter(text, p) /\ LinesAfter(text, p) \in Nat
    BY <2>1, <1>1, <1>6, <1>7, <1>8, <1>9
  <2> QED
    BY <2>1, <2>2
<1> QED
  BY <1>2, <1>6, <1>7, <1>8, <1>9, <1>10 DEF ends, l

\* As many lines start at or after the start of a line as end there.
LEMMA StartsAndEnds ==
    ASSUME NEW X, NEW text \in Seq(X), NEW p \in LineStarts(text)
    PROVE  LET starts == {j \in LineStarts(text) : j >= p}
           IN  IsFiniteSet(starts) /\ Cardinality(starts) = LinesAfter(text, p)
<1> DEFINE l == Len(text)
           starts == {j \in LineStarts(text) : j >= p}
           later == starts \ {p}
           ends == {j \in DOMAIN text : j >= p /\ text[j] = NL}
           inner == ends \ {l}
<1>1. /\ l \in Nat /\ DOMAIN text = 1 .. l /\ p \in 1 .. l /\ text # <<>>
      /\ Last(text) = text[l]
      /\ \A j : j \in LineStarts(text) <=> j \in 1 .. l /\ (j = 1 \/ text[j - 1] = NL)
  BY LenProperties DEF Last, LineStarts
<1>2. IsFiniteSet(ends)
  BY <1>1, LinesAfterOf
<1>3. IsFiniteSet(inner) /\ Cardinality(inner) = Cardinality(ends) - IF Last(text) = NL THEN 1 ELSE 0
  <2>1. l \in ends <=> Last(text) = NL
    BY <1>1
  <2>2. IsFiniteSet(inner) /\ Cardinality(inner) = IF l \in ends THEN Cardinality(ends) - 1 ELSE Cardinality(ends)
    BY <1>2, FS_RemoveElement
  <2>3. Cardinality(ends) \in Nat
    BY <1>2, FS_CardinalityType
  <2> HIDE DEF inner, ends
  <2> QED
    BY <2>1, <2>2, <2>3
<1>4. IsFiniteSet(later) /\ Cardinality(later) = Cardinality(inner)
  <2> DEFINE f == [j \in inner |-> j + 1]
  <2>1. \A j \in inner : j \in 1 .. l /\ j >= p /\ text[j] = NL /\ j # l
    BY <1>1
  <2>2. f \in [inner -> later]
    <3> SUFFICES ASSUME NEW j \in inner PROVE j + 1 \in later
      OBVIOUS
    <3>1. j + 1 \in 1 .. l /\ (j + 1) - 1 = j /\ j + 1 >= p /\ j + 1 # p
      BY <2>1, <1>1
    <3>2. j + 1 \in LineStarts(text)
      BY <2>1, <3>1, <1>1
    <3> QED
      BY <3>1, <3>2
  <2>3. \A i, j \in inner : f[i] = f[j] => i = j
    BY <2>1
  <2>4. \A k \in later : \E j \in inner : f[j] = k
    <3> TAKE k \in later
    <3>1. k \in 1 .. l /\ k >= p /\ k # p /\ (k = 1 \/ text[k - 1] = NL)
      BY <1>1
    <3>2. k - 1 \in 1 .. l /\ k - 1 >= p /\ k - 1 # l /\ k # 1 /\ (k - 1) + 1 = k
      BY <3>1, <1>1
    <3>3. k - 1 \in inner
      BY <3>1, <3>2, <1>1
    <3> QED
      BY <3>2, <3>3
  <2> HIDE DEF inner, later, f
  <2> QED
    BY <2>2, <2>3, <2>4, <1>3, PairedOff
<1>5. starts = later \cup {p} /\ p \notin later
  BY <1>1
<1>6. IsFiniteSet(starts) /\ Cardinality(starts) = Cardinality(later) + 1
  BY <1>4, <1>5, FS_AddElement
<1>7. Cardinality(ends) \in Nat
  BY <1>2, FS_CardinalityType
<1>8. LinesAfter(text, p) = Cardinality(ends) + IF Last(text) = NL THEN 0 ELSE 1
  BY DEF LinesAfter
<1> HIDE DEF starts, later, ends, inner
<1>9. Cardinality(starts) = LinesAfter(text, p)
  BY <1>3, <1>4, <1>6, <1>7, <1>8
<1> QED
  BY <1>6, <1>9 DEF starts

\* The last n lines begin at the first place at or after which at most n
\* lines end.
LEMMA LastLinesFrom ==
    ASSUME NEW X, NEW text \in Seq(X), NEW n \in Nat, NEW p \in DOMAIN text,
           LinesAfter(text, p) <= n,
           \A r \in DOMAIN text : LinesAfter(text, r) <= n => p <= r
    PROVE  LastLines(text, n) = SubSeq(text, p, Len(text))
<1> DEFINE l == Len(text)
           S == LineStarts(text)
           From(k) == {j \in S : j >= k}
<1>1. /\ l \in Nat /\ DOMAIN text = 1 .. l /\ p \in 1 .. l /\ text # <<>> /\ 1 \in 1 .. l
      /\ \A j : j \in S <=> j \in 1 .. l /\ (j = 1 \/ text[j - 1] = NL)
  BY LenProperties DEF LineStarts
<1>2. /\ \A r : LinesAfter(text, r) \in Nat
      /\ \A r, s \in Nat : r <= s => LinesAfter(text, s) <= LinesAfter(text, r)
      /\ LinesAfter(text, p) >= 1
  BY <1>1, LinesAfterOf
<1>3. n # 0
  BY <1>2
<1>4. \A k \in S : IsFiniteSet(From(k)) /\ Cardinality(From(k)) = LinesAfter(text, k)
  BY StartsAndEnds
<1>5. 1 \in S /\ S = From(1)
  BY <1>1
<1>6. IsFiniteSet(S) /\ Cardinality(S) = LinesAfter(text, 1) /\ S \in SUBSET Nat
  BY <1>1, <1>4, <1>5
<1> HIDE DEF S, From, l
<1>7. CASE Cardinality(S) <= n
  <2>1. p <= 1
    BY <1>1, <1>6, <1>7
  <2>2. p = 1
    BY <2>1, <1>1
  <2>3. LastLines(text, n) = text
    BY <1>3, <1>7 DEF LastLines, S
  <2>4. SubSeq(text, 1, l) = text
    BY SubSeqFull DEF l
  <2> QED
    BY <2>2, <2>3, <2>4 DEF l
<1>8. CASE ~(Cardinality(S) <= n)
  <2> DEFINE first == CHOOSE k \in S : Cardinality(From(k)) = n
  <2>1. LastLines(text, n) = SubSeq(text, first, l)
    BY <1>3, <1>8 DEF LastLines, S, From, l
  <2>2. \E k \in S : Cardinality(From(k)) = n
    <3> DEFINE c == Cardinality(S)
               r == c - n + 1
               k == Nth(S, r)
    <3>1. c \in Nat /\ r \in 1 .. c
      <4>1. c \in Nat
        BY <1>6, FS_CardinalityType
      <4> QED
        BY <4>1, <1>3, <1>8
    <3>2. k \in S /\ Rank(S, k) = r
      BY <3>1, <1>6, Ranks
    <3> HIDE DEF c, r, k
    <3> DEFINE upto == {j \in S : j <= k}
               before == upto \ {k}
    <3>3. IsFiniteSet(upto) /\ Cardinality(upto) = r
      <4>1. upto \in SUBSET S
        OBVIOUS
      <4> QED
        BY <4>1, <3>2, <1>6, FS_Subset DEF Rank
    <3>4. k \in upto
      BY <3>2, <1>6
    <3>5. IsFiniteSet(before) /\ Cardinality(before) = r - 1
      BY <3>3, <3>4, FS_RemoveElement
    <3>6. From(k) = S \ before /\ S \cap before = before
      <4>1. \A j \in S : j >= k <=> j \notin before
        BY <3>2, <1>6
      <4> QED
        BY <4>1 DEF From
    <3>7. Cardinality(From(k)) = Cardinality(S) - Cardinality(before)
      <4> HIDE DEF before
      <4>1. Cardinality(S \ before) = Cardinality(S) - Cardinality(S \cap before)
        BY <1>6, FS_Difference
      <4> QED
        BY <4>1, <3>6
    <3>8. Cardinality(From(k)) = c - (r - 1)
      BY <3>5, <3>7 DEF c
    <3> QED
      BY <3>1, <3>2, <3>8 DEF r
  <2>3. first \in S /\ LinesAfter(text, first) = n
    BY <2>2, <1>4
  <2> HIDE DEF first
  <2>4. first \in 1 .. l /\ (first = 1 \/ text[first - 1] = NL)
    BY <2>3, <1>1
  <2>5. p <= first
    BY <2>3, <2>4, <1>1
  <2>6. p = first
    <3> SUFFICES ASSUME p < first PROVE FALSE
      BY <2>4, <2>5, <1>1
    <3> DEFINE b == first - 1
    <3>1. b \in 1 .. l /\ p <= b /\ b \in Nat /\ p \in Nat /\ first \in Nat /\ text[b] = NL
      BY <2>4, <1>1
    <3> DEFINE ends(r) == {j \in DOMAIN text : j >= r /\ text[j] = NL}
    <3>2. ends(b) = ends(first) \cup {b} /\ b \notin ends(first)
      <4>1. \A j \in 1 .. l : j >= b <=> j >= first \/ j = b
        BY <3>1
      <4>2. ~(b >= first)
        BY <3>1
      <4> HIDE DEF b
      <4> QED
        BY <4>1, <4>2, <3>1, <1>1
    <3>3. IsFiniteSet(ends(first))
      BY <1>1, LinesAfterOf
    <3>4. Cardinality(ends(b)) = Cardinality(ends(first)) + 1 /\ Cardinality(ends(first)) \in Nat
      <4> HIDE DEF ends, b
      <4> QED
        BY <3>2, <3>3, FS_AddElement, FS_CardinalityType
    <3>5. \A r : LinesAfter(text, r) = Cardinality(ends(r)) + IF Last(text) = NL THEN 0 ELSE 1
      BY DEF LinesAfter
    <3> HIDE DEF ends, b
    <3>6. LinesAfter(text, b) = n + 1
      BY <3>4, <3>5, <2>3
    <3>7. LinesAfter(text, b) <= LinesAfter(text, p)
      BY <3>1, <1>2
    <3> QED
      BY <3>6, <3>7, <1>2
  <2> QED
    BY <2>1, <2>6 DEF l
<1> QED
  BY <1>7, <1>8

-----------------------------------------------------------------------------
(* The text of the rows *)

\* What a set of rows holds, in order.
RowTexts(rows) == [i \in 1 .. Cardinality(rows) |-> log[InOrder(rows)[i]].data]

\* The place of byte k of the i-th of them in the whole text is off[i - 1] + k.
LEMMA RowTextsOf ==
    ASSUME log \in Seq(Chunks), NEW rows \in SUBSET DOMAIN log, IsFiniteSet(rows)
    PROVE  LET m == Cardinality(rows)
               R == InOrder(rows)
               s == RowTexts(rows)
           IN  /\ m \in Nat /\ s \in Seq(Seq(Bytes)) /\ Len(s) = m /\ DOMAIN s = 1 .. m
               /\ R \in [1 .. m -> rows]
               /\ \A i, j \in 1 .. m : R[i] \in Nat /\ (R[i] < R[j] <=> i < j) /\ (R[i] = R[j] => i = j)
               /\ \A x \in rows : \E i \in 1 .. m : R[i] = x
               /\ \A i \in 1 .. m : /\ s[i] = log[R[i]].data /\ s[i] \in Seq(Bytes)
                                    /\ Len(s[i]) \in Nat \ {0} /\ DOMAIN s[i] = 1 .. Len(s[i])
<1> DEFINE m == Cardinality(rows)
           R == InOrder(rows)
           s == RowTexts(rows)
<1>1. /\ \A x \in rows : /\ x \in Nat /\ log[x].data \in Seq(Bytes)
                         /\ Len(log[x].data) \in Nat \ {0}
                         /\ DOMAIN log[x].data = 1 .. Len(log[x].data)
      /\ rows \in SUBSET Nat
  BY Stored
<1>2. m \in Nat
  BY FS_CardinalityType
<1>3. /\ R \in [1 .. m -> rows] /\ DOMAIN R = 1 .. m
      /\ \A i, j \in 1 .. m : i < j => R[i] < R[j]
      /\ \A x \in rows : \E i \in 1 .. m : R[i] = x
  BY <1>1, Ordered
<1>4. s = [i \in 1 .. m |-> log[R[i]].data]
  BY DEF RowTexts
<1> HIDE DEF m, R, s
<1>5. \A i \in 1 .. m : /\ s[i] = log[R[i]].data /\ s[i] \in Seq(Bytes) /\ R[i] \in Nat
                        /\ Len(s[i]) \in Nat \ {0} /\ DOMAIN s[i] = 1 .. Len(s[i])
  <2> TAKE i \in 1 .. m
  <2>1. R[i] \in rows /\ s[i] = log[R[i]].data
    BY <1>3, <1>4
  <2> QED
    BY <2>1, <1>1
<1>6. \A i, j \in 1 .. m : R[i] \in Nat /\ (R[i] < R[j] <=> i < j) /\ (R[i] = R[j] => i = j)
  <2> TAKE i, j \in 1 .. m
  <2>1. R[i] \in Nat /\ R[j] \in Nat /\ i \in Nat /\ j \in Nat
    BY <1>2, <1>5
  <2>2. (i < j => R[i] < R[j]) /\ (j < i => R[j] < R[i])
    BY <1>3
  <2> QED
    BY <2>1, <2>2
<1>7. s \in Seq(Seq(Bytes)) /\ Len(s) = m /\ DOMAIN s = 1 .. m
  <2>1. s \in [1 .. m -> Seq(Bytes)]
    BY <1>4, <1>5
  <2>2. s \in Seq(Seq(Bytes))
    BY <1>2, <2>1, SeqDef
  <2> QED
    BY <1>2, <2>1, <2>2, LenProperties
<1> QED
  BY <1>2, <1>3, <1>5, <1>6, <1>7 DEF m, R, s

\* The lines of the text are the lines of the rows.
LEMMA SameCount ==
    ASSUME log \in Seq(Chunks), NEW rows \in SUBSET DOMAIN log, IsFiniteSet(rows),
           NEW off, Offsets(RowTexts(rows), off),
           NEW i \in 1 .. Cardinality(rows), NEW k \in DOMAIN log[InOrder(rows)[i]].data
    PROVE  LinesAfter(FlattenSeq(RowTexts(rows)), off[i - 1] + k) = LinesAt(rows, InOrder(rows)[i], k)
<1> DEFINE m == Cardinality(rows)
           R == InOrder(rows)
           s == RowTexts(rows)
           T == FlattenSeq(s)
<1>1. /\ m \in Nat /\ s \in Seq(Seq(Bytes)) /\ Len(s) = m /\ i \in 1 .. m
      /\ R \in [1 .. m -> rows]
      /\ \A a, b \in 1 .. m : R[a] \in Nat /\ (R[a] < R[b] <=> a < b) /\ (R[a] = R[b] => a = b)
      /\ \A x \in rows : \E a \in 1 .. m : R[a] = x
      /\ \A a \in 1 .. m : /\ s[a] = log[R[a]].data /\ s[a] \in Seq(Bytes)
                           /\ Len(s[a]) \in Nat \ {0} /\ DOMAIN s[a] = 1 .. Len(s[a])
  BY RowTextsOf
<1>2. T \in Seq(Bytes) /\ Len(T) = off[m] /\ \A a \in 1 .. m : \A n \in 1 .. Len(s[a]) : T[off[a - 1] + n] = s[a][n]
  <2>1. s \in Seq(Seq(Bytes)) /\ Offsets(s, off)
    BY <1>1
  <2> HIDE DEF s, m, R
  <2>2. T \in Seq(Bytes) /\ Joined(T, s, off)
    BY <2>1, FlattenOf
  <2> HIDE DEF T
  <2> QED
    BY <2>2, <1>1 DEF Joined
<1>3. k \in 1 .. Len(s[i]) /\ Offsets(s, off)
  BY <1>1
<1> HIDE DEF m, R, s, T
<1>4. \A a \in 1 .. Len(s) : Len(s[a]) \in Nat
  BY <1>1
<1>4a. Len(s) = m
  BY <1>1
<1>4b. /\ \A q \in 1 .. off[m] : \E a \in 1 .. m : \E n \in 1 .. Len(s[a]) : q = off[a - 1] + n
       /\ \A a \in 1 .. m : \A n \in 1 .. Len(s[a]) : off[a - 1] + n \in 1 .. off[m]
  <2>1. Len(s) \in Nat /\ Offsets(s, off)
    BY <1>1, <1>3
  <2>2. Places(s, off)
    BY <2>1, <1>4, PlacesOf
  <2> QED
    BY <2>2, <1>4a DEF Places
<1>5. DOMAIN T = 1 .. off[m] /\ \A p \in DOMAIN T : \E a \in 1 .. m : \E n \in 1 .. Len(s[a]) : p = off[a - 1] + n
  <2>1. DOMAIN T = 1 .. off[m]
    BY <1>2, LenProperties
  <2> QED
    BY <2>1, <1>4b
<1>6. \A a \in 1 .. m : \A n \in 1 .. Len(s[a]) : off[a - 1] + n \in DOMAIN T
  BY <1>4b, <1>5
<1>7. \A a, b \in 1 .. m : \A x \in 1 .. Len(s[a]) : \A y \in 1 .. Len(s[b]) :
        /\ off[a - 1] + x >= off[b - 1] + y <=> a > b \/ (a = b /\ x >= y)
        /\ off[a - 1] + x = off[b - 1] + y => a = b /\ x = y
  <2>1. Len(s) \in Nat /\ Offsets(s, off)
    BY <1>1, <1>3
  <2>2. TextOrder(s, off)
    BY <2>1, <1>4, PlacesOrdered
  <2> QED
    BY <2>2, <1>4a DEF TextOrder
<1> DEFINE row == R[i]
           p == off[i - 1] + k
           At == {e \in LineEnds(rows, row) : e[1] > row \/ e[2] >= k}
           ends == {j \in DOMAIN T : j >= p /\ T[j] = NL}
\* A line end of a row, and its place in the text.
<1>8. \A e \in At : \E a \in 1 .. m : \E n \in 1 .. Len(s[a]) :
         e = <<R[a], n>> /\ s[a][n] = NL /\ (a > i \/ (a = i /\ n >= k))
  <2> TAKE e \in At
  <2>1. PICK j \in rows : \E n \in Newlines(log[j].data) : j >= row /\ e = <<j, n>>
    BY LineEndsOf
  <2>2. PICK n \in Newlines(log[j].data) : j >= row /\ e = <<j, n>>
    BY <2>1
  <2>3. PICK a \in 1 .. m : R[a] = j
    BY <1>1
  <2>4. n \in 1 .. Len(s[a]) /\ s[a][n] = NL
    BY <2>2, <2>3, <1>1 DEF Newlines
  <2>5. j > row \/ n >= k
    BY <2>2
  <2>6. a > i \/ (a = i /\ n >= k)
    <3> HIDE DEF At
    <3>0. i \in 1 .. m
      BY <1>1
    <3>1. R[a] \in Nat /\ R[i] \in Nat /\ (R[i] < R[a] <=> i < a) /\ (R[a] = R[i] => a = i)
      BY <3>0, <1>1
    <3>2. a \in Nat /\ i \in Nat
      BY <3>0, <1>1
    <3> QED
      BY <3>1, <3>2, <2>2, <2>3, <2>5
  <2>7. e = <<R[a], n>>
    BY <2>2, <2>3
  <2> QED
    BY <2>4, <2>6, <2>7
<1>9. \A a \in 1 .. m : \A n \in 1 .. Len(s[a]) :
         s[a][n] = NL /\ (a > i \/ (a = i /\ n >= k)) => <<R[a], n>> \in At
  <2> SUFFICES ASSUME NEW a \in 1 .. m, NEW n \in 1 .. Len(s[a]),
                      s[a][n] = NL, a > i \/ (a = i /\ n >= k)
               PROVE  <<R[a], n>> \in At
    OBVIOUS
  <2>1. R[a] \in rows /\ n \in Newlines(log[R[a]].data)
    BY <1>1 DEF Newlines
  <2>2. R[a] >= row /\ (R[a] > row \/ n >= k)
    <3>1. R[a] \in Nat /\ R[i] \in Nat /\ a \in Nat /\ i \in Nat /\ (R[i] < R[a] <=> i < a)
      BY <1>1
    <3> QED
      BY <3>1
  <2>3. <<R[a], n>> \in LineEnds(rows, row)
    BY <2>1, <2>2, LineEndsOf
  <2> QED
    BY <2>2, <2>3
<1>10. IsFiniteSet(ends)
  <2>1. p \in DOMAIN T
    BY <1>1, <1>3, <1>6
  <2>2. T # <<>>
    BY <2>1
  <2> QED
    BY <2>2, <1>2, LinesAfterOf
<1>11. Cardinality(At) = Cardinality(ends)
  <2> DEFINE Of(j, e) == \E a \in 1 .. m : \E n \in 1 .. Len(s[a]) : e = <<R[a], n>> /\ j = off[a - 1] + n
             f == [j \in ends |-> CHOOSE e \in At : Of(j, e)]
  <2>1. \A j \in ends : \E e \in At : Of(j, e)
    <3> TAKE j \in ends
    <3>1. PICK a \in 1 .. m : \E n \in 1 .. Len(s[a]) : j = off[a - 1] + n
      BY <1>5
    <3>2. PICK n \in 1 .. Len(s[a]) : j = off[a - 1] + n
      BY <3>1
    <3>3. s[a][n] = NL
      BY <3>2, <1>2
    <3>4. a > i \/ (a = i /\ n >= k)
      BY <3>2, <1>1, <1>3, <1>7
    <3>5. <<R[a], n>> \in At
      BY <3>3, <3>4, <1>9
    <3> HIDE DEF At
    <3> QED
      BY <3>2, <3>5
  <2>2. \A j \in ends : f[j] \in At /\ Of(j, f[j])
    <3> HIDE DEF Of, At, ends
    <3> QED
      BY <2>1
  <2>3. \A j, r \in ends : f[j] = f[r] => j = r
    <3> HIDE DEF f, At, ends
    <3> SUFFICES ASSUME NEW j \in ends, NEW r \in ends, f[j] = f[r]
                 PROVE  j = r
      OBVIOUS
    <3>1. PICK a \in 1 .. m : \E n \in 1 .. Len(s[a]) : f[j] = <<R[a], n>> /\ j = off[a - 1] + n
      BY <2>2
    <3>2. PICK n \in 1 .. Len(s[a]) : f[j] = <<R[a], n>> /\ j = off[a - 1] + n
      BY <3>1
    <3>3. PICK b \in 1 .. m : \E x \in 1 .. Len(s[b]) : f[r] = <<R[b], x>> /\ r = off[b - 1] + x
      BY <2>2
    <3>4. PICK x \in 1 .. Len(s[b]) : f[r] = <<R[b], x>> /\ r = off[b - 1] + x
      BY <3>3
    <3>5. <<R[a], n>> = <<R[b], x>>
      BY <3>2, <3>4
    <3>5a. R[a] = R[b] /\ n = x
      BY <3>5
    <3>6. a = b
      BY <3>5a, <1>1
    <3> QED
      BY <3>2, <3>4, <3>5a, <3>6
  <2>4. \A e \in At : \E j \in ends : f[j] = e
    <3> TAKE e \in At
    <3>1. PICK a \in 1 .. m : \E n \in 1 .. Len(s[a]) : e = <<R[a], n>> /\ s[a][n] = NL /\ (a > i \/ (a = i /\ n >= k))
      BY <1>8
    <3>2. PICK n \in 1 .. Len(s[a]) : e = <<R[a], n>> /\ s[a][n] = NL /\ (a > i \/ (a = i /\ n >= k))
      BY <3>1
    <3> DEFINE j == off[a - 1] + n
    <3>3. j \in DOMAIN T /\ T[j] = NL
      BY <3>2, <1>2, <1>6
    <3>4. j >= p
      BY <3>2, <1>1, <1>3, <1>7
    <3>5. j \in ends
      BY <3>3, <3>4
    <3> HIDE DEF f, At, ends
    <3>6. PICK b \in 1 .. m : \E x \in 1 .. Len(s[b]) : f[j] = <<R[b], x>> /\ j = off[b - 1] + x
      BY <2>2, <3>5
    <3>7. PICK x \in 1 .. Len(s[b]) : f[j] = <<R[b], x>> /\ j = off[b - 1] + x
      BY <3>6
    <3>8. a = b /\ n = x
      BY <3>7, <1>7
    <3>9. f[j] = e
      BY <3>2, <3>7, <3>8
    <3> QED
      BY <3>5, <3>9
  <2>5. f \in [ends -> At]
    <3> HIDE DEF Of, At, ends
    <3> QED
      BY <2>2
  <2> HIDE DEF f, At, ends
  <2> QED
    BY <2>3, <2>4, <2>5, <1>10, PairedOff
\* The text ends as its last row does.
<1>12. Last(T) = Last(log[Max(rows)].data)
  <2>1. m \in 1 .. m /\ m \in 0 .. m /\ m - 1 \in 0 .. m /\ rows # {} /\ rows \in SUBSET Nat
    <3>1. m \in 1 .. m /\ m \in 0 .. m /\ m - 1 \in 0 .. m
      BY <1>1
    <3>2. R[m] \in rows /\ \A x \in rows : x \in Nat
      BY <3>1, <1>1
    <3> QED
      BY <3>1, <3>2
  <2>2. Max(rows) = R[m]
    <3>1. Max(rows) \in rows /\ \A x \in rows : x <= Max(rows)
      BY <2>1, Extremes
    <3>2. PICK a \in 1 .. m : R[a] = Max(rows)
      BY <3>1, <1>1
    <3>3. R[m] \in rows /\ R[m] <= R[a]
      BY <2>1, <3>1, <3>2, <1>1
    <3>4. R[m] \in Nat /\ R[a] \in Nat /\ (R[a] < R[m] <=> a < m) /\ a \in Nat /\ a <= m
      BY <2>1, <1>1
    <3>5. a = m
      BY <3>3, <3>4, <1>1
    <3> QED
      BY <3>2, <3>5
  <2> DEFINE l == Len(s[m])
  <2>3. l \in 1 .. l /\ off[m] = off[m - 1] + l
    <3>1. l \in Nat \ {0}
      BY <2>1, <1>1
    <3>2. off[m] = off[m - 1] + l
      BY <2>1, <1>1, <1>3 DEF Offsets
    <3> HIDE DEF l
    <3> QED
      BY <3>1, <3>2
  <2>4. T[off[m]] = s[m][l]
    BY <2>1, <2>3, <1>2
  <2>5. Last(T) = T[off[m]] /\ Last(s[m]) = s[m][l]
    BY <1>2 DEF Last
  <2> QED
    BY <2>1, <2>2, <2>4, <2>5, <1>1
<1>13. LinesAfter(T, p) = Cardinality(ends) + IF Last(T) = NL THEN 0 ELSE 1
  BY DEF LinesAfter
<1>14. LinesAt(rows, row, k) = Cardinality(At) + IF Last(log[Max(rows)].data) = NL THEN 0 ELSE 1
  BY DEF LinesAt
<1> HIDE DEF ends, At
<1>15. LinesAfter(T, p) = LinesAt(rows, row, k)
  BY <1>11, <1>12, <1>13, <1>14
<1> QED
  BY <1>15 DEF m, R, s, T

\* The text of an answer.
LEMMA TextSent ==
    ASSUME NEW rows, NEW trim
    PROVE  Text(ChunksOf(rows, trim))
             = FlattenSeq([k \in 1 .. Cardinality(Kept(rows, trim))
                             |-> Sent(rows, trim, InOrder(Kept(rows, trim))[k])])
<1> DEFINE K == Kept(rows, trim)
           ids == InOrder(K)
           chunks == ChunksOf(rows, trim)
<1>1. DOMAIN ids = 1 .. Cardinality(K)
  BY DEF InOrder
<1>2. chunks = [k \in DOMAIN ids |-> [id |-> ids[k], proc |-> log[ids[k]].proc, data |-> Sent(rows, trim, ids[k])]]
  BY DEF ChunksOf
<1> HIDE DEF ids, chunks, K
<1>3. DOMAIN chunks = 1 .. Cardinality(K) /\ \A k \in DOMAIN chunks : chunks[k].data = Sent(rows, trim, ids[k])
  BY <1>1, <1>2
<1>4. [k \in DOMAIN chunks |-> chunks[k].data] = [k \in 1 .. Cardinality(K) |-> Sent(rows, trim, ids[k])]
  BY <1>3
<1>5. Text(chunks) = FlattenSeq([k \in 1 .. Cardinality(K) |-> Sent(rows, trim, ids[k])])
  BY <1>4 DEF Text
<1> QED
  BY <1>5 DEF chunks, ids, K

\* Without --tail, the text is what the selected rows hold.
LEMMA TextOfRows ==
    ASSUME log \in Seq(Chunks), NEW q
    PROVE  TextOf(q) = FlattenSeq(RowTexts(Selected(q, 0)))
<1> DEFINE rows == Selected(q, 0)
           R == InOrder(rows)
<1>1. rows \in SUBSET DOMAIN log /\ IsFiniteSet(rows)
  BY SelectedOf
<1>2. \A i \in rows : Sent(rows, 0, i) = log[i].data /\ log[i].data # <<>>
  BY <1>1, Stored DEF Sent, TrimLeadingLines
<1>3. TextOf(q) = Text(ChunksOf(rows, 0))
  BY DEF TextOf, Answer
<1> HIDE DEF rows
<1>4. Kept(rows, 0) = rows
  BY <1>2 DEF Kept
<1>5. \A k \in 1 .. Cardinality(rows) : R[k] \in rows
  BY <1>1, RowTextsOf
<1>6. [k \in 1 .. Cardinality(rows) |-> Sent(rows, 0, R[k])] = RowTexts(rows)
  BY <1>2, <1>5 DEF RowTexts
<1>7. Text(ChunksOf(rows, 0)) = FlattenSeq([k \in 1 .. Cardinality(rows) |-> Sent(rows, 0, R[k])])
  BY <1>4, TextSent
<1> QED
  BY <1>3, <1>6, <1>7 DEF rows

\* A text without n lines to its end has no last n lines to speak of.
LEMMA NoLastLines ==
    ASSUME NEW X, NEW text \in Seq(X), NEW n \in Nat,
           \A p \in DOMAIN text : ~(LinesAfter(text, p) <= n)
    PROVE  LastLines(text, n) = <<>>
<1>1. CASE text = <<>>
  <2>1. DOMAIN text = {}
    BY <1>1
  <2>2. LineStarts(text) = {}
    BY <2>1 DEF LineStarts
  <2>3. Cardinality(LineStarts(text)) <= n
    BY <2>2, FS_EmptySet
  <2> QED
    BY <1>1, <2>3 DEF LastLines
<1>2. CASE text # <<>>
  <2> DEFINE l == Len(text)
  <2>1. l \in DOMAIN text
    <3>1. l \in Nat /\ l # 0 /\ DOMAIN text = 1 .. l
      BY <1>2, LenProperties, EmptySeq
    <3> HIDE DEF l
    <3> QED
      BY <3>1
  <2>2. LinesAfter(text, l) = 1
    BY <1>2, LinesAfterOf
  <2>3. ~(1 <= n)
    BY <2>1, <2>2
  <2>4. n = 0
    BY <2>3
  <2> QED
    BY <2>4 DEF LastLines
<1> QED
  BY <1>1, <1>2

\* A read with --tail n sends the last n lines of what the query selects.
LEMMA TailText ==
    ASSUME log \in Seq(Chunks), NEW q, NEW n \in Nat, n # Null
    PROVE  Text(ReadOutput(q, 0, n).chunks) = LastLines(TextOf(q), n)
<1> DEFINE rows == Selected(q, 0)
           start == SeekTail(q, n).start
           trim == SeekTail(q, n).trim
           later == Selected(q, start)
           K == Kept(later, trim)
           sent(i) == Sent(later, trim, i)
           m == Cardinality(rows)
           R == InOrder(rows)
           s == RowTexts(rows)
           T == FlattenSeq(s)
           t == [k \in 1 .. Cardinality(K) |-> sent(InOrder(K)[k])]
<1>1. Text(ReadOutput(q, 0, n).chunks) = FlattenSeq(t)
  <2>1. ReadOutput(q, 0, n).chunks = ChunksOf(later, trim)
    BY DEF ReadOutput, Answer
  <2>2. Text(ChunksOf(later, trim)) = FlattenSeq(t)
    BY TextSent
  <2> QED
    BY <2>1, <2>2
<1>2. TextOf(q) = T
  BY TextOfRows
<1>3. /\ rows \in SUBSET DOMAIN log /\ IsFiniteSet(rows) /\ rows \in SUBSET Nat
      /\ start \in Nat /\ trim \in Nat
      /\ \A i \in rows : \A k \in DOMAIN log[i].data :
           LinesAt(rows, i, k) <= n <=> i > start /\ k > Len(log[i].data) - Len(sent(i))
  <2>1. /\ start \in Nat /\ trim \in Nat
        /\ \A i \in rows : \A k \in DOMAIN log[i].data :
             LinesAt(rows, i, k) <= n <=> i > start /\ k > Len(log[i].data) - Len(sent(i))
    BY TailBytes
  <2>2. rows \in SUBSET DOMAIN log /\ IsFiniteSet(rows) /\ rows \in SUBSET Nat
    BY SelectedOf
  <2> QED
    BY <2>1, <2>2
<1>4. \A i : i \in later <=> i \in rows /\ i > start
  BY <1>3, SelectedOf
<1>5. \A i \in rows : /\ sent(i) \in Seq(Bytes) /\ Len(sent(i)) \in 0 .. Len(log[i].data)
                      /\ sent(i) = SubSeq(log[i].data, Len(log[i].data) - Len(sent(i)) + 1, Len(log[i].data))
  BY <1>3, SentOf
<1>6. \A i : i \in K <=> i \in rows /\ i > start /\ sent(i) # <<>>
  BY <1>4 DEF Kept
<1>7. /\ m \in Nat /\ s \in Seq(Seq(Bytes)) /\ Len(s) = m
      /\ R \in [1 .. m -> rows]
      /\ \A i, j \in 1 .. m : R[i] \in Nat /\ (R[i] < R[j] <=> i < j) /\ (R[i] = R[j] => i = j)
      /\ \A x \in rows : \E i \in 1 .. m : R[i] = x
      /\ \A i \in 1 .. m : /\ s[i] = log[R[i]].data /\ s[i] \in Seq(Bytes)
                           /\ Len(s[i]) \in Nat \ {0} /\ DOMAIN s[i] = 1 .. Len(s[i])
  BY <1>3, RowTextsOf
<1> HIDE DEF start, trim, later
<1>8. PICK off : Offsets(s, off)
  <2>1. s \in Seq(Seq(Bytes))
    BY <1>7
  <2> HIDE DEF s
  <2> QED
    BY <2>1, FlattenOf
<1>9. T \in Seq(Bytes) /\ Joined(T, s, off) /\ Places(s, off)
  <2>1. s \in Seq(Seq(Bytes)) /\ Offsets(s, off) /\ Len(s) \in Nat /\ \A i \in 1 .. Len(s) : Len(s[i]) \in Nat
    BY <1>7, <1>8
  <2> HIDE DEF s, m, R
  <2> QED
    BY <2>1, FlattenOf, PlacesOf
<1>10. \A i \in 1 .. m : \A k \in 1 .. Len(s[i]) :
         LinesAfter(T, off[i - 1] + k) <= n <=> R[i] > start /\ k > Len(s[i]) - Len(sent(R[i]))
  <2> TAKE i \in 1 .. m
  <2> TAKE k \in 1 .. Len(s[i])
  <2>1. R[i] \in rows /\ k \in DOMAIN log[R[i]].data /\ s[i] = log[R[i]].data
    BY <1>7
  <2>2. LinesAfter(T, off[i - 1] + k) = LinesAt(rows, R[i], k)
    BY <2>1, <1>3, <1>8, SameCount
  <2> HIDE DEF T, s, R, rows, sent
  <2> QED
    BY <2>1, <2>2, <1>3
<1>11. \A i \in 1 .. m : /\ R[i] \in rows /\ sent(R[i]) \in Seq(Bytes) /\ Len(sent(R[i])) \in 0 .. Len(s[i])
                         /\ sent(R[i]) = SubSeq(s[i], Len(s[i]) - Len(sent(R[i])) + 1, Len(s[i]))
                         /\ Len(s[i]) \in Nat /\ Len(s[i]) > 0 /\ Len(sent(R[i])) \in Nat
                         /\ sent(R[i]) # <<>> => Len(sent(R[i])) > 0
  <2> TAKE i \in 1 .. m
  <2>1. R[i] \in rows /\ s[i] = log[R[i]].data /\ Len(s[i]) \in Nat \ {0}
    BY <1>7
  <2> HIDE DEF rows, R, s, m
  <2>2. /\ sent(R[i]) \in Seq(Bytes) /\ Len(sent(R[i])) \in 0 .. Len(s[i])
        /\ sent(R[i]) = SubSeq(s[i], Len(s[i]) - Len(sent(R[i])) + 1, Len(s[i]))
    BY <2>1, <1>5
  <2> HIDE DEF sent
  <2>3. sent(R[i]) # <<>> => Len(sent(R[i])) # 0
    BY <2>2, EmptySeq
  <2>4. Len(s[i]) > 0
    BY <2>1
  <2>5. Len(sent(R[i])) \in Nat
    BY <2>1, <2>2
  <2>6. sent(R[i]) # <<>> => Len(sent(R[i])) > 0
    BY <2>3, <2>5
  <2>7. Len(s[i]) \in Nat
    BY <2>1
  <2> QED
    BY <2>1, <2>2, <2>4, <2>5, <2>6, <2>7
<1> DEFINE few == {p \in DOMAIN T : LinesAfter(T, p) <= n}
<1>12. DOMAIN T = 1 .. off[m] /\ off[m] = Len(T) /\ Len(T) \in Nat /\ DOMAIN T = 1 .. Len(T)
  <2>1. Len(s) = m
    BY <1>7
  <2> HIDE DEF T, s, m
  <2> QED
    BY <2>1, <1>9, LenProperties DEF Joined
<1>13. t \in Seq(Seq(Bytes)) /\ Len(t) = Cardinality(K) /\ \A k \in 1 .. Cardinality(K) : t[k] = sent(InOrder(K)[k])
  <2>1. K \in SUBSET Nat /\ IsFiniteSet(K) /\ \A x \in K : x \in rows
    <3>1. K \in SUBSET rows
      BY <1>6
    <3> QED
      BY <3>1, <1>3, FS_Subset
  <2> DEFINE c == Cardinality(K)
             ids == InOrder(K)
  <2>2. c \in Nat
    BY <2>1, FS_CardinalityType
  <2>3. \A k \in 1 .. c : ids[k] \in K
    BY <2>1, Ordered
  <2> HIDE DEF c, ids, K
  <2>4. \A k \in 1 .. c : sent(ids[k]) \in Seq(Bytes)
    BY <2>1, <2>3, <1>5
  <2> DEFINE u == [k \in 1 .. c |-> sent(ids[k])]
  <2> HIDE DEF sent
  <2>5. u \in [1 .. c -> Seq(Bytes)]
    BY <2>4
  <2>6. \A k \in 1 .. c : u[k] = sent(ids[k])
    OBVIOUS
  <2> HIDE DEF u
  <2>7. u \in Seq(Seq(Bytes)) /\ Len(u) = c
    <3>1. u \in Seq(Seq(Bytes))
      BY <2>2, <2>5, SeqDef
    <3> QED
      BY <3>1, <2>2, <2>5, LenProperties
  <2>8. t = u
    BY DEF u, c, ids, sent
  <2> HIDE DEF t
  <2> QED
    BY <2>6, <2>7, <2>8 DEF c, ids
<1> HIDE DEF rows, K, sent, m, R, s, T, t
\* Nothing is sent.
<1>14. CASE few = {}
  <2>1. LastLines(T, n) = <<>>
    BY <1>9, <1>14, NoLastLines
  <2>2. K = {}
    <3> SUFFICES ASSUME NEW x \in K PROVE FALSE
      OBVIOUS
    <3>1. x \in rows /\ x > start /\ sent(x) # <<>>
      BY <1>6
    <3>2. PICK i \in 1 .. m : R[i] = x
      BY <3>1, <1>7
    <3> DEFINE l == Len(s[i])
               c == Len(sent(R[i]))
    <3>3. l \in Nat /\ l > 0 /\ c \in Nat /\ c > 0 /\ R[i] > start
      BY <3>1, <3>2, <1>11
    <3>4. \A k \in 1 .. l : LinesAfter(T, off[i - 1] + k) <= n <=> R[i] > start /\ k > l - c
      BY <1>10
    <3>5. off[i - 1] + l \in DOMAIN T
      <4>1. l \in 1 .. l
        <5> HIDE DEF l
        <5> QED
          BY <3>3
      <4> QED
        BY <4>1, <1>7, <1>9, <1>12 DEF Places
    <3> HIDE DEF l, c
    <3>6. l \in 1 .. l /\ l > l - c
      BY <3>3
    <3>7. LinesAfter(T, off[i - 1] + l) <= n
      BY <3>3, <3>4, <3>6
    <3> QED
      BY <3>5, <3>7, <1>14
  <2>3. t = <<>>
    <3>1. Len(t) = 0
      BY <2>2, <1>13, FS_EmptySet
    <3> QED
      BY <3>1, <1>13, EmptySeq
  <2>4. FlattenSeq(t) = <<>>
    <3>1. Len(t) \in Nat /\ Len(t) = 0
      BY <2>3, EmptySeq
    <3> QED
      BY <2>3, <3>1, Flattened
  <2> QED
    BY <1>1, <1>2, <2>1, <2>4
\* The first byte sent, and its place in the text.
<1>15. CASE few # {}
  <2> DEFINE P == Min(few)
  <2>1. P \in few /\ \A p \in few : P <= p
    <3> DEFINE l == Len(T)
    <3>0. IsFiniteSet(1 .. l) /\ 1 .. l \in SUBSET Nat
      <4>1. l \in Nat
        BY <1>12
      <4> HIDE DEF l
      <4> QED
        BY <4>1, FS_Interval
    <3>1. few \in SUBSET DOMAIN T /\ DOMAIN T \in SUBSET Nat /\ IsFiniteSet(DOMAIN T)
      BY <3>0, <1>12
    <3>2. few \in SUBSET Nat /\ IsFiniteSet(few)
      BY <3>1, FS_Subset
    <3> HIDE DEF few
    <3> QED
      BY <3>2, <1>15, Extremes
  <2> HIDE DEF P
  <2>2. LastLines(T, n) = SubSeq(T, P, Len(T))
    BY <2>1, <1>9, LastLinesFrom
  <2>3. PICK a \in 1 .. m : \E k \in 1 .. Len(s[a]) : P = off[a - 1] + k
    <3>1. \A p \in 1 .. off[Len(s)] : \E i \in 1 .. Len(s) : \E k \in 1 .. Len(s[i]) : p = off[i - 1] + k
      BY <1>9 DEF Places
    <3>2. Len(s) = m /\ P \in 1 .. off[m]
      BY <2>1, <1>7, <1>12
    <3> QED
      BY <3>1, <3>2
  <2>4. PICK b \in 1 .. Len(s[a]) : P = off[a - 1] + b
    BY <2>3
  <2>5. \A i \in 1 .. m : \A k \in 1 .. Len(s[i]) :
          /\ off[i - 1] + k \in DOMAIN T /\ off[i - 1] + k \in Nat
          /\ off[i - 1] + k \in few <=> R[i] > start /\ k > Len(s[i]) - Len(sent(R[i]))
    <3> TAKE i \in 1 .. m
    <3> TAKE k \in 1 .. Len(s[i])
    <3>1. off[i - 1] + k \in DOMAIN T
      BY <1>7, <1>9, <1>12 DEF Places
    <3>2. off[i - 1] + k \in Nat
      BY <3>1, <1>12
    <3> QED
      BY <3>1, <3>2, <1>10
  <2>6. \A p \in DOMAIN T : P <= p => p \in few
    <3> TAKE p \in DOMAIN T
    <3>1. p \in Nat /\ P \in Nat /\ P \in DOMAIN T /\ LinesAfter(T, P) <= n
      BY <2>1, <1>12
    <3>2. P <= p => LinesAfter(T, p) <= LinesAfter(T, P)
      BY <3>1, <1>9, LinesAfterOf
    <3>3. LinesAfter(T, p) \in Nat /\ LinesAfter(T, P) \in Nat
      BY <3>1, <1>9, LinesAfterOf
    <3> QED
      BY <3>1, <3>2, <3>3
\* A place sends if and only if it is P or behind it.
  <2>7. \A i \in 1 .. m : \A k \in 1 .. Len(s[i]) :
          R[i] > start /\ k > Len(s[i]) - Len(sent(R[i])) <=> i > a \/ (i = a /\ k >= b)
    <3> TAKE i \in 1 .. m
    <3> TAKE k \in 1 .. Len(s[i])
    <3> DEFINE p == off[i - 1] + k
    <3>1. p \in DOMAIN T /\ p \in Nat /\ (p \in few <=> R[i] > start /\ k > Len(s[i]) - Len(sent(R[i])))
      BY <2>5
    <3>2. p >= P <=> i > a \/ (i = a /\ k >= b)
      <4>1. Len(s) \in Nat /\ Offsets(s, off) /\ \A j \in 1 .. Len(s) : Len(s[j]) \in Nat
        BY <1>7, <1>8
      <4>2. Len(s) = m
        BY <1>7
      <4>3. TextOrder(s, off)
        BY <4>1, PlacesOrdered
      <4> QED
        BY <4>2, <4>3, <2>4 DEF TextOrder
    <3> HIDE DEF p, few
    <3>3. p \in few <=> p >= P
      <4>1. P \in Nat
        BY <2>1, <1>12 DEF few
      <4> QED
        BY <4>1, <3>1, <2>1, <2>6
    <3> QED
      BY <3>1, <3>2, <3>3
  <2>8. /\ R[a] > start /\ b = Len(s[a]) - Len(sent(R[a])) + 1
        /\ Len(sent(R[a])) > 0
    <3> DEFINE l == Len(s[a])
               c == Len(sent(R[a]))
    <3>1. l \in Nat /\ c \in 0 .. l /\ b \in 1 .. l
      BY <2>4, <1>11
    <3>2. \A k \in 1 .. l : R[a] > start /\ k > l - c <=> k >= b
      <4> TAKE k \in 1 .. l
      <4>1. R[a] > start /\ k > l - c <=> a > a \/ (a = a /\ k >= b)
        BY <2>7
      <4>2. ~(a > a)
        BY <1>7
      <4> QED
        BY <4>1, <4>2
    <3> HIDE DEF l, c
    <3>3. R[a] > start /\ b > l - c
      BY <3>1, <3>2
    <3>4. b = l - c + 1
      <4>1. b - 1 \in 1 .. l => ~(b - 1 > l - c)
        BY <3>1, <3>2, <3>3
      <4> QED
        BY <4>1, <3>1, <3>3
    <3>5. c > 0
      BY <3>1, <3>4
    <3> QED
      BY <3>3, <3>4, <3>5 DEF l, c
  <2>9. \A i \in 1 .. m : i > a => R[i] > start /\ Len(sent(R[i])) = Len(s[i]) /\ sent(R[i]) = s[i] /\ sent(R[i]) # <<>>
    <3> SUFFICES ASSUME NEW i \in 1 .. m, i > a
                 PROVE  R[i] > start /\ Len(sent(R[i])) = Len(s[i]) /\ sent(R[i]) = s[i] /\ sent(R[i]) # <<>>
      OBVIOUS
    <3> DEFINE l == Len(s[i])
               c == Len(sent(R[i]))
    <3>1. l \in Nat /\ l > 0 /\ c \in 0 .. l
      BY <1>11
    <3>2. \A k \in 1 .. l : R[i] > start /\ k > l - c
      BY <2>7
    <3> HIDE DEF l, c
    <3>3. 1 \in 1 .. l
      BY <3>1
    <3>4. R[i] > start /\ 1 > l - c
      BY <3>2, <3>3
    <3>5. c = l /\ l - c + 1 = 1
      BY <3>1, <3>4
    <3>6. sent(R[i]) = SubSeq(s[i], l - c + 1, l) /\ s[i] \in Seq(Bytes)
      BY <1>7, <1>11 DEF l, c
    <3>7. SubSeq(s[i], 1, l) = s[i]
      BY <3>6, SubSeqFull DEF l
    <3>8. sent(R[i]) # <<>>
      <4>1. c # 0
        BY <3>1, <3>5
      <4> QED
        BY <4>1, EmptySeq DEF c
    <3> QED
      BY <3>4, <3>5, <3>6, <3>7, <3>8 DEF l, c
  <2>10. \A i \in 1 .. m : R[i] \in K => i >= a
    <3> SUFFICES ASSUME NEW i \in 1 .. m, R[i] \in K PROVE i >= a
      OBVIOUS
    <3> DEFINE l == Len(s[i])
               c == Len(sent(R[i]))
    <3>1. l \in Nat /\ l > 0 /\ c \in 0 .. l /\ c > 0 /\ R[i] > start
      BY <1>6, <1>11
    <3>2. \A k \in 1 .. l : R[i] > start /\ k > l - c <=> i > a \/ (i = a /\ k >= b)
      BY <2>7
    <3> HIDE DEF l, c
    <3>3. l \in 1 .. l /\ l > l - c
      BY <3>1
    <3>4. i > a \/ i = a
      BY <3>1, <3>2, <3>3
    <3>5. i \in Nat /\ a \in Nat
      BY <1>7
    <3> QED
      BY <3>4, <3>5
  <2>11. \A x : x \in K <=> x \in rows /\ x >= R[a]
    <3> TAKE x
    <3>1. x \in K => x \in rows
      BY <1>6
    <3>2. ASSUME NEW i \in 1 .. m PROVE R[i] \in K <=> R[i] >= R[a]
      <4>1. R[i] \in K <=> i >= a
        <5>1. i > a => R[i] \in K
          BY <2>9, <1>6, <1>11
        <5>2. R[a] \in K
          <6>1. sent(R[a]) # <<>>
            <7>1. Len(sent(R[a])) # 0
              BY <2>8
            <7> QED
              BY <7>1, EmptySeq
          <6> QED
            BY <6>1, <2>8, <1>6, <1>11
        <5>3. i \in Nat /\ a \in Nat
          BY <1>7
        <5>4. i >= a => i > a \/ i = a
          BY <5>3
        <5> QED
          BY <5>1, <5>2, <5>4, <2>10
      <4>2. i >= a <=> R[i] >= R[a]
        <5>1. R[i] \in Nat /\ R[a] \in Nat /\ (R[i] < R[a] <=> i < a)
          BY <1>7
        <5>2. i \in Nat /\ a \in Nat
          BY <1>7
        <5> QED
          BY <5>1, <5>2
      <4> QED
        BY <4>1, <4>2
    <3>3. x \in rows => \E i \in 1 .. m : R[i] = x
      BY <1>7
    <3> QED
      BY <3>1, <3>2, <3>3
  <2>12. /\ Cardinality(K) = m - a + 1
         /\ \A k \in 1 .. Cardinality(K) : InOrder(K)[k] = R[a - 1 + k]
    <3>1. a \in 1 .. Cardinality(rows) /\ \A x : x \in K <=> x \in rows /\ x >= InOrder(rows)[a]
      BY <2>11 DEF m, R
    <3>2. /\ Cardinality(K) = Cardinality(rows) - a + 1
          /\ \A k \in 1 .. Cardinality(K) : InOrder(K)[k] = InOrder(rows)[a - 1 + k]
      BY <3>1, <1>3, InOrderFrom
    <3> QED
      BY <3>2 DEF m, R
  <2>13. LeftFrom(t, s, a, b)
    <3> DEFINE c == Cardinality(K)
    <3>1. Len(t) = c /\ c = m - a + 1 /\ Len(s) = m
      BY <2>12, <1>7, <1>13
    <3>2. \A k \in 1 .. c : t[k] = sent(R[a - 1 + k])
      BY <2>12, <1>13
    <3> HIDE DEF c
    <3>3. 1 \in 1 .. c /\ a - 1 + 1 = a /\ \A j \in 2 .. c : j \in 1 .. c /\ a - 1 + j \in 1 .. m /\ a - 1 + j > a
      <4>1. m \in Nat /\ a \in 1 .. m /\ c = m - a + 1
        BY <3>1, <1>7
      <4> QED
        BY <4>1
    <3>4. t[1] = SubSeq(s[a], b, Len(s[a]))
      <4>1. t[1] = sent(R[a])
        BY <3>2, <3>3
      <4>2. sent(R[a]) = SubSeq(s[a], Len(s[a]) - Len(sent(R[a])) + 1, Len(s[a]))
        BY <1>11
      <4> QED
        BY <4>1, <4>2, <2>8
    <3>5. \A j \in 2 .. c : t[j] = s[a - 1 + j]
      BY <3>2, <3>3, <2>9
    <3> QED
      BY <3>1, <3>4, <3>5 DEF LeftFrom
  <2>14. FlattenSeq(t) = SubSeq(FlattenSeq(s), off[a - 1] + b, Len(FlattenSeq(s)))
    <3>0. Len(s) = m
      BY <1>7
    <3>1. s \in Seq(Seq(Bytes)) /\ Offsets(s, off) /\ a \in 1 .. Len(s) /\ b \in 1 .. Len(s[a]) /\ t \in Seq(Seq(Bytes))
      BY <3>0, <1>7, <1>8, <1>13
    <3> QED
      BY <3>1, <2>13, FlattenFrom
  <2> QED
    BY <1>1, <1>2, <2>2, <2>4, <2>14 DEF T
<1> QED
  BY <1>14, <1>15

-----------------------------------------------------------------------------
(* What a read with --tail promises *)

\* Rows are only added, and each holds what a capture task has read.
THEOREM LogTyped == Spec => []LogTypeOK
<1>1. Init => LogTypeOK
  BY OutputAssumption, EmptySeq DEF Init, LogTypeOK
<1>2. LogTypeOK /\ [Capture]_log => LogTypeOK'
  BY Inserted DEF Capture, LogTypeOK
<1> QED
  BY <1>1, <1>2, PTL DEF Spec

\* The cursor of a tail read is behind every row the query selected, even
\* when the tail was empty or the boundary chunk was trimmed away.
THEOREM CursorExact == Spec => []CursorIsExact
<1>1. LogTypeOK => CursorIsExact
  <2> SUFFICES ASSUME LogTypeOK, NEW q \in Asked, NEW n \in Tails
               PROVE  /\ Selected(q, ReadOutput(q, 0, n).resume) = {}
                      /\ ReadOutput(q, 0, n).resume <= Len(log)
    BY DEF CursorIsExact
  <2>1. log \in Seq(Chunks) /\ 0 <= Len(log) /\ n \in Nat
    BY Stored, TailAssumption DEF LogTypeOK
  <2> QED
    BY <2>1, ReadsAll
<1> QED
  BY LogTyped, <1>1, PTL

\* A read with --tail n sends exactly the last n lines of what the query
\* selects, however the output was cut into chunks (seek_tail, which counts
\* lines backwards, and trim_leading_lines on the boundary chunk).
THEOREM TailLines == Spec => []TailIsLastLines
<1>1. LogTypeOK => TailIsLastLines
  <2> SUFFICES ASSUME LogTypeOK, NEW q \in Asked, NEW n \in Tails
               PROVE  Text(ReadOutput(q, 0, n).chunks) = LastLines(TextOf(q), n)
    BY DEF TailIsLastLines
  <2>1. log \in Seq(Chunks) /\ n \in Nat /\ n # Null
    BY OutputAssumption, TailAssumption DEF LogTypeOK
  <2> QED
    BY <2>1, TailText
<1> QED
  BY LogTyped, <1>1, PTL
===============================================================================
