------------------------- MODULE ArrayAccessProofs -------------------------
(***************************************************************************)
(* Proofs about StartUp and ArrayAccess: the arrays keep their form        *)
(* whatever file is loaded and hold what a well-formed one declares, and   *)
(* every frame the board sends is current.                                 *)
(***************************************************************************)
EXTENDS ArrayAccess, FiniteSetTheorems, SequenceTheorems, TLAPS

-----------------------------------------------------------------------------
(* What main loads *)

LEMMA Constants ==
  /\ Base \in Nat /\ Base >= 2 /\ 0 \in Bytes
  /\ \A r \in Rows : RowLen[r] \in Nat /\ RowLen[r] >= 1
  /\ \A r \in {A1, A1 + 1, A2 + 1, A3, A3 + 1} : r \in Rows
  /\ RowLen[A1] >= 3
<1>1. Base \in Nat /\ Base >= 2
  BY StartAssumption
<1>2. 0 \in Bytes
  BY <1>1 DEF Bytes
<1>3. \A r \in Rows : RowLen[r] \in Nat \ {0}
  BY StartAssumption
<1>4. \A r \in Rows : RowLen[r] \in Nat /\ RowLen[r] >= 1
  BY <1>3
<1>5. \A r \in {A1, A1 + 1, A2 + 1, A3, A3 + 1} : r \in Rows
  BY DEF Rows, A1, A2, A3
<1>6. RowLen[A1] >= 3
  BY StartAssumption
<1> QED BY <1>1, <1>2, <1>4, <1>5, <1>6

(* Induction over the natural numbers, for a set in the place of a formula: *)
(* if n were missing from T, adding one would take the members of T up to n *)
(* one to one to those of them that are not 0.                              *)
LEMMA Induction ==
  ASSUME NEW T, 0 \in T, \A n \in Nat : n \in T => n + 1 \in T
  PROVE  Nat \subseteq T
<1> SUFFICES ASSUME NEW n \in Nat, n \notin T PROVE FALSE
  OBVIOUS
<1> DEFINE S == T \cap (0..n)
           next == [k \in S |-> k + 1]
<1>1. IsFiniteSet(S) /\ 0 \in S
  <2>1. IsFiniteSet(0..n)
    BY FS_Interval
  <2> QED BY <2>1, FS_Subset
<1>2. /\ IsFiniteSet(S \ {0}) /\ Cardinality(S \ {0}) = Cardinality(S) - 1
      /\ Cardinality(S) \in Nat
  BY <1>1, FS_RemoveElement, FS_CardinalityType
<1>3. next \in [S -> S \ {0}]
  OBVIOUS
<1>4. \E x, y \in S : x # y /\ next[x] = next[y]
  <2> HIDE DEF next, S
  <2>1. Cardinality(S \ {0}) < Cardinality(S)
    BY <1>2
  <2> QED BY <1>1, <1>2, <1>3, <2>1, FS_PigeonHole
<1> QED BY <1>4

(* A non-empty set of natural numbers has a least member. *)
LEMMA LeastMember ==
  ASSUME NEW S, S \subseteq Nat, S # {}
  PROVE  \E i \in S : \A j \in S : i <= j
<1> SUFFICES ASSUME \A i \in S : \E j \in S : ~(i <= j) PROVE FALSE
  OBVIOUS
<1> DEFINE T == {n \in Nat : \A i \in S : n <= i}
<1>1. 0 \in T
  OBVIOUS
<1>2. ASSUME NEW n \in Nat, n \in T PROVE n + 1 \in T
  <2>1. \A i \in S : i \in Nat /\ n <= i
    BY <1>2
  <2>2. n \notin S
    BY <2>1
  <2>3. \A i \in S : n + 1 <= i
    BY <2>1, <2>2
  <2> QED BY <2>3
<1>3. Nat \subseteq T
  <2> HIDE DEF T
  <2> QED BY <1>1, <1>2, Induction
<1>4. PICK i \in S : i \in Nat
  OBVIOUS
<1>5. i + 1 \in T
  BY <1>3, <1>4
<1> QED BY <1>4, <1>5

(* A walk of N steps, each of which makes its value from the one before. *)
Walk(u, N, V, base, step) ==
  /\ u \in [0..N -> V]
  /\ u[0] = base
  /\ \A n \in 1..N : u[n] = step[<<n, u[n - 1]>>]

LEMMA WalkExists ==
  ASSUME NEW N \in Nat, NEW V, NEW base \in V, NEW step \in [(1..N) \X V -> V]
  PROVE  \E u : Walk(u, N, V, base, step)
<1> DEFINE Partial(u, n) == /\ u \in [0..n -> V]
                            /\ u[0] = base
                            /\ \A k \in 1..n : u[k] = step[<<k, u[k - 1]>>]
           T == {n \in Nat : n <= N => \E u : Partial(u, n)}
<1>1. 0 \in T
  <2>1. Partial([k \in 0..0 |-> base], 0)
    OBVIOUS
  <2> QED BY <2>1
<1>2. ASSUME NEW n \in Nat, n \in T PROVE n + 1 \in T
  <2> SUFFICES ASSUME n + 1 <= N PROVE \E u : Partial(u, n + 1)
    OBVIOUS
  <2>1. PICK u : Partial(u, n)
    BY <1>2
  <2> DEFINE w == [k \in 0..(n + 1) |-> IF k = n + 1 THEN step[<<n + 1, u[n]>>] ELSE u[k]]
  <2>2. u[n] \in V /\ n + 1 \in 1..N
    BY <2>1
  <2>3. step[<<n + 1, u[n]>>] \in V
    <3>1. <<n + 1, u[n]>> \in (1..N) \X V
      BY <2>2
    <3> QED BY <3>1
  <2>4. w \in [0..(n + 1) -> V]
    <3> SUFFICES ASSUME NEW k \in 0..(n + 1) PROVE w[k] \in V
      OBVIOUS
    <3>1. CASE k = n + 1
      BY <2>3, <3>1
    <3>2. CASE k # n + 1
      <4>1. k \in 0..n
        BY <3>2
      <4> QED BY <2>1, <3>2, <4>1
    <3> QED BY <3>1, <3>2
  <2>5. w[0] = base
    BY <2>1
  <2>6. ASSUME NEW k \in 1..(n + 1) PROVE w[k] = step[<<k, w[k - 1]>>]
    <3>1. k - 1 \in 0..(n + 1) /\ k - 1 # n + 1 /\ w[k - 1] = u[k - 1]
      OBVIOUS
    <3>2. CASE k = n + 1
      BY <3>1, <3>2
    <3>3. CASE k # n + 1
      <4>1. k \in 1..n /\ w[k] = u[k]
        BY <3>3
      <4> QED BY <2>1, <3>1, <4>1
    <3> QED BY <3>2, <3>3
  <2>7. Partial(w, n + 1)
    <3> HIDE DEF w
    <3> QED BY <2>4, <2>5, <2>6
  <2> QED BY <2>7
<1>3. N \in T
  <2> HIDE DEF T
  <2> QED BY <1>1, <1>2, Induction
<1>4. PICK u : Partial(u, N)
  BY <1>3
<1> QED BY <1>4 DEF Walk

(* The lines of a file that are taken for rows, and what may be read so far. *)
RowLines(f) == {l \in {f[i] : i \in 1..Len(f)} \cup {Nothing} : IsRow(l)}
Progress(f) == [line : Nat, buf : Seq(RowLines(f))]

(* The reading of a file is a walk: main.c:160-203. *)
Reading(u, f) ==
  /\ u \in [0..Len(f) -> Progress(f)]
  /\ u[0] = [line |-> 0, buf |-> <<>>]
  /\ \A n \in 1..Len(f) : u[n] = ReadLine(u[n - 1], f[n])

LEMMA ReadLineType ==
  ASSUME NEW f \in Files, NEW n \in 1..Len(f), NEW s \in Progress(f)
  PROVE  ReadLine(s, f[n]) \in Progress(f)
<1> DEFINE l == f[n]
           S == RowLines(f)
           x == IF l.kind = "row" THEN l ELSE Nothing
           taken == IF s.line > 0 THEN [line |-> s.line - 1, buf |-> Append(s.buf, x)] ELSE s
<1>1. l = Blank \/ l \in {Head_(a) : a \in Heads} \/ IsRow(l)
  BY StartAssumption
<1>2. IsRow(Nothing)
  BY EmptySeq DEF IsRow, Nothing, Row
<1>3. x \in S
  <2>1. CASE l.kind = "row"
    <3>1. IsRow(l)
      BY <1>1, <2>1 DEF Blank, Head_
    <3> QED BY <2>1, <3>1 DEF RowLines
  <2>2. CASE l.kind # "row"
    BY <1>2, <2>2 DEF RowLines
  <2> QED BY <2>1, <2>2
<1>4. s.line \in Nat /\ s.buf \in Seq(S) /\ s = [line |-> s.line, buf |-> s.buf]
  BY DEF Progress
<1>5. Append(s.buf, x) \in Seq(S)
  BY <1>3, <1>4, AppendProperties
<1>6. taken \in [line : Nat, buf : Seq(S)]
  <2> HIDE DEF S, x
  <2>1. CASE s.line > 0
    <3>1. s.line - 1 \in Nat
      BY <1>4, <2>1
    <3> QED BY <1>5, <2>1, <3>1
  <2>2. CASE ~(s.line > 0)
    BY <1>4, <2>2
  <2> QED BY <2>1, <2>2
<1>7. \A k \in Nat : [taken EXCEPT !.line = k] \in [line : Nat, buf : Seq(S)]
  <2> HIDE DEF taken, S
  <2> QED BY <1>6
<1>8. Lines(l.arr) \in Nat
  BY DEF Lines
<1>9. ReadLine(s, l) = IF l.kind = "blank" THEN s
                       ELSE IF l.kind = "head" THEN [taken EXCEPT !.line = Lines(l.arr)] ELSE taken
  BY DEF ReadLine
<1> HIDE DEF taken, S, x, l
<1> QED BY <1>6, <1>7, <1>8, <1>9 DEF Progress, S, l

LEMMA BufIsWalk ==
  ASSUME unread \in Files
  PROVE  \E u : Reading(u, unread) /\ Buf = u[Len(unread)].buf
<1> DEFINE N == Len(unread)
           V == Progress(unread)
           base == [line |-> 0, buf |-> <<>>]
           step == [p \in (1..N) \X V |-> ReadLine(p[2], unread[p[1]])]
           Rec(u) == u = [n \in 0..N |-> IF n = 0 THEN base ELSE ReadLine(u[n - 1], unread[n])]
<1>1. N \in Nat
  BY StartAssumption
<1>2. base \in V
  BY EmptySeq DEF Progress
<1>3. step \in [(1..N) \X V -> V]
  BY ReadLineType
<1>4. PICK v : Walk(v, N, V, base, step)
  <2> HIDE DEF step, N, V, base
  <2> QED BY <1>1, <1>2, <1>3, WalkExists
<1>5. \A n \in 1..N : v[n] = ReadLine(v[n - 1], unread[n])
  <2> SUFFICES ASSUME NEW n \in 1..N PROVE v[n] = ReadLine(v[n - 1], unread[n])
    OBVIOUS
  <2>1. n - 1 \in 0..N
    BY <1>1
  <2>2. v[n] = step[<<n, v[n - 1]>>] /\ v[n - 1] \in V
    <3> HIDE DEF step, N, V, base
    <3> QED BY <1>4, <2>1 DEF Walk
  <2>3. <<n, v[n - 1]>> \in (1..N) \X V
    BY <2>2
  <2> HIDE DEF V, N
  <2> QED BY <2>2, <2>3
<1>6. Rec(v)
  <2>1. v \in [0..N -> V] /\ v[0] = base
    <3> HIDE DEF step, N, V, base
    <3> QED BY <1>4 DEF Walk
  <2> DEFINE w == [n \in 0..N |-> IF n = 0 THEN base ELSE ReadLine(v[n - 1], unread[n])]
  <2>2. ASSUME NEW n \in 0..N PROVE v[n] = w[n]
    <3>1. CASE n = 0
      BY <2>1, <3>1
    <3>2. CASE n # 0
      <4>1. n \in 1..N
        BY <1>1, <3>2
      <4> QED BY <1>5, <3>2, <4>1
    <3> QED BY <3>1, <3>2
  <2>3. v = w
    <3>1. w = [n \in 0..N |-> w[n]] /\ v = [n \in 0..N |-> v[n]]
      <4> HIDE DEF V
      <4> QED BY <2>1
    <3> HIDE DEF w
    <3> QED BY <2>2, <3>1
  <2> QED BY <2>3
<1> DEFINE u == CHOOSE x : Rec(x)
<1>7. Rec(u)
  <2> HIDE DEF Rec
  <2> QED BY <1>6
<1>8. Buf = u[N].buf
  BY DEF Buf
<1> HIDE DEF u
<1>9. u[0] = base /\ \A n \in 1..N : u[n] = ReadLine(u[n - 1], unread[n])
  <2>1. \A n \in 0..N : u[n] = IF n = 0 THEN base ELSE ReadLine(u[n - 1], unread[n])
    BY <1>7, Zenon
  <2>2. 0 \in 0..N /\ \A n \in 1..N : n \in 0..N /\ n # 0
    BY <1>1
  <2> HIDE DEF N, base
  <2> QED BY <2>1, <2>2, Zenon
<1>10. \A n \in 0..N : u[n] = v[n]
  <2> DEFINE T == {n \in Nat : n <= N => u[n] = v[n]}
  <2>1. 0 \in T
    <3>1. v[0] = base
      <4> HIDE DEF step, N, V, base
      <4> QED BY <1>4 DEF Walk
    <3> QED BY <1>9, <3>1
  <2>2. ASSUME NEW n \in Nat, n \in T PROVE n + 1 \in T
    <3> SUFFICES ASSUME n + 1 <= N PROVE u[n + 1] = v[n + 1]
      OBVIOUS
    <3>1. u[n] = v[n] /\ n + 1 \in 1..N /\ (n + 1) - 1 = n
      BY <1>1, <2>2
    <3> QED BY <1>5, <1>9, <3>1
  <2>3. Nat \subseteq T
    <3> HIDE DEF T
    <3> QED BY <2>1, <2>2, Induction
  <2> QED BY <1>1, <2>3
<1>11. u \in [0..N -> V]
  <2>1. v \in [0..N -> V]
    <3> HIDE DEF step, N, V, base
    <3> QED BY <1>4 DEF Walk
  <2>2. u = [n \in 0..N |-> u[n]]
    <3>1. DOMAIN u = 0..N /\ u = [n \in DOMAIN u |-> u[n]]
      BY <1>7
    <3> QED BY <3>1
  <2> HIDE DEF V
  <2> QED BY <1>10, <2>1, <2>2
<1> QED BY <1>8, <1>9, <1>11 DEF Reading

-----------------------------------------------------------------------------
(* How a well-formed file is read *)

LEMMA PlaceIs ==
  ASSUME NEW f \in Files
  PROVE  /\ Place(f, 0) = 0
         /\ \A n \in 0..Len(f) : Place(f, n) \in Nat
         /\ \A n \in 1..Len(f) : Place(f, n) = Place(f, n - 1) + IF f[n] = Blank THEN 0 ELSE 1
<1> DEFINE S(n) == {j \in 1..n : f[j] # Blank}
<1>1. ASSUME NEW n \in Int PROVE IsFiniteSet(S(n)) /\ Cardinality(S(n)) \in Nat
  <2>1. IsFiniteSet(1..n)
    BY FS_Interval
  <2>2. IsFiniteSet(S(n))
    BY <2>1, FS_Subset
  <2> QED BY <2>2, FS_CardinalityType
<1>2. Cardinality(S(0)) = 0
  <2>1. S(0) = {}
    OBVIOUS
  <2> QED BY <2>1, FS_EmptySet
<1>3. Len(f) \in Nat
  BY StartAssumption
<1>4. ASSUME NEW n \in 1..Len(f)
      PROVE  Cardinality(S(n)) = Cardinality(S(n - 1)) + IF f[n] = Blank THEN 0 ELSE 1
  <2>1. n \in Int /\ n - 1 \in Int /\ 1..n = (1..(n - 1)) \cup {n} /\ n \notin 1..(n - 1)
    BY <1>3
  <2>2. CASE f[n] = Blank
    <3>1. S(n) = S(n - 1)
      BY <2>1, <2>2
    <3> HIDE DEF S
    <3>2. Cardinality(S(n - 1)) \in Nat
      BY <1>1, <2>1
    <3> QED BY <2>2, <3>1, <3>2
  <2>3. CASE f[n] # Blank
    <3>1. S(n) = S(n - 1) \cup {n} /\ n \notin S(n - 1)
      BY <2>1, <2>3
    <3> HIDE DEF S
    <3>2. Cardinality(S(n - 1) \cup {n}) = Cardinality(S(n - 1)) + 1
      BY <1>1, <2>1, <3>1, FS_AddElement
    <3> QED BY <2>3, <3>1, <3>2
  <2> QED BY <2>2, <2>3
<1>5. \A n \in Int : Place(f, n) = Cardinality(S(n))
  BY DEF Place
<1> HIDE DEF S
<1>6. \A n \in 0..Len(f) : n \in Int /\ n - 1 \in Int
  BY <1>3
<1> QED BY <1>1, <1>2, <1>3, <1>4, <1>5, <1>6

LEMMA PlacesRise ==
  ASSUME NEW f \in Files, NEW i \in 0..Len(f), NEW j \in i..Len(f)
  PROVE  /\ Place(f, i) <= Place(f, j)
         /\ i # j /\ f[j] # Blank => Place(f, i) < Place(f, j)
<1>1. Len(f) \in Nat
  BY StartAssumption
<1> DEFINE T == {n \in Nat : i + n <= Len(f) => Place(f, i) <= Place(f, i + n)}
<1>2. 0 \in T
  <2>1. Place(f, i) \in Nat /\ i + 0 = i
    BY <1>1, PlaceIs
  <2> QED BY <2>1
<1>3. ASSUME NEW n \in Nat, n \in T PROVE n + 1 \in T
  <2> SUFFICES ASSUME i + (n + 1) <= Len(f) PROVE Place(f, i) <= Place(f, i + (n + 1))
    OBVIOUS
  <2> DEFINE m == i + (n + 1)
  <2>0. i \in Nat
    BY <1>1
  <2>1. m \in 1..Len(f) /\ m - 1 = i + n /\ i + n \in 0..Len(f) /\ i + n <= Len(f)
    BY <1>1, <2>0
  <2> HIDE DEF m
  <2>2. Place(f, m) = Place(f, m - 1) + IF f[m] = Blank THEN 0 ELSE 1
    BY <2>1, PlaceIs
  <2>3. Place(f, i) \in Nat /\ Place(f, i + n) \in Nat /\ Place(f, m) \in Nat
    BY <1>1, <2>1, PlaceIs
  <2>4. Place(f, i) <= Place(f, i + n)
    BY <1>3, <2>1
  <2>5. Place(f, i) <= Place(f, m)
    BY <2>1, <2>2, <2>3, <2>4
  <2> QED BY <2>5 DEF m
<1>4. ASSUME NEW m \in i..Len(f) PROVE Place(f, i) <= Place(f, m)
  <2>1. m - i \in Nat /\ i + (m - i) = m /\ m <= Len(f)
    BY <1>1
  <2>2. m - i \in T
    <3> HIDE DEF T
    <3> QED BY <1>2, <1>3, <2>1, Induction
  <2> QED BY <2>1, <2>2
<1>5. ASSUME i # j, f[j] # Blank PROVE Place(f, i) < Place(f, j)
  <2>1. j \in 1..Len(f) /\ j - 1 \in i..Len(f) /\ j - 1 \in 0..Len(f)
    BY <1>1, <1>5
  <2>2. Place(f, j) = Place(f, j - 1) + 1
    BY <1>5, <2>1, PlaceIs
  <2>3. Place(f, i) <= Place(f, j - 1) /\ Place(f, i) \in Nat /\ Place(f, j - 1) \in Nat
    BY <1>1, <1>4, <2>1, PlaceIs
  <2> QED BY <2>2, <2>3
<1> QED BY <1>4, <1>5

LEMMA NthIs ==
  ASSUME NEW f \in Files, NEW i \in 1..Len(f), f[i] # Blank
  PROVE  Nth(f, Place(f, i)) = f[i]
<1>1. Len(f) \in Nat /\ DOMAIN f = 1..Len(f)
  BY StartAssumption
<1> DEFINE Is(n) == n \in DOMAIN f /\ f[n] # Blank /\ Place(f, n) = Place(f, i)
<1>2. Is(i)
  BY <1>1
<1>3. ASSUME NEW n, Is(n) PROVE n = i
  <2>1. n \in 1..Len(f)
    BY <1>1, <1>3
  <2>2. Place(f, n) \in Nat /\ Place(f, i) \in Nat
    BY <1>1, <2>1, PlaceIs
  <2>3. CASE n < i
    <3>1. i \in n..Len(f) /\ n \in 0..Len(f)
      BY <1>1, <2>1, <2>3
    <3>2. Place(f, n) < Place(f, i)
      BY <2>1, <2>3, <3>1, PlacesRise
    <3> QED BY <1>3, <2>2, <3>2
  <2>4. CASE i < n
    <3>1. n \in i..Len(f) /\ i \in 0..Len(f)
      BY <1>1, <2>1, <2>4
    <3>2. Place(f, i) < Place(f, n)
      BY <1>3, <2>1, <2>4, <3>1, PlacesRise
    <3> QED BY <1>3, <2>2, <3>2
  <2> QED BY <2>1, <2>3, <2>4
<1>4. (CHOOSE n \in DOMAIN f : f[n] # Blank /\ Place(f, n) = Place(f, i)) = i
  BY <1>2, <1>3
<1> QED BY <1>4 DEF Nth

(* Lines of a section still to come, and rows read, behind line k of the    *)
(* sample.                                                                  *)
LeftAt(k) == IF k = 0 THEN 0 ELSE <<1, 0, 1, 0, 2, 1, 0, 2, 1, 0, 1, 0, 1, 0>>[k]
HadAt(k) == IF k = 0 THEN 0 ELSE <<0, 1, 1, 2, 2, 3, 4, 4, 5, 6, 6, 7, 7, 8>>[k]
IsHeadLine(k, a) ==
  k + 1 = RowPlace[a] - 1 /\ LeftAt(k) = 0 /\ LeftAt(k + 1) = Lines(a) /\ HadAt(k + 1) = HadAt(k)
IsRowLine(k, r) ==
  k + 1 = RowPlace[r] /\ r = HadAt(k + 1) /\ r - 1 = HadAt(k) /\ LeftAt(k) > 0 /\ LeftAt(k + 1) = LeftAt(k) - 1

LEMMA SampleLine ==
  ASSUME NEW k \in 0..13
  PROVE  (\E a \in Heads : IsHeadLine(k, a)) \/ (\E r \in Rows : IsRowLine(k, r))
<1>1. /\ IsHeadLine(0, A0) /\ IsHeadLine(2, A1) /\ IsHeadLine(4, A2) /\ IsHeadLine(7, A3)
      /\ IsHeadLine(10, A4) /\ IsHeadLine(12, A5)
  BY DEF IsHeadLine, LeftAt, HadAt, RowPlace, Lines, A0, A1, A2, A3, A4, A5
<1>2. /\ IsRowLine(1, 1) /\ IsRowLine(3, 2) /\ IsRowLine(5, 3) /\ IsRowLine(6, 4)
      /\ IsRowLine(8, 5) /\ IsRowLine(9, 6) /\ IsRowLine(11, 7) /\ IsRowLine(13, 8)
  BY DEF IsRowLine, LeftAt, HadAt, RowPlace
<1>3. {A0, A1, A2, A3, A4, A5} \subseteq Heads /\ \A r \in 1..8 : r \in Rows
  BY DEF Heads, Rows
<1>4. k \in {0, 2, 4, 7, 10, 12} \cup {1, 3, 5, 6, 8, 9, 11, 13}
  OBVIOUS
<1> QED BY <1>1, <1>2, <1>3, <1>4

(* What has been read behind line k of the sample. *)
ReadTo(s, f, k) ==
  /\ s.line = LeftAt(k)
  /\ Len(s.buf) = HadAt(k) /\ \A r \in 1..HadAt(k) : s.buf[r] = RowLine(f, r)

LEMMA LineRead ==
  ASSUME NEW f \in Files, WellFormed(f), NEW n \in 1..Len(f), NEW s \in Progress(f),
         ReadTo(s, f, Place(f, n - 1))
  PROVE  ReadTo(ReadLine(s, f[n]), f, Place(f, n))
<1> DEFINE k == Place(f, n - 1)
           l == f[n]
<1>1. Len(f) \in Nat /\ n - 1 \in 0..Len(f) /\ n \in 0..Len(f) /\ Len(f) \in n..Len(f)
  BY StartAssumption
<1>2. k \in Nat /\ Place(f, n) \in Nat /\ Place(f, n) = k + IF l = Blank THEN 0 ELSE 1
  BY <1>1, PlaceIs
<1>3. CASE l = Blank
  <2>1. ReadLine(s, l) = s
    BY <1>3 DEF ReadLine, Blank
  <2>2. Place(f, n) = k
    BY <1>2, <1>3
  <2> QED BY <2>1, <2>2
<1>4. CASE l # Blank
  <2>1. Place(f, n) = k + 1
    BY <1>2, <1>4
  <2>2. Place(f, n) <= 14
    BY <1>1, PlacesRise DEF WellFormed
  <2>3. k \in 0..13
    <3> HIDE DEF k
    <3> QED BY <1>2, <2>1, <2>2
  <2>4. l = Nth(f, k + 1)
    BY <1>4, <2>1, NthIs
  <2>5. /\ s = [line |-> s.line, buf |-> s.buf] /\ s.line \in Nat /\ s.buf \in Seq(RowLines(f))
        /\ Len(s.buf) \in Nat
    BY LenProperties DEF Progress
  <2>6. /\ s.line = LeftAt(k) /\ Len(s.buf) = HadAt(k)
        /\ \A r \in 1..HadAt(k) : s.buf[r] = RowLine(f, r)
    BY DEF ReadTo
  <2> HIDE DEF k, l
  <2>7. CASE \E a \in Heads : IsHeadLine(k, a)
    <3>1. PICK a \in Heads : IsHeadLine(k, a)
      BY <2>7
    <3>2. l = Head_(a)
      BY <2>4, <3>1 DEF IsHeadLine, WellFormed
    <3>3. ReadLine(s, l) = [line |-> Lines(a), buf |-> s.buf]
      <4>1. l.kind = "head" /\ l.arr = a /\ ~(s.line > 0)
        BY <2>6, <3>1, <3>2 DEF Head_, IsHeadLine
      <4>2. ReadLine(s, l) = [s EXCEPT !.line = Lines(a)]
        BY <4>1 DEF ReadLine
      <4> QED BY <2>5, <4>2
    <3>4. ReadTo(ReadLine(s, l), f, k + 1)
      BY <2>6, <3>1, <3>3 DEF ReadTo, IsHeadLine
    <3> QED BY <2>1, <3>4 DEF l
  <2>8. CASE \E r \in Rows : IsRowLine(k, r)
    <3>1. PICK r \in Rows : IsRowLine(k, r)
      BY <2>8
    <3>2. l = RowLine(f, r) /\ IsRow(l)
      BY <2>4, <3>1 DEF IsRowLine, WellFormed, RowLine
    <3>3. ReadLine(s, l) = [line |-> s.line - 1, buf |-> Append(s.buf, l)]
      <4>1. l.kind = "row" /\ s.line > 0
        BY <2>6, <3>1, <3>2 DEF IsRow, IsRowLine
      <4> QED BY <4>1 DEF ReadLine
    <3>4. l \in RowLines(f)
      BY <1>1, <3>2 DEF RowLines, l
    <3>5. /\ Len(Append(s.buf, l)) = Len(s.buf) + 1
          /\ \A q \in 1..Len(s.buf) : Append(s.buf, l)[q] = s.buf[q]
          /\ Append(s.buf, l)[Len(s.buf) + 1] = l
      BY <2>5, <3>4, AppendProperties
    <3>6. r = HadAt(k + 1) /\ r - 1 = HadAt(k) /\ r \in Int /\ LeftAt(k + 1) = LeftAt(k) - 1
      BY <3>1 DEF IsRowLine, Rows
    <3>7. \A q \in 1..r : q = r \/ q \in 1..(r - 1)
      BY <3>6
    <3>8. \A q \in 1..r : Append(s.buf, l)[q] = RowLine(f, q)
      <4>1. Len(s.buf) = r - 1 /\ (r - 1) + 1 = r
        BY <2>6, <3>6
      <4> QED BY <2>6, <3>2, <3>5, <3>6, <3>7, <4>1
    <3>9. Len(Append(s.buf, l)) = r
      BY <2>6, <3>5, <3>6
    <3>10. ReadTo(ReadLine(s, l), f, k + 1)
      BY <2>6, <3>3, <3>6, <3>8, <3>9 DEF ReadTo
    <3> QED BY <2>1, <3>10 DEF l
  <2> QED BY <2>3, <2>7, <2>8, SampleLine
<1> QED BY <1>3, <1>4

(* The eight rows of a well-formed file end up in buf. *)
LEMMA BufIs ==
  ASSUME unread \in Files, WellFormed(unread)
  PROVE  Len(Buf) = 8 /\ \A r \in Rows : Buf[r] = RowLine(unread, r)
<1> DEFINE f == unread
           N == Len(f)
<1>1. PICK u : Reading(u, f) /\ Buf = u[N].buf
  BY BufIsWalk
<1>2. N \in Nat
  BY StartAssumption
<1>3. /\ u \in [0..N -> Progress(f)] /\ u[0] = [line |-> 0, buf |-> <<>>]
      /\ \A n \in 1..N : u[n] = ReadLine(u[n - 1], f[n])
  BY <1>1 DEF Reading
<1> DEFINE T == {n \in Nat : n <= N => ReadTo(u[n], f, Place(f, n))}
<1>4. 0 \in T
  <2>1. Place(f, 0) = 0
    BY PlaceIs
  <2>2. ReadTo(u[0], f, 0)
    BY <1>3, EmptySeq DEF ReadTo, LeftAt, HadAt
  <2> QED BY <2>1, <2>2
<1>5. ASSUME NEW n \in Nat, n \in T PROVE n + 1 \in T
  <2> SUFFICES ASSUME n + 1 <= N PROVE ReadTo(u[n + 1], f, Place(f, n + 1))
    OBVIOUS
  <2>1. n + 1 \in 1..N /\ (n + 1) - 1 = n /\ n \in 0..N /\ n <= N
    BY <1>2
  <2>2. u[n] \in Progress(f) /\ u[n + 1] = ReadLine(u[n], f[n + 1])
    BY <1>3, <2>1
  <2>3. ReadTo(u[n], f, Place(f, (n + 1) - 1))
    BY <1>5, <2>1
  <2> HIDE DEF f, N
  <2>4. ReadTo(ReadLine(u[n], f[n + 1]), f, Place(f, n + 1))
    BY <2>1, <2>2, <2>3, LineRead DEF f, N
  <2> QED BY <2>2, <2>4
<1>6. N \in T
  <2> HIDE DEF T
  <2> QED BY <1>2, <1>4, <1>5, Induction
<1>7. ReadTo(u[N], f, 14)
  BY <1>2, <1>6 DEF WellFormed
<1>8. HadAt(14) = 8
  BY DEF HadAt
<1> QED BY <1>1, <1>7, <1>8 DEF ReadTo, Rows

-----------------------------------------------------------------------------
(* The layout of the rows in memory: main.c:78-83. *)

LEMMA OffsetIs ==
  /\ Offset[1] = 0
  /\ \A r \in Rows \ {1} : Offset[r] = Offset[r - 1] + RowLen[r - 1]
<1> DEFINE o2 == RowLen[1]
           o3 == o2 + RowLen[2]
           o4 == o3 + RowLen[3]
           o5 == o4 + RowLen[4]
           o6 == o5 + RowLen[5]
           o7 == o6 + RowLen[6]
           o8 == o7 + RowLen[7]
           v == [r \in Rows |-> IF r = 1 THEN 0 ELSE IF r = 2 THEN 0 + o2 ELSE IF r = 3 THEN o3
                                ELSE IF r = 4 THEN o4 ELSE IF r = 5 THEN o5 ELSE IF r = 6 THEN o6
                                ELSE IF r = 7 THEN o7 ELSE o8]
           w == [r \in Rows |-> IF r = 1 THEN 0 ELSE v[r - 1] + RowLen[r - 1]]
           Rec(u) == u = [r \in Rows |-> IF r = 1 THEN 0 ELSE u[r - 1] + RowLen[r - 1]]
<1>1. \A r \in Rows : v[r] = w[r]
  <2>1. \A r \in Rows : r \in {1, 2, 3, 4, 5, 6, 7, 8} /\ (r # 1 => r - 1 \in Rows)
    BY DEF Rows
  <2>2. \A r \in Rows : RowLen[r] \in Nat
    BY Constants
  <2>3. \A r \in {1, 2, 3, 4, 5, 6, 7, 8} : r \in Rows
    BY DEF Rows
  <2>4. /\ v[1] = 0 /\ v[2] = o2 /\ v[3] = o3 /\ v[4] = o4 /\ v[5] = o5 /\ v[6] = o6
        /\ v[7] = o7 /\ v[8] = o8
    BY <2>2, <2>3
  <2> HIDE DEF v
  <2>5. /\ w[1] = 0 /\ w[2] = v[1] + RowLen[1] /\ w[3] = v[2] + RowLen[2]
        /\ w[4] = v[3] + RowLen[3] /\ w[5] = v[4] + RowLen[4] /\ w[6] = v[5] + RowLen[5]
        /\ w[7] = v[6] + RowLen[6] /\ w[8] = v[7] + RowLen[7]
    BY <2>3
  <2>6. RowLen[1] \in Nat
    BY <2>2, <2>3
  <2> HIDE DEF w
  <2>7. \A r \in {1, 2, 3, 4, 5, 6, 7, 8} : v[r] = w[r]
    <3>1. v[1] = w[1] /\ v[2] = w[2] /\ v[3] = w[3] /\ v[4] = w[4]
      BY <2>4, <2>5, <2>6
    <3>2. v[5] = w[5] /\ v[6] = w[6] /\ v[7] = w[7] /\ v[8] = w[8]
      BY <2>4, <2>5, <2>6
    <3> QED BY <3>1, <3>2
  <2> QED BY <2>1, <2>7
<1>2. v = w
  <2>1. v = [r \in Rows |-> v[r]] /\ w = [r \in Rows |-> w[r]]
    OBVIOUS
  <2> HIDE DEF v, w
  <2> QED BY <1>1, <2>1
<1>3. Rec(v)
  BY <1>2
<1>4. Rec(CHOOSE u : Rec(u))
  <2> HIDE DEF Rec
  <2> QED BY <1>3
<1>5. Rec(Offset)
  BY <1>4 DEF Offset
<1>6. \A r \in Rows : Offset[r] = IF r = 1 THEN 0 ELSE Offset[r - 1] + RowLen[r - 1]
  BY <1>5, Zenon
<1>7. 1 \in Rows
  BY DEF Rows
<1> QED BY <1>6, <1>7

(* A row begins where the rows before it end. *)
LEMMA OffsetsRise ==
  /\ \A r \in Rows : Offset[r] \in Nat
  /\ \A q, r \in Rows : q < r => Offset[q] + RowLen[q] <= Offset[r]
<1>1. /\ Offset[1] = 0 /\ Offset[2] = Offset[1] + RowLen[1] /\ Offset[3] = Offset[2] + RowLen[2]
      /\ Offset[4] = Offset[3] + RowLen[3] /\ Offset[5] = Offset[4] + RowLen[4]
      /\ Offset[6] = Offset[5] + RowLen[5] /\ Offset[7] = Offset[6] + RowLen[6]
      /\ Offset[8] = Offset[7] + RowLen[7]
  <2>1. /\ {2, 3, 4, 5, 6, 7, 8} \subseteq Rows \ {1}
        /\ 2 - 1 = 1 /\ 3 - 1 = 2 /\ 4 - 1 = 3 /\ 5 - 1 = 4 /\ 6 - 1 = 5 /\ 7 - 1 = 6 /\ 8 - 1 = 7
    BY DEF Rows
  <2>2. \A r \in {2, 3, 4, 5, 6, 7, 8} : Offset[r] = Offset[r - 1] + RowLen[r - 1]
    BY <2>1, OffsetIs
  <2> QED BY <2>1, <2>2, OffsetIs
<1>2. \A r \in {1, 2, 3, 4, 5, 6, 7, 8} : RowLen[r] \in Nat
  BY Constants DEF Rows
<1>3. \A r \in Rows : r \in {1, 2, 3, 4, 5, 6, 7, 8}
  BY DEF Rows
<1>4. \A r \in {1, 2, 3, 4, 5, 6, 7, 8} : Offset[r] \in Nat
  BY <1>1, <1>2
<1>5. \A q, r \in {1, 2, 3, 4, 5, 6, 7, 8} : q < r => Offset[q] + RowLen[q] <= Offset[r]
  BY <1>1, <1>2, <1>4
<1> QED BY <1>3, <1>4, <1>5

(* A set of rows that is not empty has a last member. *)
LEMMA LastRow ==
  ASSUME NEW S \in SUBSET Rows, S # {}
  PROVE  Max(S) \in S /\ \A q \in S : q <= Max(S)
<1>1. \E r \in S : \A q \in S : r >= q
  <2> SUFFICES ASSUME \A r \in S : \E q \in S : ~(r >= q) PROVE FALSE
    OBVIOUS
  <2>1. \A q \in S : q \in {1, 2, 3, 4, 5, 6, 7, 8}
    BY DEF Rows
  <2>2. 8 \notin S
    BY <2>1
  <2>3. 7 \notin S
    BY <2>1, <2>2
  <2>4. 6 \notin S
    BY <2>1, <2>2, <2>3
  <2>5. 5 \notin S
    BY <2>1, <2>2, <2>3, <2>4
  <2>6. 4 \notin S
    BY <2>1, <2>2, <2>3, <2>4, <2>5
  <2>7. 3 \notin S
    BY <2>1, <2>2, <2>3, <2>4, <2>5, <2>6
  <2>8. 2 \notin S
    BY <2>1, <2>2, <2>3, <2>4, <2>5, <2>6, <2>7
  <2> QED BY <2>1, <2>2, <2>3, <2>4, <2>5, <2>6, <2>7, <2>8
<1>2. /\ Max(S) \in S
      /\ \A q \in S : Max(S) >= q
  BY <1>1 DEF Max
<1>3. \A q \in S : q \in Int
  BY DEF Rows
<1> QED BY <1>2, <1>3

LEMMA MinPair ==
  ASSUME NEW a \in Int, NEW b \in Int
  PROVE  Min({a, b}) = IF a <= b THEN a ELSE b
<1>1. \E x \in {a, b} : \A y \in {a, b} : x =< y
  OBVIOUS
<1>2. Min({a, b}) \in {a, b} /\ \A y \in {a, b} : Min({a, b}) =< y
  BY <1>1 DEF Min
<1> HIDE DEF Min
<1> QED BY <1>2

(* Rows of the lengths the arrays have. *)
IsArrays(g) == g = [r \in Rows |-> g[r]] /\ \A r \in Rows : g[r] \in [0..(RowLen[r] - 1) -> Bytes]

(* What fills the rows are bytes of the texts: main.c:213-239. *)
LEMMA FilledForm ==
  ASSUME NEW texts \in [Rows -> Seq(Bytes)]
  PROVE  IsArrays(Filled(texts))
<1> DEFINE at(r, i, q) == Offset[r] + i - Offset[q] + 1
           over(r, i) == {q \in 1..r : at(r, i, q) <= Len(texts[q])}
           byte(r, i) == IF over(r, i) = {} THEN 0
                         ELSE texts[Max(over(r, i))][at(r, i, Max(over(r, i)))]
           F == [r \in Rows |-> [i \in 0..(RowLen[r] - 1) |-> byte(r, i)]]
<1>1. Filled(texts) = F
  BY DEF Filled
<1>2. ASSUME NEW r \in Rows, NEW i \in 0..(RowLen[r] - 1)
      PROVE  byte(r, i) \in Bytes
  <2>1. CASE over(r, i) = {}
    BY <2>1, Constants
  <2>2. CASE over(r, i) # {}
    <3> DEFINE q == Max(over(r, i))
    <3>1. over(r, i) \in SUBSET Rows
      BY DEF Rows
    <3>2. q \in over(r, i)
      <4> HIDE DEF over
      <4> QED BY <2>2, <3>1, LastRow
    <3> HIDE DEF q
    <3>3. q \in 1..r /\ at(r, i, q) <= Len(texts[q]) /\ q \in Rows
      BY <3>1, <3>2
    <3>4. Offset[q] \in Nat /\ Offset[r] \in Nat /\ i \in Nat
      BY <3>3, OffsetsRise
    <3>5. Offset[q] <= Offset[r]
      <4>1. CASE q = r
        BY <3>4, <4>1
      <4>2. CASE q # r
        <5>1. q < r
          <6>1. q \in 1..r
            BY <3>3
          <6> QED BY <4>2, <6>1 DEF Rows
        <5>3. RowLen[q] \in Nat
          BY <3>3, Constants
        <5>2. Offset[q] + RowLen[q] <= Offset[r]
          BY <3>3, <5>1, OffsetsRise
        <5> QED BY <3>4, <5>2, <5>3
      <4> QED BY <4>1, <4>2
    <3>6. texts[q] \in Seq(Bytes) /\ Len(texts[q]) \in Nat
      BY <3>3, LenProperties
    <3>7. at(r, i, q) \in 1..Len(texts[q])
      BY <3>3, <3>4, <3>5, <3>6
    <3> HIDE DEF at
    <3>8. texts[q][at(r, i, q)] \in Bytes
      BY <3>6, <3>7, ElementOfSeq
    <3> QED BY <2>2, <3>8 DEF q
  <2> QED BY <2>1, <2>2
<1> HIDE DEF byte
<1>3. \A r \in Rows : F[r] \in [0..(RowLen[r] - 1) -> Bytes]
  BY <1>2
<1>4. F = [r \in Rows |-> F[r]]
  OBVIOUS
<1> HIDE DEF F
<1> QED BY <1>1, <1>3, <1>4 DEF IsArrays

LEMMA ConvertedType ==
  ASSUME NEW r \in Rows, NEW t, IsRow(t), NEW g \in Seq(Bytes)
  PROVE  Converted(r, t, g) \in Seq(Bytes)
<1>1. t.hex \in Seq(Bytes) /\ t.letters \in Seq(Bytes)
  BY DEF IsRow
<1>2. Len(t.hex) \in Nat
  BY <1>1, LenProperties
<1> DEFINE m == Min({3, Len(t.hex)})
           tail == IF Len(t.hex) <= 3 THEN t.letters ELSE g
<1>3. m \in Nat /\ m <= Len(t.hex)
  <2>1. m = IF 3 <= Len(t.hex) THEN 3 ELSE Len(t.hex)
    BY <1>2, MinPair
  <2> HIDE DEF m
  <2> QED BY <1>2, <2>1
<1> HIDE DEF m
<1>4. SubSeq(t.hex, 1, m) \in Seq(Bytes)
  <2>1. \A i \in 1..m : t.hex[i] \in Bytes
    <3>1. \A i \in 1..m : i \in 1..Len(t.hex)
      BY <1>2, <1>3
    <3> QED BY <1>1, <3>1, ElementOfSeq
  <2> QED BY <1>3, <2>1, SubSeqProperties
<1>5. tail \in Seq(Bytes)
  BY <1>1
<1>6. SubSeq(t.hex, 1, m) \o tail \in Seq(Bytes)
  <2> HIDE DEF tail
  <2> QED BY <1>4, <1>5, ConcatProperties
<1> QED BY <1>1, <1>6 DEF Converted, m

LEMMA LoadForm ==
  ASSUME unread \in Files, Load
  PROVE  IsArrays(g_ARR')
<1>1. PICK g \in Garbage :
        g_ARR' = Filled([r \in Rows |-> IF r <= Len(Buf) THEN Converted(r, Buf[r], g) ELSE g])
  BY DEF Load
<1> DEFINE texts == [r \in Rows |-> IF r <= Len(Buf) THEN Converted(r, Buf[r], g) ELSE g]
<1>2. g \in Seq(Bytes)
  BY StartAssumption
<1>3. Buf \in Seq(RowLines(unread))
  <2>1. PICK u : Reading(u, unread) /\ Buf = u[Len(unread)].buf
    BY BufIsWalk
  <2>2. Len(unread) \in 0..Len(unread)
    BY StartAssumption
  <2> QED BY <2>1, <2>2 DEF Reading, Progress
<1>4. ASSUME NEW r \in Rows, r <= Len(Buf) PROVE Converted(r, Buf[r], g) \in Seq(Bytes)
  <2>1. r \in 1..Len(Buf)
    BY <1>3, <1>4, LenProperties DEF Rows
  <2>2. IsRow(Buf[r])
    BY <1>3, <2>1, ElementOfSeq DEF RowLines
  <2> QED BY <1>2, <2>2, ConvertedType
<1>5. texts \in [Rows -> Seq(Bytes)]
  BY <1>2, <1>4
<1> HIDE DEF texts
<1> QED BY <1>1, <1>5, FilledForm DEF texts

(* A text that fits stays in its row, with zeros behind. *)
LEMMA FilledIs ==
  ASSUME NEW texts \in [Rows -> Seq(Bytes)], \A q \in Rows : Len(texts[q]) \in 1..RowLen[q],
         NEW r \in Rows, NEW i \in 0..(RowLen[r] - 1)
  PROVE  Filled(texts)[r][i] = IF i < Len(texts[r]) THEN texts[r][i + 1] ELSE 0
<1> DEFINE at(q) == Offset[r] + i - Offset[q] + 1
           over == {q \in 1..r : at(q) <= Len(texts[q])}
<1>1. \A q \in Rows : Offset[q] \in Nat /\ RowLen[q] \in Nat /\ Len(texts[q]) \in Nat
                      /\ Len(texts[q]) <= RowLen[q]
  BY OffsetsRise, Constants
<1>2. i \in Nat
  BY <1>1
<1>3. at(r) = i + 1
  <2>1. Offset[r] \in Nat
    BY <1>1
  <2> QED BY <1>2, <2>1
<1>4. ASSUME NEW q \in 1..r, q # r PROVE ~(at(q) <= Len(texts[q]))
  <2>1. q \in Rows /\ q < r
    BY <1>4 DEF Rows
  <2>2. Offset[q] + RowLen[q] <= Offset[r]
    BY <2>1, OffsetsRise
  <2>3. /\ Offset[q] \in Nat /\ Offset[r] \in Nat /\ RowLen[q] \in Nat
        /\ Len(texts[q]) \in Nat /\ Len(texts[q]) <= RowLen[q]
    BY <1>1, <2>1
  <2> QED BY <1>2, <2>2, <2>3
<1>5. r \in 1..r
  BY DEF Rows
<1>6. Filled(texts)[r][i] = IF over = {} THEN 0 ELSE texts[Max(over)][at(Max(over))]
  BY DEF Filled
<1>7. Len(texts[r]) \in Nat
  BY <1>1
<1> HIDE DEF at
<1>8. CASE i < Len(texts[r])
  <2>1. i + 1 <= Len(texts[r])
    BY <1>2, <1>7, <1>8
  <2>2. over = {r}
    BY <1>3, <1>4, <1>5, <2>1
  <2>3. Max(over) = r
    <3>1. over \in SUBSET Rows /\ over # {}
      BY <2>2
    <3> HIDE DEF over
    <3> QED BY <2>2, <3>1, LastRow
  <2> QED BY <1>3, <1>6, <1>8, <2>2, <2>3
<1>9. CASE ~(i < Len(texts[r]))
  <2>1. ~(i + 1 <= Len(texts[r]))
    BY <1>2, <1>7, <1>9
  <2>2. over = {}
    BY <1>3, <1>4, <2>1
  <2> QED BY <1>6, <1>9, <2>2
<1> QED BY <1>8, <1>9

LEMMA ConvertedIs ==
  ASSUME NEW r \in Rows, NEW t, IsRow(t), NEW g,
         IF r = A1 THEN Len(t.hex) = 3 ELSE t.letters = <<>>
  PROVE  Converted(r, t, g) = t.hex \o t.letters
<1>1. t.hex \in Seq(Bytes) /\ t.letters \in Seq(Bytes)
  BY DEF IsRow
<1>2. CASE r = A1
  <2>1. Len(t.hex) = 3
    BY <1>2
  <2>2. Min({3, 3}) = 3
    BY MinPair
  <2>3. SubSeq(t.hex, 1, 3) = t.hex
    BY <1>1, <2>1, SubSeqFull
  <2>4. Converted(r, t, g) = SubSeq(t.hex, 1, Min({3, Len(t.hex)})) \o t.letters
    BY <1>2, <2>1 DEF Converted
  <2> HIDE DEF Min
  <2> QED BY <2>1, <2>2, <2>3, <2>4
<1>3. CASE r # A1
  <2>1. t.letters = <<>>
    BY <1>3
  <2>2. t.hex \o t.letters = t.hex
    BY <1>1, <2>1, ConcatEmptySeq
  <2> QED BY <1>3, <2>1, <2>2 DEF Converted
<1> QED BY <1>2, <1>3

(* A well-formed file fills the arrays with what stands in it. *)
LEMMA LoadIs ==
  ASSUME unread \in Files, WellFormed(unread), Load, NEW r \in Rows
  PROVE  LET t == RowLine(unread, r).hex \o RowLine(unread, r).letters IN
         \A i \in DOMAIN g_ARR'[r] : g_ARR'[r][i] = IF i < Len(t) THEN t[i + 1] ELSE 0
<1> DEFINE row(q) == RowLine(unread, q)
           text == [q \in Rows |-> row(q).hex \o row(q).letters]
<1>1. PICK g \in Garbage :
        g_ARR' = Filled([q \in Rows |-> IF q <= Len(Buf) THEN Converted(q, Buf[q], g) ELSE g])
  BY DEF Load
<1>2. \A q \in Rows : /\ IsRow(row(q)) /\ Len(row(q).hex) + Len(row(q).letters) \in 1..RowLen[q]
                      /\ IF q = A1 THEN Len(row(q).hex) = 3 ELSE row(q).letters = <<>>
  BY DEF WellFormed
<1>3. ASSUME NEW q \in Rows
      PROVE  (IF q <= Len(Buf) THEN Converted(q, Buf[q], g) ELSE g) = text[q]
  <2>1. Len(Buf) = 8 /\ Buf[q] = row(q) /\ q <= 8
    BY BufIs DEF Rows
  <2>2. Converted(q, row(q), g) = row(q).hex \o row(q).letters
    <3> HIDE DEF row
    <3> QED BY <1>2, ConvertedIs
  <2> HIDE DEF row
  <2> QED BY <2>1, <2>2
<1>4. [q \in Rows |-> IF q <= Len(Buf) THEN Converted(q, Buf[q], g) ELSE g] = text
  <2>1. text = [q \in Rows |-> text[q]]
    OBVIOUS
  <2> HIDE DEF text
  <2> QED BY <1>3, <2>1
<1>5. ASSUME NEW q \in Rows PROVE text[q] \in Seq(Bytes) /\ Len(text[q]) \in 1..RowLen[q]
  <2> DEFINE a == row(q).hex
             b == row(q).letters
  <2>1. a \in Seq(Bytes) /\ b \in Seq(Bytes) /\ Len(a) + Len(b) \in 1..RowLen[q]
    BY <1>2 DEF IsRow
  <2>2. text[q] = a \o b
    OBVIOUS
  <2> HIDE DEF a, b, text
  <2> QED BY <2>1, <2>2, ConcatProperties
<1>6. text \in [Rows -> Seq(Bytes)]
  <2>1. text = [q \in Rows |-> text[q]]
    OBVIOUS
  <2> HIDE DEF text
  <2> QED BY <1>5, <2>1
<1> DEFINE t == text[r]
<1>7. t = RowLine(unread, r).hex \o RowLine(unread, r).letters
  OBVIOUS
<1> HIDE DEF text
<1>8. g_ARR' = Filled(text)
  BY <1>1, <1>4
<1>9. DOMAIN g_ARR'[r] = 0..(RowLen[r] - 1)
  BY <1>6, <1>8, FilledForm DEF IsArrays
<1>10. ASSUME NEW i \in 0..(RowLen[r] - 1)
       PROVE  g_ARR'[r][i] = IF i < Len(t) THEN t[i + 1] ELSE 0
  BY <1>5, <1>6, <1>8, FilledIs
<1> HIDE DEF t
<1> QED BY <1>7, <1>9, <1>10

-----------------------------------------------------------------------------
(* The inductive invariant *)

AllRequests ==
  {[op |-> "REQUEST"], [op |-> "INIT"]}
  \cup {[op |-> "WR", w |-> w] : w \in Writes} \cup {[op |-> "RD", arr |-> a] : a \in Reads}

HalfType ==
  /\ half \in Seq([i : 0..1, b : Bytes]) /\ Len(half) <= 2
  /\ \A k, m \in 1..Len(half) : k # m => half[k].i # half[m].i

(* The listener and the processor take turns, and who has a request has one *)
(* the server may send.                                                     *)
Turns ==
  /\ lpc \in {"arm", "select", "dispatch", "beat"}
  /\ ppc \in {"idle", "start", "mac", "write", "read"}
  /\ pending # NoRequest => pending \in AllRequests /\ ppc = "idle" /\ lpc # "dispatch"
  /\ lpc \in {"dispatch", "beat"} => ppc = "idle"
  /\ lpc = "dispatch" \/ ppc # "idle" => req \in AllRequests
  /\ ppc = "write" => req.op = "WR" /\ Accepted(req.w) /\ req.w.arr \notin {A4, A5}
                      /\ pos \in Nat /\ pos >= req.w.index
  /\ ppc = "read" => req.op = "RD" /\ pos \in Nat \ {0} /\ pos = Taken(req.arr, g_ARR)
  /\ ppc = "read" => resp = Frame("RD_ARR", req.arr, resp.mac, resp.b)
                     /\ resp.b \in Seq(Bytes) /\ Len(resp.b) <= Lines(req.arr) * pos
  /\ Len(resp.b) <= FRAME_DATA_LEN - 2

(* Only A4 and A5 are written by processors that wait for g_mutex. *)
Writers ==
  /\ \A x \in waiting : x.w \in Writes /\ Accepted(x.w) /\ x.w.arr \in {A4, A5}
  /\ locked \in BOOLEAN
  /\ locked => /\ lw \in Writes /\ Accepted(lw) /\ lw.arr \in {A4, A5}
               /\ lpos \in Nat /\ lpos >= lw.index

(* Nothing is received before main has announced the board. *)
Quiet ==
  /\ mainpc \in {"load", "can", "threads", "clear", "mac", "done", "dead"}
  /\ mainpc \in {"load", "can", "threads", "clear", "mac"} =>
       /\ pending = NoRequest /\ ppc = "idle" /\ lpc \in {"arm", "select"}
       /\ ~isSessionCreated /\ waiting = {} /\ ~locked
  /\ mainpc \in {"load", "can", "threads"} => lpc = "arm"
  /\ lpc = "beat" => isSessionCreated
  /\ isSessionCreated \in BOOLEAN
  /\ mainpc = "load" => unread \in Files

(* g_mac is missing only while a REQUEST is handled, or main starts. *)
MacKnown ==
  /\ g_mac \in {Mac, NoMac}
  /\ mainpc = "done" /\ ppc # "mac" => g_mac = Mac
  /\ ppc = "read" => resp.mac = Mac

FormInv ==
  /\ IsArrays(g_ARR) /\ IsArrays(latest)
  /\ HalfType /\ seconds \in MinSecs..MaxSecs /\ frames \in 0..MaxFrames
  /\ workers \in Seq([which : CANs, bus : 0..2]) /\ bound \in [CANs -> 0..2]

(* The name is that of A1: once loaded, nothing writes there. *)
NameOf(g) == Letters(g, 3, 3 + IDLen) \o Letters(g, 3 + IDLen, NameEnd(g))
NameLoaded == lpc \in {"select", "dispatch", "beat"} => name = NameOf(g_ARR)

(* A write has still to carry out the bytes from p on, and nothing else.    *)
ToWrite(on, w, p, r, i) == on /\ r = w.arr /\ i \in p..(w.wr_len - 1)
Ahead(r, i) ==
  ToWrite(ppc = "write", req.w, pos, r, i) \/ ToWrite(locked, lw, lpos, r, i)
Meant(g, w) == \A i \in 0..(RowLen[w.arr] - 1) : i < w.wr_len => g[w.arr][i] = w.data[i + 1]
WritesCurrent ==
  /\ \A r \in Rows : \A i \in 0..(RowLen[r] - 1) : ~Ahead(r, i) => g_ARR[r][i] = latest[r][i]
  /\ ppc = "write" => Meant(latest, req.w)
  /\ locked => Meant(latest, lw)

(* The array being read changes at most in its first byte: the mode byte    *)
(* that a CAN worker resets.                                                *)
Agree(s, t, a) == \A k \in 1..Len(t) : (k = 1 /\ a \in {A4, A5}) \/ s[k] = t[k]
Prefix(b, s) == \A k \in 1..Len(b) : b[k] = s[k]
ReadCurrent ==
  ppc = "read" /\ seen # {} /\ Lines(req.arr) * pos <= FRAME_DATA_LEN - 2 =>
    LET w == Whole(latest, req.arr, pos) IN
    /\ locked => lw.arr # req.arr
    /\ w \in seen
    /\ \A s \in seen : s \in Seq(Bytes) /\ Len(s) = Lines(req.arr) * pos /\ Agree(s, w, req.arr)
    /\ \E s \in seen : Prefix(resp.b, s)

(* The server writes arrays from their first byte on and within their       *)
(* length; behind A5 there is no other.                                     *)
WritesFit ==
  \A w \in Writes : Accepted(w) => w.index = 0 /\ (w.wr_len <= RowLen[w.arr] \/ w.arr = A5)
CurrentInv == NameLoaded /\ WritesCurrent /\ ReadCurrent

-----------------------------------------------------------------------------
(* What the operations on the arrays do *)

LEMMA WriteTyped ==
  ASSUME NEW w \in Writes
  PROVE  /\ w.arr \in Rows /\ w.index \in Nat /\ w.wr_len \in Nat
         /\ \A k \in 1..w.wr_len : w.data[k] \in Bytes
<1>1. /\ w.arr \in Heads /\ w.index \in Nat /\ w.wr_len \in Nat
      /\ w.data \in Seq(Bytes) /\ Len(w.data) >= w.wr_len
  BY ArrayAssumption
<1>2. \A a \in Heads : a \in Rows
  BY DEF Heads, Rows, A0, A1, A2, A3, A4, A5
<1>3. w.arr \in Rows
  BY <1>1, <1>2
<1>4. \A k \in 1..w.wr_len : k \in 1..Len(w.data)
  BY <1>1, LenProperties
<1> QED BY <1>1, <1>3, <1>4, ElementOfSeq

(* A byte stored anywhere in memory leaves the arrays in form. *)
LEMMA StoredForm ==
  ASSUME NEW g, IsArrays(g), NEW r \in Rows, NEW p \in Nat, NEW b \in Bytes
  PROVE  IsArrays(Stored(g, r, p, b))
<1> DEFINE at(q, i) == IF Offset[q] + i = Offset[r] + p THEN b ELSE g[q][i]
           h == [q \in Rows |-> [i \in 0..(RowLen[q] - 1) |-> at(q, i)]]
<1>1. Stored(g, r, p, b) = h
  BY DEF Stored
<1>2. \A q \in Rows : \A i \in 0..(RowLen[q] - 1) : at(q, i) \in Bytes
  BY DEF IsArrays
<1> HIDE DEF at
<1>3. \A q \in Rows : h[q] \in [0..(RowLen[q] - 1) -> Bytes]
  BY <1>2
<1>4. h = [q \in Rows |-> h[q]]
  OBVIOUS
<1> HIDE DEF h
<1> QED BY <1>1, <1>3, <1>4 DEF IsArrays

(* It is stored behind the rows before r; within its row, it is the only    *)
(* one that changes, and behind the last row no other is.                   *)
StoresAt(h, g, r, p, b) ==
  \A q \in Rows : \A j \in 0..(RowLen[q] - 1) :
    /\ q < r => h[q][j] = g[q][j]
    /\ q = r /\ j = p => h[q][j] = b
    /\ (p < RowLen[r] \/ r = A5) /\ ~(q = r /\ j = p) => h[q][j] = g[q][j]

LEMMA StoredAt ==
  ASSUME NEW g, NEW r \in Rows, NEW p \in Nat, NEW b
  PROVE  StoresAt(Stored(g, r, p, b), g, r, p, b)
<1> SUFFICES ASSUME NEW q \in Rows, NEW j \in 0..(RowLen[q] - 1)
    PROVE  /\ q < r => Stored(g, r, p, b)[q][j] = g[q][j]
           /\ q = r /\ j = p => Stored(g, r, p, b)[q][j] = b
           /\ (p < RowLen[r] \/ r = A5) /\ ~(q = r /\ j = p) =>
                Stored(g, r, p, b)[q][j] = g[q][j]
  BY DEF StoresAt
<1>1. Stored(g, r, p, b)[q][j] = IF Offset[q] + j = Offset[r] + p THEN b ELSE g[q][j]
  BY DEF Stored
<1>2. /\ Offset[q] \in Nat /\ Offset[r] \in Nat /\ RowLen[q] \in Nat /\ RowLen[r] \in Nat
      /\ j \in Nat /\ j < RowLen[q] /\ q \in Int /\ r \in Int
  BY OffsetsRise, Constants DEF Rows
<1>3. q < r => Offset[q] + j # Offset[r] + p
  <2>1. q < r => Offset[q] + RowLen[q] <= Offset[r]
    BY OffsetsRise
  <2> QED BY <1>2, <2>1
<1>4. r < q /\ p < RowLen[r] => Offset[q] + j # Offset[r] + p
  <2>1. r < q => Offset[r] + RowLen[r] <= Offset[q]
    BY OffsetsRise
  <2> QED BY <1>2, <2>1
<1>5. r = A5 => ~(r < q)
  BY DEF A5, Rows
<1>6. q = r => (Offset[q] + j = Offset[r] + p <=> j = p)
  BY <1>2
<1>7. q = r \/ q < r \/ r < q
  BY <1>2
<1> QED BY <1>1, <1>3, <1>4, <1>5, <1>6, <1>7

Put(g, r, i, b) == [g EXCEPT ![r][i] = b]

LEMMA PutByte ==
  ASSUME NEW g, IsArrays(g), NEW r \in Rows, NEW i \in 0..(RowLen[r] - 1), NEW b \in Bytes
  PROVE  /\ IsArrays(Put(g, r, i, b))
         /\ \A q \in Rows : \A j \in 0..(RowLen[q] - 1) :
              Put(g, r, i, b)[q][j] = IF q = r /\ j = i THEN b ELSE g[q][j]
<1> DEFINE h == [q \in Rows |-> IF q = r THEN [g[r] EXCEPT ![i] = b] ELSE g[q]]
<1>1. g = [q \in Rows |-> g[q]] /\ \A q \in Rows : g[q] \in [0..(RowLen[q] - 1) -> Bytes]
  BY DEF IsArrays
<1>2. DOMAIN g = Rows
  BY <1>1, Zenon
<1>3. Put(g, r, i, b) = h
  BY <1>2 DEF Put
<1>4. \A q \in Rows : h[q] \in [0..(RowLen[q] - 1) -> Bytes]
  BY <1>1
<1>5. \A q \in Rows : \A j \in 0..(RowLen[q] - 1) : h[q][j] = IF q = r /\ j = i THEN b ELSE g[q][j]
  BY <1>1
<1>6. h = [q \in Rows |-> h[q]]
  OBVIOUS
<1> HIDE DEF h
<1> QED BY <1>3, <1>4, <1>5, <1>6 DEF IsArrays

LEMMA OverwriteIs ==
  ASSUME NEW w \in Writes, IsArrays(latest)
  PROVE  /\ IsArrays(Overwrite(w))
         /\ \A q \in Rows : \A j \in 0..(RowLen[q] - 1) :
              Overwrite(w)[q][j] = IF q = w.arr /\ j \in w.index..(w.index + w.wr_len - 1)
                                   THEN w.data[j - w.index + 1] ELSE latest[q][j]
<1> DEFINE row == [j \in 0..(RowLen[w.arr] - 1) |->
                     IF j \in w.index..(w.index + w.wr_len - 1) THEN w.data[j - w.index + 1]
                     ELSE latest[w.arr][j]]
           h == [q \in Rows |-> IF q = w.arr THEN row ELSE latest[q]]
<1>1. /\ latest = [q \in Rows |-> latest[q]]
      /\ \A q \in Rows : latest[q] \in [0..(RowLen[q] - 1) -> Bytes]
  BY DEF IsArrays
<1>2. DOMAIN latest = Rows
  BY <1>1, Zenon
<1>3. w.arr \in Rows /\ w.index \in Nat /\ w.wr_len \in Nat
      /\ \A k \in 1..w.wr_len : w.data[k] \in Bytes
  BY WriteTyped
<1>4. DOMAIN latest[w.arr] = 0..(RowLen[w.arr] - 1)
  BY <1>1, <1>3
<1>5. Overwrite(w) = [latest EXCEPT ![w.arr] = row]
  BY <1>2, <1>3, <1>4 DEF Overwrite
<1>6. Overwrite(w) = h
  <2> HIDE DEF row
  <2> QED BY <1>2, <1>5
<1>7. row \in [0..(RowLen[w.arr] - 1) -> Bytes]
  <2> SUFFICES ASSUME NEW j \in 0..(RowLen[w.arr] - 1) PROVE row[j] \in Bytes
    OBVIOUS
  <2>1. CASE j \in w.index..(w.index + w.wr_len - 1)
    <3>1. j - w.index + 1 \in 1..w.wr_len
      BY <1>3, <2>1
    <3> QED BY <1>3, <2>1, <3>1
  <2>2. CASE j \notin w.index..(w.index + w.wr_len - 1)
    BY <1>1, <1>3, <2>2
  <2> QED BY <2>1, <2>2
<1>8. \A q \in Rows : h[q] \in [0..(RowLen[q] - 1) -> Bytes]
  <2> HIDE DEF row
  <2> QED BY <1>1, <1>7
<1>9. \A q \in Rows : \A j \in 0..(RowLen[q] - 1) :
         h[q][j] = IF q = w.arr /\ j \in w.index..(w.index + w.wr_len - 1)
                   THEN w.data[j - w.index + 1] ELSE latest[q][j]
  BY <1>1, <1>3
<1>10. h = [q \in Rows |-> h[q]]
  OBVIOUS
<1> HIDE DEF h
<1> QED BY <1>6, <1>8, <1>9, <1>10 DEF IsArrays

LEMMA HeadIsRow ==
  ASSUME NEW a \in Heads
  PROVE  /\ a \in Rows /\ Lines(a) \in {1, 2}
         /\ Lines(a) = 2 => a + 1 \in Rows /\ a + 1 # a /\ a \in {A2, A3}
         /\ a \notin {A2, A3} => Lines(a) = 1
BY DEF Heads, Rows, Lines, A0, A1, A2, A3, A4, A5

LEMMA TakenIs ==
  ASSUME NEW g, IsArrays(g), NEW a \in Heads
  PROVE  Taken(a, g) \in Nat \ {0}
<1>1. \A r \in Rows : \A i \in 0..(RowLen[r] - 1) : g[r][i] \in Bytes
  BY DEF IsArrays
<1>2. \A b \in Bytes : b \in Nat
  BY Constants DEF Bytes
<1>3. A1 \in Rows /\ a \in Rows
  BY Constants, HeadIsRow
<1>4. 2 \in 0..(RowLen[A1] - 1) /\ 0 \in 0..(RowLen[a] - 1)
  BY <1>3, Constants
<1>5. g[A1][2] \in Nat /\ g[a][0] \in Nat
  BY <1>1, <1>2, <1>3, <1>4
<1>6. RowLen[a] \in Nat \ {0}
  BY <1>3, Constants
<1> QED BY <1>5, <1>6 DEF Taken

LEMMA Division ==
  ASSUME NEW k \in Nat, NEW n \in Nat \ {0}
  PROVE  /\ k < n => k \div n = 0 /\ k % n = k
         /\ n <= k /\ k < 2 * n => k \div n = 1 /\ k % n = k - n
OBVIOUS

(* Byte k of the answer stands in its row. *)
LEMMA ByteInRow ==
  ASSUME NEW g, NEW a \in Heads, NEW n \in Nat \ {0}, n = Taken(a, g),
         NEW k \in Nat, k < Lines(a) * n, k < FRAME_DATA_LEN - 2
  PROVE  /\ a + k \div n \in Rows
         /\ k % n \in 0..(RowLen[a + k \div n] - 1)
<1>1. CASE a \in {A1, A2, A3}
  <2>1. /\ k < n => a + k \div n = a /\ k % n = k
        /\ n <= k => Lines(a) = 2 /\ a + k \div n = a + 1 /\ k % n = k - n
    <3>1. CASE k < n
      <4>1. k \div n = 0 /\ k % n = k /\ ~(n <= k)
        BY <3>1, Division
      <4>2. a \in Int
        BY HeadIsRow DEF Rows
      <4> QED BY <4>1, <4>2
    <3>2. CASE n <= k
      <4>1. Lines(a) = 2
        BY <3>2, HeadIsRow
      <4>2. k \div n = 1 /\ k % n = k - n /\ ~(k < n)
        BY <3>2, <4>1, Division
      <4> QED BY <4>1, <4>2
    <3> QED BY <3>1, <3>2
  <2>2. a + k \div n \in A1..(A4 - 1) /\ k % n \in Nat /\ k % n <= k
    <3>1. k < n \/ n <= k
      OBVIOUS
    <3>2. a \in A1..(A4 - 1) /\ (Lines(a) = 2 => a + 1 \in A1..(A4 - 1))
      BY <1>1 DEF A1, A2, A3, A4, Lines
    <3>3. CASE k < n
      BY <2>1, <3>2, <3>3
    <3>4. CASE n <= k
      <4>1. k - n \in Nat /\ k - n <= k
        BY <3>4
      <4> QED BY <2>1, <3>2, <3>4, <4>1
    <3> QED BY <3>1, <3>3, <3>4
  <2>3. RowLen[a + k \div n] >= FRAME_DATA_LEN - 2 /\ FRAME_DATA_LEN \in Nat
    BY <2>2, ArrayAssumption
  <2>4. a + k \div n \in Rows
    BY <2>2 DEF A1, A4, Rows
  <2>5. RowLen[a + k \div n] \in Nat
    BY <2>4, Constants
  <2> QED BY <2>2, <2>3, <2>4, <2>5
<1>2. CASE a \notin {A1, A2, A3}
  <2>1. n = RowLen[a] /\ Lines(a) = 1 /\ a \in Rows
    BY <1>2, HeadIsRow DEF Taken
  <2>2. k < n
    BY <2>1
  <2>3. k \div n = 0 /\ k % n = k
    BY <2>2, Division
  <2>4. a + k \div n = a
    BY <2>1, <2>3 DEF Rows
  <2> QED BY <2>1, <2>2, <2>3, <2>4
<1> QED BY <1>1, <1>2

LEMMA RequestIs ==
  ASSUME NEW q \in AllRequests
  PROVE  /\ q.op \in {"REQUEST", "INIT", "WR", "RD"}
         /\ q.op = "WR" => q.w \in Writes
         /\ q.op = "RD" => q.arr \in Reads /\ q.arr \in Heads
BY ArrayAssumption DEF AllRequests

(* A worker clears the mode byte of its array, outside a write of it.       *)
Resets(a) ==
  /\ a \in {A4, A5}
  /\ g_ARR' = Put(g_ARR, a, 0, 0) /\ latest' = Put(latest, a, 0, 0)
  /\ g_ARR[a][0] # 0
  /\ ~locked
  /\ seen' = IF ppc = "read" /\ req.arr = a /\ seen # {}
             THEN seen \cup {Whole(latest', a, RowLen[a])} ELSE seen

LEMMA ResetIs ==
  ASSUME NEW c \in CANs, Reset(c)
  PROVE  /\ \E a \in {A4, A5} : Resets(a)
         /\ UNCHANGED <<locker, booting, server, session, listener, processor, resp, out>> /\ Up
<1>1. CASE c = 1
  BY <1>1 DEF Reset, Resets, Put
<1>2. CASE c # 1
  BY <1>2 DEF Reset, Resets, Put
<1> QED BY <1>1, <1>2 DEF Reset

ClearedRow ==
  \A a \in {A4, A5} : a \in Rows /\ 0 \in 0..(RowLen[a] - 1)

LEMMA ClearedRows == ClearedRow
<1>1. \A a \in {A4, A5} : a \in Rows
  BY DEF Rows, A4, A5
<1> QED BY <1>1, Constants DEF ClearedRow

-----------------------------------------------------------------------------
(* Steps *)

(* One turn of a write. *)
Storing(w, p) ==
  w \in Writes /\ Accepted(w) /\ p \in Nat /\ p >= w.index /\ p < w.wr_len /\ WriteAt(w, p)

LEMMA WriteByteIs ==
  ASSUME Turns, WriteByte
  PROVE  /\ ppc = "write" /\ Up /\ req \in AllRequests /\ req.op = "WR"
         /\ req.w \in Writes /\ req.w.arr \notin {A4, A5} /\ pos \in Nat
         /\ UNCHANGED <<locker, booting, server, session, listener, req, resp, out, history>>
         /\ \/ Storing(req.w, pos) /\ pos' = pos + 1 /\ ppc' = "write"
            \/ ~(pos < req.w.wr_len) /\ ppc' = "idle" /\ UNCHANGED <<g_ARR, pos>>
<1>1. /\ ppc = "write" /\ req \in AllRequests /\ req.op = "WR" /\ Accepted(req.w)
      /\ req.w.arr \notin {A4, A5} /\ pos \in Nat /\ pos >= req.w.index
  BY DEF WriteByte, Turns
<1>2. req.w \in Writes
  BY <1>1, RequestIs
<1> QED BY <1>1, <1>2 DEF WriteByte, Storing

LEMMA LockedByteIs ==
  ASSUME Writers, LockedByte
  PROVE  /\ locked /\ Up /\ lw \in Writes /\ lw.arr \in {A4, A5} /\ lpos \in Nat
         /\ UNCHANGED <<booting, server, session, listener, processor, waiting, resp, out, history>>
         /\ \/ Storing(lw, lpos) /\ lpos' = lpos + 1 /\ locked' = locked /\ lw' = lw
            \/ locked' = FALSE /\ ~(lpos < lw.wr_len) /\ UNCHANGED g_ARR
<1>1. /\ locked /\ lw \in Writes /\ Accepted(lw) /\ lw.arr \in {A4, A5}
      /\ lpos \in Nat /\ lpos >= lw.index
  BY DEF LockedByte, Writers
<1> QED BY <1>1 DEF LockedByte, Storing

LEMMA LockIs ==
  ASSUME Writers, NEW x \in waiting, Lock(x)
  PROVE  /\ Up /\ ~locked /\ locked' = TRUE /\ lw' = x.w /\ lpos' = x.w.index
         /\ waiting' \subseteq waiting /\ latest' = Overwrite(x.w)
         /\ x.w \in Writes /\ Accepted(x.w) /\ x.w.arr \in {A4, A5}
         /\ seen' = IF ppc = "read" /\ req.arr = x.w.arr THEN {} ELSE seen
         /\ UNCHANGED <<booting, server, g_ARR, session, listener, processor, resp, out>>
BY DEF Lock, Writers

LEMMA StoringForm ==
  ASSUME NEW w, NEW p, Storing(w, p), IsArrays(g_ARR)
  PROVE  IsArrays(g_ARR')
<1> DEFINE b == w.data[p - w.index + 1]
<1>1. /\ w.arr \in Rows /\ w.index \in Nat /\ w.wr_len \in Nat
      /\ \A k \in 1..w.wr_len : w.data[k] \in Bytes
  BY WriteTyped DEF Storing
<1>2. p \in Nat /\ p - w.index + 1 \in 1..w.wr_len
  BY <1>1 DEF Storing
<1>3. b \in Bytes
  BY <1>1, <1>2
<1>4. g_ARR' = Stored(g_ARR, w.arr, p, b)
  BY DEF Storing, WriteAt
<1> HIDE DEF b
<1> QED BY <1>1, <1>2, <1>3, <1>4, StoredForm

LEMMA StoringAt ==
  ASSUME NEW w, NEW p, Storing(w, p), NEW q \in Rows, NEW j \in 0..(RowLen[q] - 1)
  PROVE  /\ q < w.arr => g_ARR'[q][j] = g_ARR[q][j]
         /\ WritesFit =>
              g_ARR'[q][j] = IF q = w.arr /\ j = p THEN w.data[p + 1] ELSE g_ARR[q][j]
<1> DEFINE b == w.data[p - w.index + 1]
<1>1. w.arr \in Rows /\ w.index \in Nat /\ w.wr_len \in Nat
  BY WriteTyped DEF Storing
<1>2. g_ARR' = Stored(g_ARR, w.arr, p, b) /\ p \in Nat
  BY DEF Storing, WriteAt
<1>3. WritesFit => w.index = 0 /\ (p < RowLen[w.arr] \/ w.arr = A5)
  <2>1. RowLen[w.arr] \in Nat
    BY <1>1, Constants
  <2> QED BY <1>1, <1>2, <2>1 DEF WritesFit, Storing
<1>4. w.index = 0 => b = w.data[p + 1]
  <2>1. w.index = 0 => p - w.index + 1 = p + 1
    BY <1>2
  <2> QED BY <2>1
<1> HIDE DEF b
<1>5. StoresAt(g_ARR', g_ARR, w.arr, p, b)
  BY <1>1, <1>2, StoredAt
<1>6. /\ q < w.arr => g_ARR'[q][j] = g_ARR[q][j]
      /\ q = w.arr /\ j = p => g_ARR'[q][j] = b
      /\ (p < RowLen[w.arr] \/ w.arr = A5) /\ ~(q = w.arr /\ j = p) =>
           g_ARR'[q][j] = g_ARR[q][j]
  BY <1>5, Zenon DEF StoresAt
<1>7. ASSUME WritesFit
      PROVE  g_ARR'[q][j] = IF q = w.arr /\ j = p THEN w.data[p + 1] ELSE g_ARR[q][j]
  <2>1. b = w.data[p + 1] /\ (p < RowLen[w.arr] \/ w.arr = A5)
    BY <1>3, <1>4, <1>7
  <2> QED BY <1>6, <2>1, Zenon
<1> QED BY <1>6, <1>7

Others ==
  \/ Send \/ MainClearMac \/ MainSendInit \/ Arm \/ ArmDies \/ (\E n \in 0..1 : LoadA0(n))
  \/ Receive \/ Dispatch \/ Timeout \/ Beat
  \/ ClearMac \/ SendInit \/ SessionCreated \/ StartRead \/ ReadByte \/ ReadDies \/ WriteDies
  \/ UNCHANGED vars

LEMMA NextIs ==
  ASSUME [Next]_vars
  PROVE  \/ Boot \/ StartWrite \/ WriteByte \/ LockedByte \/ (\E x \in waiting : Lock(x))
         \/ (\E c \in CANs : Reset(c)) \/ Others
BY DEF Next, Main, Listener, Processor, Locker, Dead, Others

LEMMA OthersKeepArrays ==
  ASSUME Others
  PROVE  UNCHANGED <<g_ARR, latest>>
BY DEF Others, Send, MainClearMac, MainSendInit, Arm, ArmDies, LoadA0, Receive, Dispatch, Timeout,
       Beat, ClearMac, SendInit, SessionCreated, StartRead, ReadByte, ReadDies, WriteDies, vars, history

(* The arrays keep their form, whatever is loaded or written. *)
LEMMA ArraysStep ==
  ASSUME IsArrays(g_ARR), IsArrays(latest), Turns, Writers, Quiet, [Next]_vars
  PROVE  IsArrays(g_ARR') /\ IsArrays(latest')
<1>1. CASE Boot
  <2>1. latest' = g_ARR'
    BY <1>1 DEF Boot
  <2>2. CASE Load
    <3>1. unread \in Files
      BY <2>2 DEF Load, Quiet
    <3> QED BY <2>1, <2>2, <3>1, LoadForm
  <2>3. CASE ~Load
    <3>1. g_ARR' = g_ARR
      BY <1>1, <2>3 DEF Boot, Start, LoadDies, LoadFails, CanInit, StartWorkers, InitFails
    <3> QED BY <2>1, <3>1
  <2> QED BY <2>2, <2>3
<1>2. CASE StartWrite
  <2>1. g_ARR' = g_ARR /\ (latest' = latest \/ latest' = Overwrite(req.w)) /\ req.w \in Writes
    BY <1>2, RequestIs DEF StartWrite, Turns
  <2> QED BY <2>1, OverwriteIs
<1>3. CASE WriteByte \/ LockedByte
  <2>1. latest' = latest /\ (g_ARR' = g_ARR \/ \E w, p : Storing(w, p))
    BY <1>3, WriteByteIs, LockedByteIs DEF history
  <2> QED BY <2>1, StoringForm
<1>6. CASE \E x \in waiting : Lock(x)
  <2>1. PICK x \in waiting : Lock(x)
    BY <1>6
  <2>2. g_ARR' = g_ARR /\ latest' = Overwrite(x.w) /\ x.w \in Writes
    BY <2>1, LockIs
  <2> QED BY <2>2, OverwriteIs
<1>4. CASE \E c \in CANs : Reset(c)
  <2>1. PICK a \in {A4, A5} : Resets(a)
    BY <1>4, ResetIs
  <2>2. a \in Rows /\ 0 \in 0..(RowLen[a] - 1) /\ 0 \in Bytes
    BY ClearedRows, Constants DEF ClearedRow
  <2> QED BY <2>1, <2>2, PutByte DEF Resets
<1>5. CASE Others
  BY <1>5, OthersKeepArrays
<1> QED BY <1>1, <1>2, <1>3, <1>4, <1>5, <1>6, NextIs

LEMMA HalfStep ==
  ASSUME HalfType, IsArrays(g_ARR), seconds \in MinSecs..MaxSecs, [Next]_vars
  PROVE  HalfType' /\ seconds' \in MinSecs..MaxSecs
<1> DEFINE T == [i : 0..1, b : Bytes]
<1>1. CASE UNCHANGED <<half, seconds>>
  BY <1>1 DEF HalfType
<1>2. ASSUME NEW n \in 0..1, LoadA0(n) PROVE HalfType' /\ seconds' = seconds
  <2> DEFINE e == [i |-> n, b |-> g_ARR[A0][n]]
  <2>1. half' = Append(half, e) /\ seconds' = seconds /\ \A k \in DOMAIN half : half[k].i # n
    BY <1>2 DEF LoadA0
  <2>2. e \in T
    <3>1. A0 \in Rows
      BY DEF A0, Rows
    <3>2. RowLen[A0] >= 2 /\ RowLen[A0] \in Nat
      BY <3>1, Constants, ArrayAssumption
    <3>3. n \in 0..(RowLen[A0] - 1)
      BY <3>2
    <3> QED BY <3>1, <3>3 DEF IsArrays
  <2>3. half \in Seq(T) /\ Len(half) <= 2
        /\ \A k, m \in 1..Len(half) : k # m => half[k].i # half[m].i
    BY DEF HalfType
  <2>4. Len(half) \in Nat /\ DOMAIN half = 1..Len(half) /\ \A k \in 1..Len(half) : half[k] \in T
    BY <2>3, LenProperties, ElementOfSeq
  <2> HIDE DEF e
  <2>5. /\ half' \in Seq(T) /\ Len(half') = Len(half) + 1
        /\ \A k \in 1..Len(half) : half'[k] = half[k]
        /\ half'[Len(half) + 1] = e
    BY <2>1, <2>2, <2>3, AppendProperties
  <2>6. e.i = n
    BY DEF e
  <2>7. ASSUME NEW k \in 1..Len(half'), NEW m \in 1..Len(half'), k # m
        PROVE  half'[k].i # half'[m].i
    <3>1. k \in 1..Len(half) \/ k = Len(half) + 1
      BY <2>4, <2>5
    <3>2. m \in 1..Len(half) \/ m = Len(half) + 1
      BY <2>4, <2>5
    <3> QED BY <2>1, <2>3, <2>4, <2>5, <2>6, <2>7, <3>1, <3>2
  <2>8. Len(half') <= 2
    <3> SUFFICES ASSUME Len(half) = 2 PROVE FALSE
      BY <2>3, <2>4, <2>5
    <3>1. 1 \in 1..Len(half) /\ 2 \in 1..Len(half)
      OBVIOUS
    <3>2. half[1].i # half[2].i /\ half[1].i # n /\ half[2].i # n
      BY <2>1, <2>3, <2>4, <3>1
    <3>3. half[1].i \in 0..1 /\ half[2].i \in 0..1
      BY <2>4, <3>1
    <3> QED BY <3>2, <3>3
  <2> QED BY <2>1, <2>5, <2>7, <2>8 DEF HalfType
<1>3. ASSUME Arm PROVE HalfType' /\ seconds' \in MinSecs..MaxSecs
  <2>1. half' = <<>> /\ \E s : seconds' = Bounded(s)
    BY <1>3 DEF Arm, Secs
  <2>2. HalfType'
    BY <2>1, EmptySeq DEF HalfType
  <2>3. \A s \in Nat : Bounded(s) \in MinSecs..MaxSecs
    BY ArrayAssumption DEF Bounded
  <2>4. Len(half) = 2
    BY <1>3 DEF Arm
  <2>5. 1 \in 1..Len(half) /\ 2 \in 1..Len(half)
    BY <2>4
  <2>6. /\ half[1] \in T /\ half[2] \in T /\ half[1].i # half[2].i
    <3>1. half \in Seq(T)
      BY DEF HalfType
    <3>2. half[1] \in T /\ half[2] \in T
      BY <2>5, <3>1, ElementOfSeq
    <3> QED BY <2>5, <3>2 DEF HalfType
  <2> DEFINE row == [i \in 0..1 |-> half[CHOOSE k \in 1..2 : half[k].i = i].b]
  <2>7. \A i \in 0..1 : \E k \in 1..2 : half[k].i = i
    BY <2>6
  <2>8. \A i \in 0..1 : row[i] \in Bytes
    BY <2>6, <2>7
  <2>9. seconds' = Bounded(row[1] + row[0] * Base)
    BY <1>3 DEF Arm, Secs
  <2> HIDE DEF row
  <2>10. row[1] \in Nat /\ row[0] \in Nat
    BY <2>8, Constants DEF Bytes
  <2>11. row[0] * Base \in Nat
    BY <2>10, Constants
  <2>12. row[1] + row[0] * Base \in Nat
    BY <2>10, <2>11
  <2> QED BY <2>2, <2>3, <2>9, <2>12
<1>4. Arm \/ (\E n \in 0..1 : LoadA0(n)) \/ UNCHANGED <<half, seconds>>
  BY NextIs, ResetIs DEF Others, Boot, StartWrite, WriteByte, LockedByte, Lock, Send,
     MainClearMac, MainSendInit, ArmDies, Receive, Dispatch, Timeout, Beat, ClearMac, SendInit, SessionCreated, StartRead,
     ReadByte, ReadDies, WriteDies, vars, listener
<1> QED BY <1>1, <1>2, <1>3, <1>4

LEMMA OneOrTwo ==
  ASSUME NEW S, NEW u \in S, NEW v \in S
  PROVE  <<u>> \in Seq(S) /\ <<u, v>> \in Seq(S)
OBVIOUS

LEMMA RestStep ==
  ASSUME frames \in 0..MaxFrames, workers \in Seq([which : CANs, bus : 0..2]),
         bound \in [CANs -> 0..2], [Next]_vars
  PROVE  /\ frames' \in 0..MaxFrames /\ workers' \in Seq([which : CANs, bus : 0..2])
         /\ bound' \in [CANs -> 0..2]
<1>1. CASE Send
  <2>1. MaxFrames \in Nat
    BY ArrayAssumption
  <2> QED BY <1>1, <2>1 DEF Send, booting
<1>2. CASE Boot
  <2>1. frames' = frames
    BY <1>2 DEF Boot, server
  <2>2. CASE CanInit
    <3>1. PICK any \in 0..2 :
            /\ \A c \in Working : Ifindex(c, any) \in Present \cup {0}
            /\ bound' = [c \in CANs |-> IF c \in Working THEN Ifindex(c, any) ELSE 0]
      BY <2>2 DEF CanInit
    <3>2. \A x \in Present \cup {0} : x \in 0..2
      BY StartAssumption DEF CANs
    <3>3. workers' = workers
      BY <2>2 DEF CanInit
    <3> QED BY <2>1, <3>1, <3>2, <3>3
  <2>3. CASE StartWorkers
    <3>1. bound' = bound
      BY <2>3 DEF StartWorkers
    <3>2. \A s, c \in CANs : Worker(s, c) \in [which : CANs, bus : 0..2]
      BY DEF Worker
    <3>3. 2 \in CANs
      BY DEF CANs
    <3> HIDE DEF Worker
    <3>4. CASE \E c \in CANs : Working = {c} /\ workers' = <<Worker(c, c)>>
      <4>1. PICK c \in CANs : workers' = <<Worker(c, c)>>
        BY <3>4
      <4>2. Worker(c, c) \in [which : CANs, bus : 0..2]
        BY <3>2
      <4> QED BY <2>1, <3>1, <4>1, <4>2, OneOrTwo
    <3>5. CASE Working = CANs /\ \E s, c \in CANs : workers' = <<Worker(s, c), Worker(2, 2)>>
      <4>1. PICK s \in CANs, c \in CANs : workers' = <<Worker(s, c), Worker(2, 2)>>
        BY <3>5
      <4>2. /\ Worker(s, c) \in [which : CANs, bus : 0..2]
            /\ Worker(2, 2) \in [which : CANs, bus : 0..2]
        BY <3>2, <3>3
      <4> QED BY <2>1, <3>1, <4>1, <4>2, OneOrTwo
    <3> QED BY <2>3, <3>4, <3>5 DEF StartWorkers
  <2>4. CASE ~CanInit /\ ~StartWorkers
    BY <1>2, <2>1, <2>4 DEF Boot, Start, Load, LoadDies, LoadFails, InitFails
  <2> QED BY <2>2, <2>3, <2>4
<1>3. Send \/ Boot \/ UNCHANGED <<frames, workers, bound>>
  BY NextIs, ResetIs DEF Others, StartWrite, WriteByte, LockedByte, Lock, MainClearMac,
     MainSendInit, Arm, LoadA0, ArmDies, Receive, Dispatch, Timeout, Beat, ClearMac, SendInit,
     SessionCreated, StartRead, ReadByte, ReadDies, WriteDies, vars, booting, server
<1> QED BY <1>1, <1>2, <1>3

-----------------------------------------------------------------------------
(* The listener, the processor and the server take turns *)

LEMMA RequestsAreAll == \A q \in Requests : q \in AllRequests
BY DEF Requests, AllRequests

(* The bytes an answer takes are not those of A4 and A5. *)
LEMMA TakenStays ==
  ASSUME NEW g, NEW h, NEW a \in Heads,
         \A q \in Rows : \A j \in 0..(RowLen[q] - 1) : q < A4 => h[q][j] = g[q][j]
  PROVE  Taken(a, h) = Taken(a, g)
<1>1. A1 \in Rows /\ 2 \in 0..(RowLen[A1] - 1) /\ A1 < A4
  BY Constants DEF A1, A4
<1>2. h[A1][2] = g[A1][2]
  BY <1>1
<1>3. CASE a \in {A2, A3}
  <2>1. a \in Rows /\ 0 \in 0..(RowLen[a] - 1) /\ a < A4
    BY <1>3, HeadIsRow, Constants DEF A2, A3, A4
  <2>2. h[a][0] = g[a][0]
    BY <2>1
  <2> QED BY <1>2, <1>3, <2>2 DEF Taken
<1>4. CASE a \notin {A2, A3}
  BY <1>2, <1>4 DEF Taken
<1> QED BY <1>3, <1>4

(* The rows that a processor with g_mutex, or a worker, does not write.     *)
LEMMA LockedBelow ==
  ASSUME Writers, LockedByte, NEW q \in Rows, NEW j \in 0..(RowLen[q] - 1), q < A4
  PROVE  g_ARR'[q][j] = g_ARR[q][j]
<1>1. lw.arr \in {A4, A5} /\ (Storing(lw, lpos) \/ g_ARR' = g_ARR)
  BY LockedByteIs
<1>2. q < lw.arr
  BY <1>1 DEF A4, A5, Rows
<1> QED BY <1>1, <1>2, StoringAt

LEMMA ResetBelow ==
  ASSUME NEW a \in {A4, A5}, NEW g, IsArrays(g),
         NEW q \in Rows, NEW j \in 0..(RowLen[q] - 1), q < A4
  PROVE  Put(g, a, 0, 0)[q][j] = g[q][j]
<1>1. a \in Rows /\ 0 \in 0..(RowLen[a] - 1) /\ 0 \in Bytes
  BY ClearedRows, Constants DEF ClearedRow
<1>2. q # a
  BY DEF A4, A5, Rows
<1> QED BY <1>1, <1>2, PutByte

LEMMA BootTurns ==
  ASSUME Turns, Quiet, Boot
  PROVE  Turns'
<1>1. mainpc \in {"load", "can", "threads"}
  BY DEF Boot, Start, Load, LoadDies, LoadFails, CanInit, StartWorkers, InitFails
<1>2. UNCHANGED <<pending, lpc, ppc, req, pos, resp>>
  BY DEF Boot, server, listener, processor
<1> QED BY <1>1, <1>2 DEF Turns, Quiet

WithBytes(f, b) == [f EXCEPT !.b = b]

LEMMA WithBytesIs ==
  ASSUME NEW type, NEW arr, NEW mac, NEW b, NEW c
  PROVE  WithBytes(Frame(type, arr, mac, b), c) = Frame(type, arr, mac, c)
BY DEF Frame, WithBytes

LEMMA ListenerTurns ==
  ASSUME Turns, IsArrays(g_ARR), Others
  PROVE  Turns'
<1>1. CASE Send
  <2>1. pending' \in AllRequests
    BY <1>1, RequestsAreAll DEF Send
  <2>2. UNCHANGED <<g_ARR, lpc, ppc, req, pos, resp>> /\ lpc # "dispatch" /\ ppc = "idle"
    BY <1>1 DEF Send, listener, processor
  <2> QED BY <2>1, <2>2 DEF Turns
<1>2. CASE MainClearMac \/ MainSendInit \/ ArmDies \/ (\E n \in 0..1 : LoadA0(n)) \/ ReadDies \/ WriteDies
           \/ UNCHANGED vars
  <2>1. UNCHANGED <<g_ARR, pending, lpc, ppc, req, pos, resp>>
    BY <1>2 DEF MainClearMac, MainSendInit, ArmDies, LoadA0, ReadDies, WriteDies, vars, server, listener, processor
  <2> QED BY <2>1 DEF Turns
<1>3. CASE Arm \/ Timeout \/ Beat
  <2>1. UNCHANGED <<g_ARR, pending, ppc, req, pos, resp>>
    BY <1>3 DEF Arm, Timeout, Beat, server, processor
  <2>2. lpc' \in {"arm", "select", "beat"} /\ (lpc' = "beat" => ppc = "idle")
    BY <1>3 DEF Arm, Timeout, Beat
  <2> QED BY <2>1, <2>2 DEF Turns
<1>4. CASE Receive
  BY <1>4 DEF Receive, Turns
<1>5. CASE Dispatch
  BY <1>5 DEF Dispatch, Turns, server
<1>6. CASE ClearMac \/ SendInit \/ SessionCreated
  <2>1. UNCHANGED <<g_ARR, pending, lpc, req, pos, resp>> /\ lpc \notin {"dispatch", "beat"}
    BY <1>6 DEF ClearMac, SendInit, SessionCreated, Turns, server, listener
  <2>2. ppc' \in {"mac", "idle"} /\ ppc # "idle"
    BY <1>6 DEF ClearMac, SendInit, SessionCreated
  <2> QED BY <2>1, <2>2 DEF Turns
<1>7. CASE StartRead
  <2>1. req \in AllRequests /\ req.op = "RD" /\ ppc = "start"
    BY <1>7 DEF StartRead, Turns
  <2>2. /\ UNCHANGED <<g_ARR, pending, lpc, req>> /\ ppc' = "read"
        /\ pos' = Taken(req.arr, g_ARR) /\ resp'.b = <<>>
        /\ resp' = Frame("RD_ARR", req.arr, resp'.mac, resp'.b)
    BY <1>7 DEF StartRead, Frame, server, listener
  <2>3. req.arr \in Heads
    BY <2>1, RequestIs
  <2>4. pos' \in Nat \ {0} /\ Lines(req.arr) * pos' \in Nat
    <3>1. pos' \in Nat \ {0}
      BY <2>2, <2>3, TakenIs
    <3> QED BY <2>3, <3>1, HeadIsRow
  <2>5. resp'.b \in Seq(Bytes) /\ Len(resp'.b) = 0 /\ 0 <= FRAME_DATA_LEN - 2
    BY <2>2, EmptySeq, ArrayAssumption
  <2> QED BY <2>1, <2>2, <2>4, <2>5 DEF Turns
<1>8. CASE ReadByte
  <2>1. /\ UNCHANGED <<g_ARR, pending, lpc, req, pos>> /\ ppc = "read"
        /\ req \in AllRequests /\ req.op = "RD"
        /\ pos \in Nat \ {0} /\ pos = Taken(req.arr, g_ARR)
        /\ resp.b \in Seq(Bytes) /\ Len(resp.b) <= Lines(req.arr) * pos
        /\ resp = Frame("RD_ARR", req.arr, resp.mac, resp.b)
        /\ lpc \notin {"dispatch", "beat"}
    BY <1>8 DEF ReadByte, Turns, server, listener
  <2> DEFINE n == Lines(req.arr) * pos
             k == Len(resp.b)
  <2>2. req.arr \in Heads
    BY <2>1, RequestIs
  <2>3. n \in Nat /\ k \in Nat /\ FRAME_DATA_LEN - 2 \in Nat
    BY <2>1, <2>2, HeadIsRow, LenProperties, ArrayAssumption
  <2>4. Min({n, FRAME_DATA_LEN - 2}) = IF n <= FRAME_DATA_LEN - 2 THEN n ELSE FRAME_DATA_LEN - 2
    <3> HIDE DEF n
    <3> QED BY <2>3, MinPair
  <2>5. CASE k < Min({n, FRAME_DATA_LEN - 2})
    <3> DEFINE x == g_ARR[req.arr + k \div pos][k % pos]
    <3>1. /\ resp'.b = Append(resp.b, x) /\ ppc' = ppc
          /\ resp' = Frame("RD_ARR", req.arr, resp'.mac, resp'.b)
      <4>1. resp' = WithBytes(resp, Append(resp.b, x)) /\ ppc' = ppc
        BY <1>8, <2>5 DEF ReadByte, WithBytes
      <4>2. resp' = Frame("RD_ARR", req.arr, resp.mac, Append(resp.b, x))
        BY <2>1, <4>1, WithBytesIs
      <4> HIDE DEF x
      <4> QED BY <4>1, <4>2 DEF Frame
    <3>2. k < n /\ k < FRAME_DATA_LEN - 2
      <4> HIDE DEF n, k
      <4> QED BY <2>3, <2>4, <2>5
    <3>3. /\ req.arr + k \div pos \in Rows
          /\ k % pos \in 0..(RowLen[req.arr + k \div pos] - 1)
      <4> HIDE DEF k
      <4> QED BY <2>1, <2>2, <2>3, <3>2, ByteInRow
    <3>4. x \in Bytes
      BY <3>3 DEF IsArrays
    <3> HIDE DEF x
    <3>5. resp'.b \in Seq(Bytes) /\ Len(resp'.b) = k + 1
      BY <2>1, <3>1, <3>4, AppendProperties
    <3>6. Len(resp'.b) <= n /\ Len(resp'.b) <= FRAME_DATA_LEN - 2
      <4> HIDE DEF n, k
      <4> QED BY <2>3, <3>2, <3>5
    <3> QED BY <2>1, <3>1, <3>5, <3>6 DEF Turns
  <2>6. CASE ~(k < Min({n, FRAME_DATA_LEN - 2}))
    <3>1. ppc' = "idle" /\ resp' = NoFrame
      BY <1>8, <2>6 DEF ReadByte
    <3>2. Len(resp'.b) <= FRAME_DATA_LEN - 2
      BY <2>3, <3>1, EmptySeq DEF NoFrame, Frame
    <3> QED BY <2>1, <3>1, <3>2 DEF Turns
  <2> QED BY <2>5, <2>6
<1> QED BY <1>1, <1>2, <1>3, <1>4, <1>5, <1>6, <1>7, <1>8 DEF Others

LEMMA TurnsStep ==
  ASSUME Turns, Writers, Quiet, IsArrays(g_ARR), [Next]_vars
  PROVE  Turns'
<1>1. CASE StartWrite
  <2>1. /\ req \in AllRequests /\ req.op = "WR" /\ lpc \notin {"dispatch", "beat"}
        /\ UNCHANGED <<pending, lpc, req, resp>> /\ ppc # "idle"
    BY <1>1 DEF StartWrite, Turns, server, listener
  <2>2. \/ ppc' = "idle"
        \/ /\ ppc' = "write" /\ pos' = req.w.index /\ Accepted(req.w)
           /\ req.w.arr \notin {A4, A5}
    BY <1>1 DEF StartWrite
  <2>3. req.w.index \in Nat
    BY <2>1, RequestIs, WriteTyped
  <2> QED BY <2>1, <2>2, <2>3 DEF Turns
<1>2. CASE WriteByte
  <2>1. /\ UNCHANGED <<pending, lpc, req, resp>> /\ ppc = "write"
        /\ \/ ppc' = "write" /\ pos' = pos + 1
           \/ ppc' = "idle" /\ pos' = pos
    BY <1>2 DEF WriteByte, server, listener
  <2>2. req \in AllRequests /\ req.op = "WR" /\ req.w \in Writes
    BY <2>1, RequestIs DEF Turns
  <2>3. req.w.index \in Nat
    BY <2>2, WriteTyped
  <2>4. pos \in Nat /\ pos >= req.w.index
    BY <2>1 DEF Turns
  <2>5. pos + 1 \in Nat /\ pos + 1 >= req.w.index
    BY <2>3, <2>4
  <2>6. CASE ppc' = "write" /\ pos' = pos + 1
    BY <2>1, <2>5, <2>6 DEF Turns
  <2>7. CASE ppc' = "idle" /\ pos' = pos
    BY <2>1, <2>7 DEF Turns
  <2> QED BY <2>1, <2>6, <2>7
<1>3. ASSUME UNCHANGED <<pending, lpc, ppc, req, pos, resp>>,
             \A q \in Rows : \A j \in 0..(RowLen[q] - 1) :
               q < A4 => g_ARR'[q][j] = g_ARR[q][j]
      PROVE  Turns'
  <2>1. ppc = "read" => Taken(req.arr, g_ARR') = Taken(req.arr, g_ARR)
    <3> SUFFICES ASSUME ppc = "read" PROVE Taken(req.arr, g_ARR') = Taken(req.arr, g_ARR)
      OBVIOUS
    <3>1. req.arr \in Heads
      BY RequestIs DEF Turns
    <3> QED BY <1>3, <3>1, TakenStays
  <2> QED BY <1>3, <2>1 DEF Turns
<1>4. CASE \E c \in CANs : Reset(c)
  <2>1. PICK a \in {A4, A5} : Resets(a)
    BY <1>4, ResetIs
  <2>2. UNCHANGED <<pending, lpc, ppc, req, pos, resp>>
    BY <1>4, ResetIs DEF server, listener, processor
  <2> QED BY <1>3, <2>1, <2>2, ResetBelow DEF Resets
<1>5. CASE LockedByte
  <2>1. UNCHANGED <<pending, lpc, ppc, req, pos, resp>>
    BY <1>5, LockedByteIs DEF server, listener, processor
  <2> QED BY <1>3, <1>5, <2>1, LockedBelow
<1>6. CASE \E x \in waiting : Lock(x)
  <2>1. UNCHANGED <<g_ARR, pending, lpc, ppc, req, pos, resp>>
    BY <1>6, LockIs DEF server, listener, processor
  <2> QED BY <1>3, <2>1
<1> QED BY <1>1, <1>2, <1>4, <1>5, <1>6, BootTurns, ListenerTurns, NextIs

LEMMA WritersStep ==
  ASSUME Turns, Writers, Quiet, [Next]_vars
  PROVE  Writers'
<1>1. CASE StartWrite
  <2>1. req \in AllRequests /\ req.op = "WR" /\ UNCHANGED <<locked, lw, lpos>>
    BY <1>1 DEF StartWrite, Turns
  <2>2. req.w \in Writes
    BY <2>1, RequestIs
  <2>3. \A x \in waiting' : \/ x \in waiting
                            \/ x.w = req.w /\ Accepted(req.w) /\ req.w.arr \in {A4, A5}
    BY <1>1 DEF StartWrite
  <2> QED BY <2>1, <2>2, <2>3 DEF Writers
<1>2. CASE LockedByte
  <2>1. /\ waiting' = waiting
        /\ \/ locked' = FALSE
           \/ locked' = locked /\ lw' = lw /\ lpos' = lpos + 1
    BY <1>2, LockedByteIs, Zenon
  <2>2. lw \in Writes /\ lpos \in Nat /\ lpos >= lw.index
    BY <1>2 DEF LockedByte, Writers
  <2>3. lpos + 1 \in Nat /\ lpos + 1 >= lw.index
    BY <2>2, WriteTyped
  <2>4. CASE locked' = FALSE
    BY <2>1, <2>4 DEF Writers
  <2>5. CASE locked' = locked /\ lw' = lw /\ lpos' = lpos + 1
    BY <1>2, <2>1, <2>3, <2>5 DEF Writers, LockedByte
  <2> QED BY <2>1, <2>4, <2>5, Zenon
<1>3. CASE \E x \in waiting : Lock(x)
  <2>1. PICK x \in waiting : Lock(x)
    BY <1>3
  <2>2. /\ locked' = TRUE /\ lw' = x.w /\ lpos' = x.w.index /\ waiting' \subseteq waiting
        /\ x.w \in Writes /\ Accepted(x.w) /\ x.w.arr \in {A4, A5}
    BY <2>1, LockIs
  <2>3. x.w.index \in Nat /\ x.w.index >= x.w.index
    BY <2>2, WriteTyped
  <2> QED BY <2>2, <2>3 DEF Writers
<1>4. ASSUME UNCHANGED locker PROVE Writers'
  BY <1>4 DEF Writers, locker
<1>5. CASE \E c \in CANs : Reset(c)
  BY <1>4, <1>5, ResetIs
<1>6. CASE Boot \/ WriteByte \/ Others
  BY <1>4, <1>6, WriteByteIs DEF Others, Boot, Send, MainClearMac, MainSendInit, Arm, ArmDies,
     LoadA0, Receive, Dispatch, Timeout, Beat, ClearMac, SendInit, SessionCreated, StartRead,
     ReadByte, ReadDies, WriteDies, vars
<1> QED BY <1>1, <1>2, <1>3, <1>5, <1>6, NextIs

LEMMA QuietStep ==
  ASSUME Turns, Writers, Quiet, [Next]_vars
  PROVE  Quiet'
<1>1. CASE Boot
  <2>1. /\ mainpc \in {"load", "can", "threads"}
        /\ mainpc' \in {"can", "threads", "clear", "dead"}
        /\ UNCHANGED <<pending, ppc, lpc, isSessionCreated, waiting, locked>>
    BY <1>1 DEF Boot, Start, Load, LoadDies, LoadFails, CanInit, StartWorkers, InitFails,
                server, listener, processor, locker
  <2> QED BY <2>1 DEF Quiet
<1>2. CASE StartWrite \/ WriteByte \/ SessionCreated \/ ClearMac \/ SendInit \/ StartRead \/ ReadByte
  <2>1. /\ ppc # "idle" /\ UNCHANGED <<mainpc, pending, lpc>>
    BY <1>2 DEF StartWrite, WriteByte, SessionCreated, ClearMac, SendInit, StartRead, ReadByte,
                session, server, listener
  <2>2. mainpc \in {"done", "dead"}
    BY <2>1 DEF Quiet
  <2>3. CASE SessionCreated
    <3>1. isSessionCreated' = TRUE
      BY <2>3 DEF SessionCreated
    <3> QED BY <2>1, <2>2, <3>1 DEF Quiet
  <2>4. CASE ~SessionCreated
    <3>1. isSessionCreated' = isSessionCreated
      BY <1>2, <2>4 DEF StartWrite, WriteByte, ClearMac, SendInit, StartRead, ReadByte, session
    <3> QED BY <2>1, <2>2, <3>1 DEF Quiet
  <2> QED BY <2>3, <2>4
<1>3. CASE \E c \in CANs : Reset(c)
  <2>1. UNCHANGED <<mainpc, pending, ppc, lpc, isSessionCreated, unread, waiting, locked>>
    BY <1>3, ResetIs DEF booting, server, session, listener, processor, locker
  <2> QED BY <2>1 DEF Quiet
<1>4. CASE Send
  BY <1>4 DEF Send, Quiet, booting, session, listener, processor, locker
<1>5. CASE MainClearMac \/ MainSendInit
  <2>1. /\ mainpc \in {"clear", "mac"} /\ mainpc' \in {"mac", "done", "dead"}
        /\ UNCHANGED <<pending, ppc, lpc, isSessionCreated, waiting, locked>>
    BY <1>5 DEF MainClearMac, MainSendInit, server, listener, processor, locker
  <2> QED BY <2>1 DEF Quiet
<1>6. CASE Arm \/ (\E n \in 0..1 : LoadA0(n)) \/ Timeout \/ Beat \/ UNCHANGED vars
  <2>1. /\ UNCHANGED <<mainpc, pending, ppc, isSessionCreated, unread, waiting, locked>>
        /\ lpc' \in {"arm", "select"} \/ (lpc' = "beat" /\ isSessionCreated) \/ lpc' = lpc
        /\ mainpc \in {"load", "can", "threads"} => lpc' = lpc
    BY <1>6 DEF Up, Arm, LoadA0, Timeout, Beat, vars, booting, session, server, listener, processor,
                locker
  <2> QED BY <2>1 DEF Quiet
<1>7. CASE ArmDies \/ ReadDies \/ WriteDies
  <2>1. mainpc' = "dead" /\ UNCHANGED <<lpc, isSessionCreated>>
    BY <1>7 DEF ArmDies, ReadDies, WriteDies, listener
  <2> QED BY <2>1 DEF Quiet
<1>8. CASE Receive \/ Dispatch
  <2>1. /\ pending # NoRequest \/ lpc = "dispatch"
        /\ UNCHANGED <<mainpc, isSessionCreated>> /\ lpc' # "beat"
    BY <1>8 DEF Receive, Dispatch, session
  <2>2. mainpc \in {"done", "dead"}
    BY <2>1 DEF Quiet
  <2> QED BY <2>1, <2>2 DEF Quiet
<1>9. CASE LockedByte \/ (\E x \in waiting : Lock(x))
  <2>1. UNCHANGED <<mainpc, lpc, isSessionCreated>> /\ (locked \/ waiting # {})
    BY <1>9 DEF LockedByte, Lock, session, listener
  <2>2. mainpc \in {"done", "dead"}
    BY <2>1 DEF Quiet
  <2> QED BY <2>1, <2>2 DEF Quiet
<1> QED BY <1>1, <1>2, <1>3, <1>4, <1>5, <1>6, <1>7, <1>8, <1>9, NextIs DEF Others

LEMMA MacStep ==
  ASSUME Turns, Quiet, MacKnown, [Next]_vars
  PROVE  MacKnown'
<1>1. CASE Boot
  <2>1. mainpc' # "done" /\ UNCHANGED <<g_mac, ppc, resp>>
    BY <1>1 DEF Boot, Start, Load, LoadDies, LoadFails, CanInit, StartWorkers, InitFails, processor
  <2> QED BY <2>1 DEF MacKnown
<1>2. CASE MainClearMac \/ MainSendInit
  <2>1. mainpc' # "done" \/ g_mac' = Mac
    BY <1>2 DEF MainClearMac, MainSendInit
  <2>2. g_mac' \in {Mac, NoMac} /\ UNCHANGED <<ppc, resp>>
    BY <1>2 DEF MainClearMac, MainSendInit, processor
  <2> QED BY <2>1, <2>2 DEF MacKnown
<1>3. CASE ClearMac
  <2>1. g_mac' = NoMac /\ ppc' = "mac"
    BY <1>3 DEF ClearMac
  <2> QED BY <2>1 DEF MacKnown
<1>4. CASE SendInit
  <2>1. g_mac' = Mac /\ ppc' = "idle"
    BY <1>4 DEF SendInit
  <2> QED BY <2>1 DEF MacKnown
<1>5. CASE StartRead
  <2>1. /\ ppc = "start" /\ UNCHANGED <<g_mac, mainpc>> /\ resp'.mac = g_mac /\ Up
    BY <1>5 DEF StartRead, Frame, session
  <2>2. mainpc = "done"
    BY <2>1 DEF Quiet, Up
  <2> QED BY <2>1, <2>2 DEF MacKnown
<1>6. CASE ReadByte
  <2>1. UNCHANGED <<g_mac, mainpc>> /\ ppc = "read"
        /\ resp = Frame("RD_ARR", req.arr, resp.mac, resp.b)
    BY <1>6 DEF ReadByte, Turns, session
  <2>2. \/ ppc' = "idle"
        \/ \E x : ppc' = ppc /\ resp' = [resp EXCEPT !.b = x]
    BY <1>6 DEF ReadByte
  <2>3. ASSUME NEW x, resp' = [resp EXCEPT !.b = x] PROVE resp'.mac = resp.mac
    BY <2>3 DEF Frame
  <2> QED BY <2>1, <2>2, <2>3 DEF MacKnown
<1>7. CASE StartWrite \/ WriteByte \/ SessionCreated \/ Dispatch \/ ArmDies \/ ReadDies
           \/ WriteDies
  <2>1. g_mac' = g_mac /\ mainpc' \in {mainpc, "dead"}
    BY <1>7 DEF StartWrite, WriteByte, SessionCreated, Dispatch, ArmDies, ReadDies, WriteDies, session
  <2>2. CASE StartWrite \/ WriteByte \/ SessionCreated \/ Dispatch
    <3>1. ppc # "mac" /\ ppc' \in {"idle", "write", "start"}
      BY <2>2 DEF StartWrite, WriteByte, SessionCreated, Dispatch, Turns
    <3> QED BY <2>1, <3>1 DEF MacKnown
  <2>3. CASE ArmDies \/ ReadDies \/ WriteDies
    <3>1. mainpc' = "dead" /\ UNCHANGED <<ppc, resp>>
      BY <2>3 DEF ArmDies, ReadDies, WriteDies, processor
    <3> QED BY <2>1, <3>1 DEF MacKnown
  <2> QED BY <1>7, <2>2, <2>3
<1>8. CASE \/ (\E c \in CANs : Reset(c)) \/ LockedByte \/ (\E x \in waiting : Lock(x)) \/ Send
           \/ Arm \/ (\E n \in 0..1 : LoadA0(n)) \/ Receive
           \/ Timeout \/ Beat \/ UNCHANGED vars
  <2>1. UNCHANGED <<g_mac, mainpc, ppc, resp>>
    BY <1>8, ResetIs DEF LockedByte, Lock, Send, Arm, LoadA0, Receive, Timeout, Beat, vars, session, processor
  <2> QED BY <2>1 DEF MacKnown
<1> QED BY <1>1, <1>2, <1>3, <1>4, <1>5, <1>6, <1>7, <1>8, NextIs DEF Others

-----------------------------------------------------------------------------
(* The theorem of types *)

Inv == FormInv /\ Turns /\ Writers /\ Quiet /\ MacKnown

LEMMA InvInit == Init => Inv
<1> SUFFICES ASSUME Init PROVE Inv
  OBVIOUS
<1>1. IsArrays(g_ARR) /\ IsArrays(latest)
  <2>1. g_ARR = [r \in Rows |-> [i \in 0..(RowLen[r] - 1) |-> 0]] /\ latest = g_ARR
    BY DEF Init, StartInit
  <2> QED BY <2>1, Constants DEF IsArrays
<1>2. HalfType /\ seconds \in MinSecs..MaxSecs /\ frames \in 0..MaxFrames
  <2>1. half = <<>> /\ seconds = DefaultSecs /\ frames = 0
    BY DEF Init
  <2>2. Len(<<>>) = 0
    BY EmptySeq
  <2> QED BY <2>1, <2>2, EmptySeq, ArrayAssumption DEF HalfType
<1>3. workers \in Seq([which : CANs, bus : 0..2]) /\ bound \in [CANs -> 0..2]
  BY EmptySeq DEF Init, StartInit
<1>4. Turns
  <2>1. Len(resp.b) <= FRAME_DATA_LEN - 2
    BY EmptySeq, ArrayAssumption DEF Init, NoFrame, Frame
  <2> QED BY <2>1 DEF Init, Turns
<1> QED BY <1>1, <1>2, <1>3, <1>4 DEF Inv, FormInv, Init, StartInit, Writers, Quiet,
   MacKnown

LEMMA InvStep == Inv /\ [Next]_vars => Inv'
BY ArraysStep, HalfStep, RestStep, TurnsStep, WritersStep, QuietStep, MacStep DEF Inv, FormInv

LEMMA Invariant == Spec => []Inv
BY InvInit, InvStep, PTL DEF Spec

(* Whatever file is loaded and whatever the server writes, from any byte    *)
(* on and of any length, the arrays, the interval and the answers keep      *)
(* their form, on every board (uart.c:596-655, 1126).                       *)
THEOREM ArraysTyped == Spec => []TypeOK
<1>1. Inv => TypeOK
  <2> SUFFICES ASSUME Inv PROVE TypeOK
    OBVIOUS
  <2>1. \A r \in Rows : {g_ARR[r], latest[r]} \subseteq [0..(RowLen[r] - 1) -> Bytes]
    BY DEF Inv, FormInv, IsArrays
  <2> QED BY <2>1 DEF Inv, FormInv, Turns, Writers, Quiet, MacKnown, HalfType, TypeOK
<1> QED BY <1>1, Invariant, PTL

(* What StartsAsConfigured says of a step. *)
Configured ==
  /\ mainpc = "load" /\ mainpc' # "load" /\ WellFormed(unread) =>
       /\ mainpc' = "can"
       /\ \A r \in Rows : LET t == RowLine(unread, r).hex \o RowLine(unread, r).letters IN
            \A i \in DOMAIN g_ARR'[r] : g_ARR'[r][i] = IF i < Len(t) THEN t[i + 1] ELSE 0
  /\ mainpc = "can" /\ mainpc' = "threads" => \A c \in Working : bound'[c] = c
  /\ mainpc = "threads" /\ mainpc' = "clear" =>
       IF \E c \in CANs : Marked(g_ARR) = {c}
       THEN \A c \in Marked(g_ARR) : workers' = <<[which |-> c, bus |-> c]>>
       ELSE \E c, d \in CANs : workers' = <<[which |-> c, bus |-> d], [which |-> 2, bus |-> 2]>>

(* Until its threads run main is alone. *)
LEMMA OnlyMain ==
  ASSUME [Next]_vars
  PROVE  Start \/ UNCHANGED starting \/ (mainpc \notin {"load", "can", "threads"}
                                         /\ mainpc' \notin {"load", "can", "threads"})
<1>1. CASE Boot
  BY <1>1 DEF Boot
<1>2. CASE \E c \in CANs : Reset(c)
  BY <1>2, ResetIs DEF Up, session
<1>3. CASE LockedByte \/ \E x \in waiting : Lock(x)
  BY <1>3 DEF LockedByte, Lock, Up, session
<1>4. CASE StartWrite \/ WriteByte \/ Others
  BY <1>4 DEF Others, StartWrite, WriteByte, Send, MainClearMac, MainSendInit, Arm, ArmDies,
     LoadA0, Receive, Dispatch, Timeout, Beat, ClearMac, SendInit, SessionCreated, StartRead,
     ReadByte, ReadDies, WriteDies, vars, session, booting, starting, Up
<1> QED BY <1>1, <1>2, <1>3, <1>4, NextIs

LEMMA LoadStep ==
  ASSUME Quiet, [Next]_vars, mainpc = "load", mainpc' # "load", WellFormed(unread)
  PROVE  /\ mainpc' = "can"
         /\ \A r \in Rows : LET t == RowLine(unread, r).hex \o RowLine(unread, r).letters IN
              \A i \in DOMAIN g_ARR'[r] : g_ARR'[r][i] = IF i < Len(t) THEN t[i + 1] ELSE 0
<1>1. unread \in Files
  BY DEF Quiet
<1>2. Start
  BY OnlyMain DEF starting
<1>3. Len(Buf) = 8
  BY <1>1, BufIs
<1>4. unread # <<>>
  <2> SUFFICES ASSUME unread = <<>> PROVE FALSE
    OBVIOUS
  <2>1. Len(unread) = 0
    BY EmptySeq
  <2>2. Place(unread, 0) = 0
    BY <1>1, PlaceIs
  <2> QED BY <2>1, <2>2 DEF WellFormed
<1>5. Load
  BY <1>2, <1>3, <1>4 DEF Start, LoadDies, LoadFails, CanInit, StartWorkers, InitFails
<1>6. mainpc' = "can"
  BY <1>5 DEF Load
<1> QED BY <1>1, <1>5, <1>6, LoadIs

(* On a board with both CANs each that works has its own interface. *)
OwnBus == mainpc = "threads" => \A c \in Working : bound[c] = c

LEMMA CanStep ==
  ASSUME Present = CANs, CanInit
  PROVE  UNCHANGED g_ARR /\ \A c \in Working : bound'[c] = c
<1>1. PICK any \in 0..2 : bound' = [c \in CANs |-> IF c \in Working THEN Ifindex(c, any) ELSE 0]
  BY DEF CanInit
<1>2. Working \subseteq CANs
  BY DEF Working, Marked
<1>3. \A c \in CANs : Ifindex(c, any) = c
  BY DEF Ifindex
<1> QED BY <1>1, <1>2, <1>3 DEF CanInit

LEMMA OwnBusStep ==
  ASSUME Present = CANs, OwnBus, [Next]_vars
  PROVE  OwnBus'
<1>1. CASE CanInit
  <2>1. g_ARR' = g_ARR /\ \A c \in Working : bound'[c] = c
    BY <1>1, CanStep
  <2> QED BY <2>1 DEF OwnBus, Working, Marked
<1>2. CASE UNCHANGED starting
  <2>1. UNCHANGED <<g_ARR, mainpc, bound>>
    BY <1>2 DEF starting
  <2> QED BY <2>1 DEF OwnBus, Working, Marked
<1>3. CASE ~CanInit /\ ~UNCHANGED starting
  <2>1. mainpc' # "threads"
    BY <1>3, OnlyMain DEF Start, Load, LoadDies, LoadFails, StartWorkers, InitFails
  <2> QED BY <2>1 DEF OwnBus
<1> QED BY <1>1, <1>2, <1>3

LEMMA ThreadsStep ==
  ASSUME OwnBus, StartWorkers
  PROVE  IF \E c \in CANs : Marked(g_ARR) = {c}
         THEN \A c \in Marked(g_ARR) : workers' = <<[which |-> c, bus |-> c]>>
         ELSE \E c, d \in CANs : workers' = <<[which |-> c, bus |-> d], [which |-> 2, bus |-> 2]>>
<1>1. \A c \in Working : bound[c] = c
  BY DEF OwnBus, StartWorkers
<1>2. Marked(g_ARR) \subseteq CANs /\ 1 \in CANs /\ 2 \in CANs
  BY DEF Marked, CANs
<1>3. \A c : CANs # {c}
  BY DEF CANs
<1>4. CASE \E c \in CANs : Marked(g_ARR) = {c}
  <2>1. PICK c \in CANs : Marked(g_ARR) = {c}
    BY <1>4
  <2>2. Working = {c} /\ Working # CANs
    BY <1>3, <2>1 DEF Working
  <2>3. workers' = <<Worker(c, c)>>
    BY <2>2 DEF StartWorkers
  <2>4. bound[c] = c
    BY <1>1, <2>2
  <2> QED BY <1>4, <2>1, <2>3, <2>4 DEF Worker
<1>5. CASE ~\E c \in CANs : Marked(g_ARR) = {c}
  <2>1. ~\E c \in CANs : Working = {c}
    BY <1>3, <1>5 DEF Working
  <2>2. Working = CANs
    BY <2>1 DEF StartWorkers
  <2>3. PICK s, c \in CANs : workers' = <<Worker(s, c), Worker(2, 2)>>
    BY <2>1 DEF StartWorkers
  <2>4. bound[s] = s /\ bound[2] = 2
    BY <1>1, <1>2, <2>2
  <2> QED BY <1>5, <2>3, <2>4 DEF Worker
<1> QED BY <1>4, <1>5

LEMMA StartStep ==
  ASSUME Present = CANs, Quiet, OwnBus, [Next]_vars
  PROVE  Configured
<1>1. CASE mainpc = "load"
  BY <1>1, LoadStep DEF Configured
<1>2. CASE mainpc = "can"
  <2>1. mainpc' = "threads" => CanInit
    BY <1>2, OnlyMain DEF Start, Load, LoadDies, LoadFails, StartWorkers, InitFails, starting
  <2> QED BY <1>2, <2>1, CanStep DEF Configured
<1>3. CASE mainpc = "threads"
  <2>1. mainpc' = "clear" => StartWorkers
    BY <1>3, OnlyMain DEF Start, Load, LoadDies, LoadFails, CanInit, InitFails, starting
  <2> QED BY <1>3, <2>1, ThreadsStep DEF Configured
<1>4. CASE mainpc \notin {"load", "can", "threads"}
  BY <1>4 DEF Configured
<1> QED BY <1>1, <1>2, <1>3, <1>4

(* On a board with both CANs, a well-formed file is loaded: every array     *)
(* holds what stands in its section, for rows and texts of any length and   *)
(* blank lines anywhere; each CAN that works gets a socket on its own       *)
(* interface; and a CAN that alone is marked gets a worker on its bus,      *)
(* while of two only the second is sure to (main.c:144-248, 376-395,        *)
(* can.c:117-186).  The hypothesis is needed: without can0 or can1,         *)
(* can_init goes on with the interface that ioctl left in ifr.              *)
THEOREM StartsConfigured == Present = CANs /\ Spec => StartsAsConfigured
<1>1. CASE Present = CANs
  <2>1. Quiet /\ OwnBus /\ [Next]_vars => [Configured]_starting
    BY <1>1, StartStep
  <2>2. OwnBus /\ [Next]_vars => OwnBus'
    BY <1>1, OwnBusStep
  <2>3. Init => OwnBus
    BY DEF Init, StartInit, OwnBus
  <2>4. Spec => []Quiet
    BY Invariant, PTL DEF Inv
  <2>5. Spec => []OwnBus
    BY <2>2, <2>3, PTL DEF Spec
  <2>6. Spec => [][Configured]_starting
    BY <2>1, <2>4, <2>5, PTL DEF Spec
  <2> QED BY <2>6 DEF StartsAsConfigured, Configured
<1>2. CASE ~(Present = CANs)
  BY <1>2
<1> QED BY <1>1, <1>2

-----------------------------------------------------------------------------
(* The name of the board in A1 *)

(* The letters go on to the first NUL or to the end. *)
LEMMA LettersAre ==
  ASSUME NEW g, IsArrays(g), NEW from \in Nat, NEW to \in Nat, from <= to, to <= RowLen[A1]
  PROVE  LET s == Letters(g, from, to) IN
         /\ s \in Seq(Bytes) /\ Len(s) <= to - from
         /\ \A i \in 1..Len(s) : s[i] = g[A1][from + i - 1] /\ s[i] # 0
         /\ Len(s) < to - from => g[A1][from + Len(s)] = 0
<1> DEFINE n == to - from
           b == [i \in 1..n |-> g[A1][from + i - 1]]
           nul == {i \in DOMAIN b : b[i] = 0}
           s == Letters(g, from, to)
<1>1. n \in Nat /\ RowLen[A1] \in Nat /\ A1 \in Rows
  BY Constants
<1>2. \A i \in 1..n : from + i - 1 \in 0..(RowLen[A1] - 1)
  BY <1>1
<1>3. \A i \in 1..n : g[A1][from + i - 1] \in Bytes
  BY <1>1, <1>2 DEF IsArrays
<1>4. b \in [1..n -> Bytes]
  BY <1>3
<1>5. b \in Seq(Bytes) /\ Len(b) = n
  <2>1. b \in Seq(Bytes)
    BY <1>1, <1>4, SeqDef
  <2>2. DOMAIN b = 1..n /\ DOMAIN b = 1..Len(b) /\ Len(b) \in Nat
    BY <1>4, <2>1, LenProperties
  <2> HIDE DEF b, n
  <2>3. Len(b) = n
    BY <1>1, <2>2
  <2> QED BY <2>1, <2>3
<1>6. s = IF nul = {} THEN b ELSE SubSeq(b, 1, Min(nul) - 1)
  BY DEF Letters
<1>7. \A i \in 1..n : b[i] = g[A1][from + i - 1]
  OBVIOUS
<1>8. CASE nul = {}
  <2>1. \A i \in 1..n : b[i] # 0
    BY <1>8
  <2> HIDE DEF b, n, nul, s
  <2> QED BY <1>1, <1>5, <1>6, <1>7, <1>8, <2>1 DEF n, s
<1>9. CASE nul # {}
  <2> DEFINE m == Min(nul)
  <2>1. nul \subseteq Nat /\ \A i \in nul : i \in 1..n /\ b[i] = 0
    BY <1>1
  <2>2. \E i \in nul : \A j \in nul : i <= j
    <3> HIDE DEF nul
    <3> QED BY <1>9, <2>1, LeastMember
  <2>3. m \in nul /\ \A j \in nul : m <= j
    <3> HIDE DEF nul
    <3> QED BY <2>2 DEF Min
  <2> HIDE DEF m
  <2>4. m \in 1..n /\ b[m] = 0
    BY <2>1, <2>3
  <2>5. \A i \in 1..(m - 1) : i \in 1..n /\ b[i] # 0
    <3> SUFFICES ASSUME NEW i \in 1..(m - 1) PROVE i \in 1..n /\ b[i] # 0
      OBVIOUS
    <3>1. i \in 1..n /\ ~(m <= i)
      BY <1>1, <2>4
    <3>2. i \notin nul
      BY <2>3, <3>1
    <3> QED BY <3>1, <3>2
  <2>6. s = SubSeq(b, 1, m - 1)
    BY <1>6, <1>9 DEF m
  <2> HIDE DEF b, n, nul, s
  <2>7. \A i \in 1..(m - 1) : b[i] \in Bytes
    BY <1>5, <2>5, ElementOfSeq
  <2>8. m - 1 \in Int /\ (m - 1) - 1 + 1 = m - 1 /\ m \in Nat /\ m >= 1
    BY <1>1, <2>4
  <2>9. /\ s \in Seq(Bytes) /\ Len(s) = IF 1 <= m - 1 THEN m - 1 - 1 + 1 ELSE 0
        /\ \A i \in 1..(m - 1 - 1 + 1) : s[i] = b[1 + i - 1]
    BY <2>6, <2>7, <2>8, SubSeqProperties
  <2>10. Len(s) = m - 1
    BY <2>8, <2>9
  <2>11. \A i \in 1..(m - 1) : s[i] = b[i]
    BY <2>8, <2>9
  <2>12. /\ s \in Seq(Bytes) /\ Len(s) <= n
         /\ \A i \in 1..Len(s) : s[i] = g[A1][from + i - 1] /\ s[i] # 0
    <3>1. s \in Seq(Bytes) /\ Len(s) <= n
      BY <1>1, <2>4, <2>9, <2>10
    <3>2. \A i \in 1..Len(s) : i \in 1..n /\ b[i] # 0 /\ s[i] = b[i]
      BY <2>5, <2>10, <2>11
    <3> QED BY <1>7, <3>1, <3>2
  <2>13. g[A1][from + Len(s)] = 0
    <3>1. from + Len(s) = from + m - 1
      BY <2>8, <2>10
    <3> QED BY <1>7, <2>4, <3>1
  <2> QED BY <2>12, <2>13 DEF n, s
<1> QED BY <1>8, <1>9

LEMMA NameEndIs ==
  ASSUME NEW g, IsArrays(g)
  PROVE  /\ NameEnd(g) = IF 3 + g[A1][2] <= RowLen[A1] THEN 3 + g[A1][2] ELSE RowLen[A1]
         /\ g[A1][2] \in Nat /\ NameEnd(g) \in Nat /\ NameEnd(g) >= 3 /\ NameEnd(g) <= RowLen[A1]
<1>1. A1 \in Rows /\ RowLen[A1] \in Nat /\ RowLen[A1] >= 3
  BY Constants
<1>2. 2 \in 0..(RowLen[A1] - 1)
  BY <1>1
<1>3. g[A1][2] \in Nat
  <2>1. g[A1][2] \in Bytes
    BY <1>1, <1>2 DEF IsArrays
  <2> QED BY <2>1, Constants DEF Bytes
<1>4. NameEnd(g) = IF 3 + g[A1][2] <= RowLen[A1] THEN 3 + g[A1][2] ELSE RowLen[A1]
  BY <1>1, <1>3, MinPair DEF NameEnd
<1> QED BY <1>1, <1>3, <1>4

(* With an ID of its fixed length, ID and station are one run of letters.   *)
LEMMA NameIsWhole ==
  ASSUME NEW g, IsArrays(g), NameFits(g)
  PROVE  NameOf(g) = Letters(g, 3, NameEnd(g))
<1> DEFINE e == NameEnd(g)
           s1 == Letters(g, 3, 3 + IDLen)
           s2 == Letters(g, 3 + IDLen, e)
           s == Letters(g, 3, e)
           c == s1 \o s2
<1>1. /\ IDLen \in Nat /\ 3 + IDLen \in Nat /\ 3 + IDLen <= RowLen[A1] /\ RowLen[A1] \in Nat
      /\ 3 \in Nat /\ 3 <= 3 + IDLen
  BY ArrayAssumption, Constants
<1>2. e \in Nat /\ e <= RowLen[A1] /\ 3 + IDLen <= e /\ 3 <= e
  <2>1. g[A1][2] \in Nat /\ IDLen <= g[A1][2]
    BY <1>1, NameEndIs DEF NameFits
  <2> QED BY <1>1, <2>1, NameEndIs
<1> HIDE DEF e
<1>3. /\ s1 \in Seq(Bytes) /\ Len(s1) <= 3 + IDLen - 3
      /\ \A i \in 1..Len(s1) : s1[i] = g[A1][3 + i - 1] /\ s1[i] # 0
      /\ Len(s1) < 3 + IDLen - 3 => g[A1][3 + Len(s1)] = 0
  <2> DEFINE t == 3 + IDLen
  <2>1. t \in Nat /\ 3 \in Nat /\ 3 <= t /\ t <= RowLen[A1]
    BY <1>1
  <2> HIDE DEF t
  <2> DEFINE u == Letters(g, 3, t)
  <2>2. /\ u \in Seq(Bytes) /\ Len(u) <= t - 3
        /\ \A i \in 1..Len(u) : u[i] = g[A1][3 + i - 1] /\ u[i] # 0
        /\ Len(u) < t - 3 => g[A1][3 + Len(u)] = 0
    BY <2>1, LettersAre
  <2>3. s1 = u
    BY DEF t
  <2>4. t - 3 = 3 + IDLen - 3
    BY <1>1 DEF t
  <2> HIDE DEF u, s1
  <2> QED BY <2>2, <2>3, <2>4
<1>4. /\ s2 \in Seq(Bytes) /\ Len(s2) <= e - (3 + IDLen)
      /\ \A i \in 1..Len(s2) : s2[i] = g[A1][3 + IDLen + i - 1] /\ s2[i] # 0
      /\ Len(s2) < e - (3 + IDLen) => g[A1][3 + IDLen + Len(s2)] = 0
  BY <1>1, <1>2, LettersAre
<1>5. /\ s \in Seq(Bytes) /\ Len(s) <= e - 3
      /\ \A i \in 1..Len(s) : s[i] = g[A1][3 + i - 1] /\ s[i] # 0
      /\ Len(s) < e - 3 => g[A1][3 + Len(s)] = 0
  BY <1>2, LettersAre
<1> HIDE DEF s1, s2, s
<1>6. Len(s1) \in Nat /\ Len(s2) \in Nat /\ Len(s) \in Nat
  BY <1>3, <1>4, <1>5, LenProperties
<1>7. Len(s1) = IDLen
  <2> SUFFICES ASSUME Len(s1) < IDLen PROVE FALSE
    BY <1>1, <1>3, <1>6
  <2>1. 3 + Len(s1) \in 3..(2 + IDLen)
    BY <1>1, <1>6
  <2>2. g[A1][3 + Len(s1)] # 0
    BY <2>1 DEF NameFits
  <2>3. 3 + IDLen - 3 = IDLen
    BY <1>1
  <2> QED BY <1>3, <2>2, <2>3
<1>8. /\ c \in Seq(Bytes) /\ Len(c) = IDLen + Len(s2)
      /\ \A i \in 1..(Len(s1) + Len(s2)) : c[i] = IF i <= Len(s1) THEN s1[i] ELSE s2[i - Len(s1)]
  BY <1>3, <1>4, <1>7, ConcatProperties
<1> HIDE DEF c
<1>9. \A i \in 1..Len(c) : c[i] = g[A1][3 + i - 1] /\ c[i] # 0
  <2> SUFFICES ASSUME NEW i \in 1..Len(c) PROVE c[i] = g[A1][3 + i - 1] /\ c[i] # 0
    OBVIOUS
  <2>1. CASE i <= Len(s1)
    <3>1. i \in 1..Len(s1)
      BY <1>1, <1>6, <1>7, <1>8, <2>1
    <3>2. c[i] = s1[i]
      BY <1>6, <1>7, <1>8, <2>1
    <3> QED BY <1>3, <3>1, <3>2
  <2>2. CASE ~(i <= Len(s1))
    <3>1. i - IDLen \in 1..Len(s2) /\ c[i] = s2[i - IDLen]
      BY <1>1, <1>6, <1>7, <1>8, <2>2
    <3>2. 3 + IDLen + (i - IDLen) - 1 = 3 + i - 1
      BY <1>1
    <3> QED BY <1>4, <3>1, <3>2
  <2> QED BY <2>1, <2>2
<1>10. Len(s) = Len(c)
  <2>1. ASSUME Len(s) < Len(c) PROVE FALSE
    <3>1. Len(s) < e - 3 /\ Len(s) + 1 \in 1..Len(c) /\ 3 + (Len(s) + 1) - 1 = 3 + Len(s)
      BY <1>1, <1>2, <1>4, <1>6, <1>8, <2>1
    <3> QED BY <1>5, <1>9, <3>1
  <2>2. ASSUME Len(c) < Len(s) PROVE FALSE
    <3>1. /\ Len(s2) < e - (3 + IDLen) /\ Len(c) + 1 \in 1..Len(s)
          /\ 3 + (Len(c) + 1) - 1 = 3 + IDLen + Len(s2)
      BY <1>1, <1>2, <1>5, <1>6, <1>8, <2>2
    <3> QED BY <1>4, <1>5, <3>1
  <2> QED BY <1>1, <1>6, <1>8, <2>1, <2>2
<1>11. c = s
  BY <1>5, <1>8, <1>9, <1>10, SeqEqual
<1> QED BY <1>11 DEF NameOf, c, s, s1, s2, e

(* Only the bytes from the third on matter. *)
LEMMA NameStays ==
  ASSUME NEW g, IsArrays(g), NEW h, IsArrays(h),
         \A j \in 2..(RowLen[A1] - 1) : h[A1][j] = g[A1][j]
  PROVE  NameOf(h) = NameOf(g)
<1>1. /\ A1 \in Rows /\ RowLen[A1] \in Nat /\ RowLen[A1] >= 3 /\ IDLen \in Nat
      /\ 3 + IDLen <= RowLen[A1]
  BY Constants, ArrayAssumption
<1>2. h[A1][2] = g[A1][2]
  BY <1>1
<1>3. NameEnd(h) = NameEnd(g)
  BY <1>2 DEF NameEnd
<1>4. ASSUME NEW from \in Nat, NEW to \in Nat, from >= 2, to <= RowLen[A1]
      PROVE  Letters(h, from, to) = Letters(g, from, to)
  <2> DEFINE bg == [i \in 1..(to - from) |-> g[A1][from + i - 1]]
             bh == [i \in 1..(to - from) |-> h[A1][from + i - 1]]
  <2>1. ASSUME NEW i \in 1..(to - from) PROVE h[A1][from + i - 1] = g[A1][from + i - 1]
    <3>1. from + i - 1 \in 2..(RowLen[A1] - 1)
      BY <1>1, <1>4
    <3> QED BY <3>1
  <2>2. bh = bg
    BY <2>1
  <2> QED BY <2>2, Zenon DEF Letters
<1>5. 3 \in Nat /\ 3 >= 2 /\ 3 + IDLen \in Nat /\ 3 + IDLen >= 2
  BY <1>1
<1>6. NameEnd(g) \in Nat /\ NameEnd(g) <= RowLen[A1]
  BY NameEndIs
<1>7. Letters(h, 3, 3 + IDLen) = Letters(g, 3, 3 + IDLen)
  BY <1>1, <1>4, <1>5
<1>8. Letters(h, 3 + IDLen, NameEnd(g)) = Letters(g, 3 + IDLen, NameEnd(g))
  BY <1>4, <1>5, <1>6
<1> QED BY <1>3, <1>7, <1>8 DEF NameOf

(* What a reset clears. *)
LEMMA ResetBytes ==
  ASSUME NEW a \in {A4, A5}, Resets(a), IsArrays(g_ARR), IsArrays(latest)
  PROVE  \A q \in Rows : \A j \in 0..(RowLen[q] - 1) :
           /\ g_ARR'[q][j] = IF q = a /\ j = 0 THEN 0 ELSE g_ARR[q][j]
           /\ latest'[q][j] = IF q = a /\ j = 0 THEN 0 ELSE latest[q][j]
BY PutByte, ClearedRows, Constants DEF ClearedRow, Resets

LEMMA NameStep ==
  ASSUME WritesFit, Inv, Inv', NameLoaded, [Next]_vars
  PROVE  NameLoaded'
<1>1. CASE Boot
  <2>1. lpc' = lpc /\ mainpc \in {"load", "can", "threads"}
    BY <1>1 DEF Boot, Start, Load, LoadDies, LoadFails, CanInit, StartWorkers, InitFails, listener
  <2>2. lpc = "arm"
    BY <2>1 DEF Inv, Quiet
  <2> QED BY <2>1, <2>2 DEF NameLoaded
<1>2. CASE Arm
  <2>1. name' = NameOf(g_ARR) /\ g_ARR' = g_ARR
    BY <1>2 DEF Arm, NameOf
  <2> QED BY <2>1 DEF NameLoaded
<1>3. ASSUME UNCHANGED <<lpc, name>>,
             \A j \in 2..(RowLen[A1] - 1) : g_ARR'[A1][j] = g_ARR[A1][j]
      PROVE  NameLoaded'
  <2>1. NameOf(g_ARR') = NameOf(g_ARR)
    BY <1>3, NameStays DEF Inv, FormInv
  <2> QED BY <1>3, <2>1 DEF NameLoaded
<1>0. A1 \in Rows /\ A1 < A4 /\ \A j \in 2..(RowLen[A1] - 1) : j \in 0..(RowLen[A1] - 1)
  BY Constants DEF A1, A4
<1>4. CASE WriteByte
  <2>1. /\ UNCHANGED <<lpc, name>> /\ req.w \in Writes
        /\ Storing(req.w, pos) \/ g_ARR' = g_ARR
    BY <1>4, WriteByteIs DEF listener, Inv
  <2>2. CASE Storing(req.w, pos)
    <3>1. req.w.arr = A1 => pos < 2
      <4>1. /\ req.w.index \in Nat /\ req.w.wr_len \in Nat /\ pos \in Nat /\ pos < req.w.wr_len
            /\ req.w.arr = A1 => req.w.index + req.w.wr_len <= 2
        BY <2>1, <2>2, WriteTyped DEF Storing, Accepted
      <4> QED BY <4>1
    <3>2. ASSUME NEW j \in 2..(RowLen[A1] - 1) PROVE g_ARR'[A1][j] = g_ARR[A1][j]
      <4>1. ~(A1 = req.w.arr /\ j = pos)
        BY <3>1
      <4> QED BY <1>0, <2>2, <4>1, StoringAt
    <3> QED BY <1>3, <2>1, <3>2
  <2>3. CASE g_ARR' = g_ARR
    BY <1>3, <2>1, <2>3
  <2> QED BY <2>1, <2>2, <2>3
<1>10. CASE LockedByte
  <2>1. UNCHANGED <<lpc, name>>
    BY <1>10, LockedByteIs DEF listener, Inv
  <2>2. \A j \in 2..(RowLen[A1] - 1) : g_ARR'[A1][j] = g_ARR[A1][j]
    BY <1>0, <1>10, LockedBelow DEF Inv
  <2> QED BY <1>3, <2>1, <2>2
<1>5. CASE \E c \in CANs : Reset(c)
  <2>1. PICK a \in {A4, A5} : Resets(a)
    BY <1>5, ResetIs
  <2>2. UNCHANGED <<lpc, name>>
    BY <1>5, ResetIs DEF listener
  <2>3. A1 \in Rows /\ A1 # a /\ \A j \in 2..(RowLen[A1] - 1) : j \in 0..(RowLen[A1] - 1)
    BY Constants DEF A1, A4, A5
  <2>4. \A j \in 2..(RowLen[A1] - 1) : g_ARR'[A1][j] = g_ARR[A1][j]
    BY <2>1, <2>3, ResetBytes DEF Inv, FormInv
  <2> QED BY <1>3, <2>2, <2>4
<1>6. CASE Receive
  <2>1. lpc = "select" /\ UNCHANGED <<g_ARR, name>>
    BY <1>6 DEF Receive
  <2> QED BY <2>1 DEF NameLoaded
<1>7. CASE Timeout
  <2>1. lpc = "select" /\ UNCHANGED <<g_ARR, name>>
    BY <1>7 DEF Timeout
  <2> QED BY <2>1 DEF NameLoaded
<1>8. CASE Dispatch \/ Beat
  <2>1. lpc' = "arm"
    BY <1>8 DEF Dispatch, Beat
  <2> QED BY <2>1 DEF NameLoaded
<1>9. CASE StartWrite \/ (\E x \in waiting : Lock(x)) \/ Send \/ MainClearMac \/ MainSendInit
           \/ ArmDies \/ ClearMac \/ SendInit \/ (\E n \in 0..1 : LoadA0(n)) \/ SessionCreated
           \/ StartRead \/ ReadByte \/ ReadDies \/ WriteDies \/ UNCHANGED vars
  <2>1. UNCHANGED <<lpc, name, g_ARR>>
    BY <1>9 DEF StartWrite, Lock, Send, MainClearMac, MainSendInit, ArmDies, ClearMac, SendInit,
       LoadA0, SessionCreated, StartRead, ReadByte, ReadDies, WriteDies, vars, listener
  <2> QED BY <2>1 DEF NameLoaded
<1> QED BY <1>1, <1>2, <1>4, <1>5, <1>6, <1>7, <1>8, <1>9, <1>10, NextIs DEF Others

-----------------------------------------------------------------------------
(* The arrays hold what the server wrote last *)

(* Each turn of a write carries out one byte of it. *)
LEMMA Catches ==
  ASSUME WritesFit, NEW w, NEW p, Storing(w, p), Meant(latest, w),
         NEW r \in Rows, NEW i \in 0..(RowLen[r] - 1),
         ~ToWrite(TRUE, w, p + 1, r, i),
         ToWrite(TRUE, w, p, r, i) \/ g_ARR[r][i] = latest[r][i]
  PROVE  g_ARR'[r][i] = latest[r][i]
<1>1. w \in Writes /\ p \in Nat /\ p < w.wr_len
  BY DEF Storing
<1>2. w.wr_len \in Nat /\ i \in Nat
  BY <1>1, WriteTyped, Constants
<1>3. g_ARR'[r][i] = IF r = w.arr /\ i = p THEN w.data[p + 1] ELSE g_ARR[r][i]
  BY StoringAt
<1>4. CASE r = w.arr /\ i = p
  <2>1. i < w.wr_len
    BY <1>1, <1>4
  <2>2. latest[r][i] = w.data[p + 1]
    BY <1>4, <2>1 DEF Meant
  <2> QED BY <1>3, <1>4, <2>2
<1>5. CASE ~(r = w.arr /\ i = p)
  <2>1. r = w.arr => i \notin (p + 1)..(w.wr_len - 1)
    BY DEF ToWrite
  <2>2. ~ToWrite(TRUE, w, p, r, i)
    BY <1>1, <1>2, <1>5, <2>1 DEF ToWrite
  <2> QED BY <1>3, <1>5, <2>2
<1> QED BY <1>4, <1>5

(* Behind its last byte a write has nothing to carry out. *)
LEMMA NothingAhead ==
  ASSUME NEW on, NEW w \in Writes, NEW p \in Nat, ~(p < w.wr_len), NEW r, NEW i
  PROVE  ~ToWrite(on, w, p, r, i)
<1>1. w.wr_len \in Nat
  BY WriteTyped
<1>2. i \notin p..(w.wr_len - 1)
  BY <1>1
<1> QED BY <1>2 DEF ToWrite

(* The bytes a write that fits is to change: the first wr_len of its array. *)
LEMMA OverwriteAt ==
  ASSUME WritesFit, IsArrays(latest), NEW w \in Writes, Accepted(w),
         NEW q \in Rows, NEW j \in 0..(RowLen[q] - 1)
  PROVE  Overwrite(w)[q][j] = IF q = w.arr /\ j < w.wr_len THEN w.data[j + 1] ELSE latest[q][j]
<1>1. Overwrite(w)[q][j] = IF q = w.arr /\ j \in w.index..(w.index + w.wr_len - 1)
                           THEN w.data[j - w.index + 1] ELSE latest[q][j]
  BY OverwriteIs
<1>2. w.index = 0 /\ w.wr_len \in Nat /\ j \in Nat
  BY WriteTyped, Constants DEF WritesFit
<1>3. (j \in w.index..(w.index + w.wr_len - 1) <=> j < w.wr_len) /\ j - w.index + 1 = j + 1
  BY <1>2
<1> QED BY <1>1, <1>3

LEMMA NowMeant ==
  ASSUME WritesFit, IsArrays(latest), NEW w \in Writes, Accepted(w)
  PROVE  /\ Meant(Overwrite(w), w)
         /\ \A v \in Writes : v.arr # w.arr /\ Meant(latest, v) => Meant(Overwrite(w), v)
<1>1. \A v \in Writes : v.arr \in Rows
  BY WriteTyped
<1> QED BY <1>1, OverwriteAt DEF Meant

(* A new write is ahead of the arrays by all its bytes. *)
LEMMA NewAhead ==
  ASSUME WritesFit, IsArrays(latest), NEW w \in Writes, Accepted(w),
         NEW r \in Rows, NEW i \in 0..(RowLen[r] - 1),
         ~ToWrite(TRUE, w, w.index, r, i)
  PROVE  Overwrite(w)[r][i] = latest[r][i]
<1>1. w.index = 0 /\ w.wr_len \in Nat /\ i \in Nat
  BY WriteTyped, Constants DEF WritesFit
<1>2. ~(r = w.arr /\ i < w.wr_len)
  BY <1>1 DEF ToWrite
<1> QED BY <1>2, OverwriteAt

LEMMA NewWrite ==
  ASSUME WritesFit, Inv, WritesCurrent, StartWrite
  PROVE  WritesCurrent'
<1>1. /\ ppc = "start" /\ req \in AllRequests /\ req.op = "WR"
      /\ UNCHANGED <<g_ARR, req, locked, lw, lpos>>
  BY DEF StartWrite, Inv, Turns
<1>2. IsArrays(latest) /\ req.w \in Writes /\ (locked => lw \in Writes /\ lw.arr \in {A4, A5})
  BY <1>1, RequestIs DEF Inv, FormInv, Writers
<1>3. ASSUME NEW r \in Rows, NEW i \in 0..(RowLen[r] - 1), ~ToWrite(locked, lw, lpos, r, i)
      PROVE  g_ARR[r][i] = latest[r][i]
  <2>1. ~ToWrite(ppc = "write", req.w, pos, r, i)
    BY <1>1 DEF ToWrite
  <2>2. ~Ahead(r, i)
    BY <1>3, <2>1 DEF Ahead
  <2> QED BY <2>2 DEF WritesCurrent
<1>4. CASE ppc' = "idle" /\ latest' = latest
  <2>1. ASSUME NEW r \in Rows, NEW i \in 0..(RowLen[r] - 1), ~Ahead(r, i)'
        PROVE  g_ARR'[r][i] = latest'[r][i]
    <3>1. ~ToWrite(locked, lw, lpos, r, i)
      BY <1>1, <2>1 DEF Ahead
    <3> QED BY <1>1, <1>3, <1>4, <3>1
  <2>2. locked' => Meant(latest', lw')
    BY <1>1, <1>4, Zenon DEF WritesCurrent
  <2> QED BY <1>4, <2>1, <2>2 DEF WritesCurrent
<1>5. CASE /\ ppc' = "write" /\ pos' = req.w.index /\ latest' = Overwrite(req.w)
           /\ Accepted(req.w) /\ req.w.arr \notin {A4, A5}
  <2>1. ASSUME NEW r \in Rows, NEW i \in 0..(RowLen[r] - 1), ~Ahead(r, i)'
        PROVE  g_ARR'[r][i] = latest'[r][i]
    <3>1. ~ToWrite(locked, lw, lpos, r, i) /\ ~ToWrite(TRUE, req.w, req.w.index, r, i)
      BY <1>1, <1>5, <2>1 DEF Ahead, ToWrite
    <3>2. Overwrite(req.w)[r][i] = latest[r][i]
      BY <1>2, <1>5, <3>1, NewAhead
    <3> QED BY <1>1, <1>3, <1>5, <3>1, <3>2
  <2>2. Meant(latest', req'.w)
    BY <1>1, <1>2, <1>5, NowMeant
  <2>3. locked' => Meant(latest', lw')
    <3> SUFFICES ASSUME locked PROVE Meant(latest', lw)
      BY <1>1, Zenon
    <3>1. lw \in Writes /\ lw.arr # req.w.arr /\ Meant(latest, lw)
      BY <1>2, <1>5 DEF WritesCurrent
    <3> QED BY <1>2, <1>5, <3>1, NowMeant
  <2> QED BY <2>1, <2>2, <2>3 DEF WritesCurrent
<1> QED BY <1>4, <1>5 DEF StartWrite

LEMMA LockWrite ==
  ASSUME WritesFit, Inv, WritesCurrent, NEW x \in waiting, Lock(x)
  PROVE  WritesCurrent'
<1>1. /\ ~locked /\ lw' = x.w /\ lpos' = x.w.index /\ latest' = Overwrite(x.w)
      /\ x.w \in Writes /\ Accepted(x.w) /\ x.w.arr \in {A4, A5}
      /\ UNCHANGED <<g_ARR, ppc, req, pos>>
  BY LockIs DEF Inv, processor
<1>2. IsArrays(latest)
  BY DEF Inv, FormInv
<1>3. ASSUME NEW r \in Rows, NEW i \in 0..(RowLen[r] - 1), ~Ahead(r, i)'
      PROVE  g_ARR'[r][i] = latest'[r][i]
  <2>1. locked' = TRUE
    BY LockIs DEF Inv
  <2>2. ~ToWrite(ppc = "write", req.w, pos, r, i) /\ ~ToWrite(TRUE, x.w, x.w.index, r, i)
    BY <1>1, <1>3, <2>1 DEF Ahead
  <2>3. ~ToWrite(locked, lw, lpos, r, i)
    BY <1>1, Zenon DEF ToWrite
  <2>4. ~Ahead(r, i)
    BY <2>2, <2>3, Zenon DEF Ahead
  <2>5. g_ARR[r][i] = latest[r][i]
    BY <2>4 DEF WritesCurrent
  <2>6. Overwrite(x.w)[r][i] = latest[r][i]
    BY <1>1, <1>2, <2>2, NewAhead
  <2> QED BY <1>1, <2>5, <2>6
<1>4. Meant(latest', lw')
  BY <1>1, <1>2, NowMeant
<1>5. ppc' = "write" => Meant(latest', req'.w)
  <2> SUFFICES ASSUME ppc = "write" PROVE Meant(latest', req.w)
    BY <1>1
  <2>1. req.w \in Writes /\ req.w.arr # x.w.arr /\ Meant(latest, req.w)
    BY <1>1, RequestIs DEF Inv, Turns, WritesCurrent
  <2> QED BY <1>1, <1>2, <2>1, NowMeant
<1> QED BY <1>3, <1>4, <1>5 DEF WritesCurrent

LEMMA ByteWrites ==
  ASSUME WritesFit, Inv, WritesCurrent, WriteByte
  PROVE  WritesCurrent'
<1>1. /\ ppc = "write" /\ req.w \in Writes /\ pos \in Nat
      /\ UNCHANGED <<req, latest, locked, lw, lpos>>
  BY WriteByteIs DEF Inv, history, locker
<1>2. Meant(latest', req'.w) /\ (locked' => Meant(latest', lw'))
  <2>1. Meant(latest, req.w) /\ (locked => Meant(latest, lw))
    BY <1>1 DEF WritesCurrent
  <2> QED BY <1>1, <2>1, Zenon
<1>3. CASE Storing(req.w, pos) /\ pos' = pos + 1 /\ ppc' = "write"
  <2>1. ASSUME NEW r \in Rows, NEW i \in 0..(RowLen[r] - 1), ~Ahead(r, i)'
        PROVE  g_ARR'[r][i] = latest'[r][i]
    <3>1. ~ToWrite(TRUE, req.w, pos + 1, r, i) /\ ~ToWrite(locked, lw, lpos, r, i)
      BY <1>1, <1>3, <2>1 DEF Ahead
    <3>2. Ahead(r, i) => ToWrite(TRUE, req.w, pos, r, i)
      BY <1>1, <3>1 DEF Ahead
    <3>3. ToWrite(TRUE, req.w, pos, r, i) \/ g_ARR[r][i] = latest[r][i]
      BY <3>2, Zenon DEF WritesCurrent
    <3>4. Meant(latest, req.w)
      BY <1>1 DEF WritesCurrent
    <3>5. g_ARR'[r][i] = latest[r][i]
      BY <1>3, <3>1, <3>3, <3>4, Catches
    <3> QED BY <1>1, <3>5
  <2> QED BY <1>2, <2>1 DEF WritesCurrent
<1>4. CASE ~(pos < req.w.wr_len) /\ ppc' = "idle" /\ UNCHANGED <<g_ARR, pos>>
  <2>1. ASSUME NEW r \in Rows, NEW i \in 0..(RowLen[r] - 1), ~Ahead(r, i)'
        PROVE  g_ARR'[r][i] = latest'[r][i]
    <3>1. ~ToWrite(locked, lw, lpos, r, i)
      BY <1>1, <2>1 DEF Ahead
    <3>2. ~ToWrite(ppc = "write", req.w, pos, r, i)
      BY <1>1, <1>4, NothingAhead
    <3>3. ~Ahead(r, i)
      BY <3>1, <3>2, Zenon DEF Ahead
    <3> QED BY <1>1, <1>4, <3>3 DEF WritesCurrent
  <2> QED BY <1>2, <2>1 DEF WritesCurrent
<1> QED BY <1>3, <1>4, WriteByteIs DEF Inv

LEMMA LockedWrites ==
  ASSUME WritesFit, Inv, WritesCurrent, LockedByte
  PROVE  WritesCurrent'
<1>1. /\ locked /\ lw \in Writes /\ lpos \in Nat /\ UNCHANGED <<ppc, req, pos, latest>>
  BY LockedByteIs DEF Inv, history, processor
<1>2. /\ ppc' = "write" => Meant(latest', req'.w)
      /\ Meant(latest, lw)
  BY <1>1 DEF WritesCurrent
<1>3. CASE Storing(lw, lpos) /\ lpos' = lpos + 1 /\ locked' = locked /\ lw' = lw
  <2>1. ASSUME NEW r \in Rows, NEW i \in 0..(RowLen[r] - 1), ~Ahead(r, i)'
        PROVE  g_ARR'[r][i] = latest'[r][i]
    <3>1. ~ToWrite(TRUE, lw, lpos + 1, r, i) /\ ~ToWrite(ppc = "write", req.w, pos, r, i)
      BY <1>1, <1>3, <2>1 DEF Ahead, ToWrite
    <3>2. Ahead(r, i) => ToWrite(TRUE, lw, lpos, r, i)
      BY <1>1, <3>1, Zenon DEF Ahead, ToWrite
    <3>3. ToWrite(TRUE, lw, lpos, r, i) \/ g_ARR[r][i] = latest[r][i]
      BY <3>2, Zenon DEF WritesCurrent
    <3>4. g_ARR'[r][i] = latest[r][i]
      BY <1>2, <1>3, <3>1, <3>3, Catches
    <3> QED BY <1>1, <3>4
  <2>2. locked' => Meant(latest', lw')
    BY <1>1, <1>2, <1>3, Zenon
  <2> QED BY <1>2, <2>1, <2>2 DEF WritesCurrent
<1>4. CASE locked' = FALSE /\ ~(lpos < lw.wr_len) /\ UNCHANGED g_ARR
  <2>1. ASSUME NEW r \in Rows, NEW i \in 0..(RowLen[r] - 1), ~Ahead(r, i)'
        PROVE  g_ARR'[r][i] = latest'[r][i]
    <3>1. ~ToWrite(ppc = "write", req.w, pos, r, i)
      BY <1>1, <2>1 DEF Ahead
    <3>2. ~ToWrite(locked, lw, lpos, r, i)
      BY <1>1, <1>4, NothingAhead
    <3>3. ~Ahead(r, i)
      BY <3>1, <3>2, Zenon DEF Ahead
    <3> QED BY <1>1, <1>4, <3>3 DEF WritesCurrent
  <2> QED BY <1>2, <1>4, <2>1 DEF WritesCurrent
<1> QED BY <1>3, <1>4, LockedByteIs DEF Inv

LEMMA WritesStep ==
  ASSUME WritesFit, Inv, Inv', WritesCurrent, [Next]_vars
  PROVE  WritesCurrent'
<1>1. CASE Boot
  <2>1. /\ latest' = g_ARR' /\ ppc' = ppc /\ locked' = locked
        /\ mainpc \in {"load", "can", "threads"}
    BY <1>1 DEF Boot, Start, Load, LoadDies, LoadFails, CanInit, StartWorkers, InitFails,
                processor, locker
  <2>2. ppc = "idle" /\ ~locked
    BY <2>1 DEF Inv, Quiet
  <2>3. ~locked'
    BY <2>1, <2>2, Zenon
  <2> QED BY <2>1, <2>2, <2>3 DEF WritesCurrent
<1>2. CASE \E c \in CANs : Reset(c)
  <2>1. PICK a \in {A4, A5} : Resets(a)
    BY <1>2, ResetIs
  <2>2. UNCHANGED <<ppc, req, pos, locked, lw, lpos>>
    BY <1>2, ResetIs DEF processor, locker
  <2>3. \A q \in Rows : \A j \in 0..(RowLen[q] - 1) :
          /\ g_ARR'[q][j] = IF q = a /\ j = 0 THEN 0 ELSE g_ARR[q][j]
          /\ latest'[q][j] = IF q = a /\ j = 0 THEN 0 ELSE latest[q][j]
    BY <2>1, ResetBytes DEF Inv, FormInv
  <2>4. ASSUME NEW r \in Rows, NEW i \in 0..(RowLen[r] - 1), ~Ahead(r, i)'
        PROVE  g_ARR'[r][i] = latest'[r][i]
    <3>1. ~Ahead(r, i)
      BY <2>2, <2>4, Zenon DEF Ahead
    <3> QED BY <2>3, <3>1 DEF WritesCurrent
  <2>5. ppc' = "write" => Meant(latest', req'.w)
    <3> SUFFICES ASSUME ppc = "write" PROVE Meant(latest', req.w)
      BY <2>2
    <3>1. req.w \in Writes /\ req.w.arr # a /\ Meant(latest, req.w)
      BY RequestIs DEF Inv, Turns, WritesCurrent
    <3>2. req.w.arr \in Rows
      BY <3>1, WriteTyped
    <3> QED BY <2>3, <3>1, <3>2 DEF Meant
  <2>6. ~locked'
    BY <2>1, <2>2, Zenon DEF Resets
  <2> QED BY <2>4, <2>5, <2>6 DEF WritesCurrent
<1>3. CASE Others
  <2>1. UNCHANGED <<g_ARR, latest, locked, lw, lpos>>
    BY <1>3, OthersKeepArrays DEF Others, Send, MainClearMac, MainSendInit, Arm, ArmDies, LoadA0,
       Receive, Dispatch, Timeout, Beat, ClearMac, SendInit, SessionCreated, StartRead, ReadByte,
       ReadDies, WriteDies, vars, locker
  <2>2. IF ppc = "write" THEN UNCHANGED <<ppc, req, pos>> ELSE ppc' # "write"
    BY <1>3 DEF Others, Send, MainClearMac, MainSendInit, Arm, ArmDies, LoadA0, Receive, Dispatch,
       Timeout, Beat, ClearMac, SendInit, SessionCreated, StartRead, ReadByte, ReadDies, WriteDies,
       vars, processor, Inv, Turns
  <2>3. ASSUME NEW r, NEW i, ~Ahead(r, i)' PROVE ~Ahead(r, i)
    <3>1. ~ToWrite(locked, lw, lpos, r, i)
      BY <2>1, <2>3, Zenon DEF Ahead
    <3>2. ~ToWrite(ppc = "write", req.w, pos, r, i)
      BY <2>2, <2>3 DEF Ahead, ToWrite
    <3> QED BY <3>1, <3>2, Zenon DEF Ahead
  <2>4. \A r \in Rows : \A i \in 0..(RowLen[r] - 1) : ~Ahead(r, i)' => g_ARR'[r][i] = latest'[r][i]
    BY <2>1, <2>3 DEF WritesCurrent
  <2>5. ppc' = "write" => Meant(latest', req'.w)
    BY <2>1, <2>2 DEF WritesCurrent
  <2>6. locked' => Meant(latest', lw')
    BY <2>1, Zenon DEF WritesCurrent
  <2> QED BY <2>4, <2>5, <2>6, Zenon DEF WritesCurrent
<1> QED BY <1>1, <1>2, <1>3, NewWrite, LockWrite, ByteWrites, LockedWrites, NextIs

-----------------------------------------------------------------------------
(* What is read is the array as it was at some time *)

(* The bytes of the array behind each other, row by row. *)
Rowwise(w, g, a, n) ==
  /\ w \in Seq(Bytes) /\ Len(w) = Lines(a) * n
  /\ \A k \in 1..n : w[k] = IF k <= RowLen[a] THEN g[a][k - 1] ELSE 0
  /\ Lines(a) = 2 => \A k \in 1..n : w[n + k] = IF k <= RowLen[a + 1] THEN g[a + 1][k - 1] ELSE 0

LEMMA WholeIs ==
  ASSUME NEW g, IsArrays(g), NEW a \in Heads, NEW n \in Nat \ {0}
  PROVE  Rowwise(Whole(g, a, n), g, a, n)
<1> DEFINE row(r) == [i \in 1..n |-> IF i <= RowLen[r] THEN g[r][i - 1] ELSE 0]
<1>1. ASSUME NEW r \in Rows
      PROVE  /\ row(r) \in Seq(Bytes) /\ Len(row(r)) = n
             /\ \A k \in 1..n : row(r)[k] = IF k <= RowLen[r] THEN g[r][k - 1] ELSE 0
  <2>1. ASSUME NEW i \in 1..n PROVE (IF i <= RowLen[r] THEN g[r][i - 1] ELSE 0) \in Bytes
    <3>1. RowLen[r] \in Nat /\ 0 \in Bytes /\ g[r] \in [0..(RowLen[r] - 1) -> Bytes]
      BY Constants DEF IsArrays
    <3>2. i <= RowLen[r] => i - 1 \in 0..(RowLen[r] - 1)
      BY <3>1
    <3> QED BY <3>1, <3>2
  <2>2. row(r) \in [1..n -> Bytes]
    BY <2>1
  <2>3. row(r) \in Seq(Bytes)
    BY <2>2, IsASeq
  <2>4. DOMAIN row(r) = 1..n
    OBVIOUS
  <2>5. Len(row(r)) = n
    <3> HIDE DEF row
    <3>1. Len(row(r)) \in Nat /\ DOMAIN row(r) = 1..Len(row(r))
      BY <2>3, LenProperties
    <3> QED BY <2>4, <3>1
  <2> QED BY <2>3, <2>5
<1>2. a \in Rows /\ Lines(a) \in {1, 2} /\ (Lines(a) = 2 => a + 1 \in Rows)
  BY HeadIsRow
<1>3. Whole(g, a, n) = IF Lines(a) = 1 THEN row(a) ELSE row(a) \o row(a + 1)
  BY DEF Whole
<1> HIDE DEF row
<1>4. CASE Lines(a) = 1
  BY <1>1, <1>2, <1>3, <1>4 DEF Rowwise
<1>5. CASE Lines(a) = 2
  <2> DEFINE u == row(a)
             v == row(a + 1)
  <2>1. /\ u \in Seq(Bytes) /\ v \in Seq(Bytes) /\ Len(u) = n /\ Len(v) = n
        /\ \A k \in 1..n : u[k] = IF k <= RowLen[a] THEN g[a][k - 1] ELSE 0
        /\ \A k \in 1..n : v[k] = IF k <= RowLen[a + 1] THEN g[a + 1][k - 1] ELSE 0
    BY <1>1, <1>2, <1>5
  <2>2. Whole(g, a, n) = u \o v
    BY <1>3, <1>5
  <2> HIDE DEF u, v
  <2>3. /\ u \o v \in Seq(Bytes) /\ Len(u \o v) = n + n
        /\ \A k \in 1..(n + n) : (u \o v)[k] = IF k <= n THEN u[k] ELSE v[k - n]
    <3>1. /\ u \o v \in Seq(Bytes) /\ Len(u \o v) = Len(u) + Len(v)
          /\ \A k \in 1..(Len(u) + Len(v)) :
               (u \o v)[k] = IF k <= Len(u) THEN u[k] ELSE v[k - Len(u)]
      BY <2>1, ConcatProperties
    <3>2. Len(u) = n /\ Len(v) = n
      BY <2>1
    <3> QED BY <3>1, <3>2, Zenon
  <2>4. \A k \in 1..n : (u \o v)[k] = u[k] /\ (u \o v)[n + k] = v[k]
    <3> SUFFICES ASSUME NEW k \in 1..n PROVE (u \o v)[k] = u[k] /\ (u \o v)[n + k] = v[k]
      OBVIOUS
    <3>1. k \in 1..(n + n) /\ k <= n
      OBVIOUS
    <3>2. n + k \in 1..(n + n) /\ ~(n + k <= n) /\ (n + k) - n = k
      OBVIOUS
    <3>3. (u \o v)[k] = u[k]
      BY <2>3, <3>1
    <3>4. (u \o v)[n + k] = v[(n + k) - n]
      BY <2>3, <3>2, Zenon
    <3> QED BY <3>2, <3>3, <3>4
  <2>5. Lines(a) * n = n + n
    BY <1>5
  <2> QED BY <2>1, <2>2, <2>3, <2>4, <2>5 DEF Rowwise
<1> QED BY <1>2, <1>4, <1>5

(* Byte k of an answer is byte k of the array. *)
LEMMA ByteOfWhole ==
  ASSUME NEW g, IsArrays(g), NEW a \in Heads, NEW n \in Nat \ {0}, NEW k \in Nat,
         k < Lines(a) * n, a + k \div n \in Rows, k % n \in 0..(RowLen[a + k \div n] - 1)
  PROVE  Whole(g, a, n)[k + 1] = g[a + k \div n][k % n]
<1>1. a \in Int /\ Lines(a) \in {1, 2}
  BY HeadIsRow DEF Rows
<1>2. CASE k < n
  <2>1. k \div n = 0 /\ k % n = k
    BY <1>2, Division
  <2>2. a + k \div n = a
    BY <1>1, <2>1
  <2>3. a \in Rows /\ RowLen[a] \in Nat /\ k \in 0..(RowLen[a] - 1)
    BY <2>1, <2>2, Constants
  <2>4. k + 1 \in 1..n /\ k + 1 <= RowLen[a] /\ k + 1 - 1 = k
    BY <1>2, <2>3
  <2>5. Whole(g, a, n)[k + 1] = g[a][(k + 1) - 1]
    <3> DEFINE m == k + 1
    <3>1. m \in 1..n /\ m <= RowLen[a]
      BY <2>4
    <3> HIDE DEF m
    <3>2. Rowwise(Whole(g, a, n), g, a, n)
      BY WholeIs
    <3>3. Whole(g, a, n)[m] = g[a][m - 1]
      BY <3>1, <3>2, Zenon DEF Rowwise
    <3> QED BY <3>3 DEF m
  <2> QED BY <2>1, <2>2, <2>4, <2>5
<1>3. CASE n <= k
  <2>0. Lines(a) = 2
    BY <1>1, <1>3
  <2>1. k < 2 * n
    BY <2>0
  <2>2. k \div n = 1 /\ k % n = k - n
    BY <1>3, <2>1, Division
  <2>3. a + k \div n = a + 1
    BY <1>1, <2>2
  <2>4. a + 1 \in Rows /\ RowLen[a + 1] \in Nat /\ k - n \in 0..(RowLen[a + 1] - 1)
    BY <2>2, <2>3, Constants
  <2>5. /\ k - n + 1 \in 1..n /\ k - n + 1 <= RowLen[a + 1]
        /\ (k - n + 1) - 1 = k - n /\ n + (k - n + 1) = k + 1
    BY <1>3, <2>1, <2>4
  <2>6. Whole(g, a, n)[n + (k - n + 1)] = g[a + 1][(k - n + 1) - 1]
    <3> DEFINE m == k - n + 1
    <3>1. m \in 1..n /\ m <= RowLen[a + 1]
      BY <2>5
    <3> HIDE DEF m
    <3>2. Whole(g, a, n)[n + m] = g[a + 1][m - 1]
      BY <2>0, <3>1, WholeIs DEF Rowwise
    <3> QED BY <3>2 DEF m
  <2> QED BY <2>2, <2>3, <2>5, <2>6
<1> QED BY <1>2, <1>3

(* What is done to A4 or A5 touches no other array, and a worker's reset    *)
(* only the first byte.                                                     *)
LEMMA WholeStays ==
  ASSUME NEW r \in {A4, A5}, IsArrays(latest), IsArrays(latest'), NEW a \in Heads,
         NEW n \in Nat \ {0}, NEW first \in BOOLEAN,
         \A q \in Rows : \A j \in 0..(RowLen[q] - 1) :
           q # r \/ (first /\ j # 0) => latest'[q][j] = latest[q][j]
  PROVE  /\ a # r => Whole(latest', a, n) = Whole(latest, a, n)
         /\ first => Agree(Whole(latest, a, n), Whole(latest', a, n), a)
<1> DEFINE w == Whole(latest, a, n)
           v == Whole(latest', a, n)
<1>1. /\ a \in Rows /\ Lines(a) \in {1, 2}
      /\ (Lines(a) = 2 => a + 1 \in Rows /\ a + 1 # r /\ a # r)
      /\ \A q \in Rows : RowLen[q] \in Nat
  BY HeadIsRow, Constants DEF A2, A3, A4, A5
<1>2. Rowwise(w, latest, a, n) /\ Rowwise(v, latest', a, n)
  BY WholeIs
<1> HIDE DEF w, v
<1>4. ASSUME NEW k \in 1..n, a # r \/ (first /\ k # 1) PROVE v[k] = w[k]
  <2>1. CASE k <= RowLen[a]
    <3>1. k - 1 \in 0..(RowLen[a] - 1) /\ (a # r \/ (first /\ k - 1 # 0))
      BY <1>1, <1>4, <2>1
    <3>2. latest'[a][k - 1] = latest[a][k - 1]
      BY <1>1, <3>1
    <3> QED BY <1>2, <2>1, <3>2 DEF Rowwise
  <2>2. CASE ~(k <= RowLen[a])
    BY <1>2, <2>2 DEF Rowwise
  <2> QED BY <2>1, <2>2
<1>5. ASSUME NEW k \in 1..n, Lines(a) = 2 PROVE v[n + k] = w[n + k]
  <2>1. CASE k <= RowLen[a + 1]
    <3>1. k - 1 \in 0..(RowLen[a + 1] - 1)
      BY <1>1, <1>5, <2>1
    <3>2. latest'[a + 1][k - 1] = latest[a + 1][k - 1]
      BY <1>1, <1>5, <3>1
    <3> QED BY <1>2, <1>5, <2>1, <3>2 DEF Rowwise
  <2>2. CASE ~(k <= RowLen[a + 1])
    BY <1>2, <1>5, <2>2 DEF Rowwise
  <2> QED BY <2>1, <2>2
<1>6. ASSUME NEW k \in 1..Len(v), a # r \/ (first /\ k # 1) PROVE w[k] = v[k]
  <2>1. CASE k <= n
    <3>1. k \in 1..n
      BY <2>1
    <3> QED BY <1>4, <1>6, <3>1
  <2>2. CASE ~(k <= n)
    <3>0. Len(v) = Lines(a) * n /\ k <= Len(v) /\ k \in Int
      BY <1>1, <1>2 DEF Rowwise
    <3>1. Lines(a) = 2
      BY <1>1, <2>2, <3>0
    <3>2. k <= 2 * n
      BY <3>0, <3>1
    <3>3. k - n \in 1..n /\ n + (k - n) = k
      BY <2>2, <3>0, <3>2
    <3>4. v[n + (k - n)] = w[n + (k - n)]
      BY <1>5, <3>1, <3>3
    <3> QED BY <3>3, <3>4
  <2> QED BY <2>1, <2>2
<1>7. a # r => v = w
  <2>1. w \in Seq(Bytes) /\ v \in Seq(Bytes) /\ Len(v) = Len(w)
    BY <1>2 DEF Rowwise
  <2> QED BY <1>6, <2>1, SeqEqual
<1>8. first => Agree(w, v, a)
  <2>1. a = r => a \in {A4, A5}
    OBVIOUS
  <2> QED BY <1>6, <2>1 DEF Agree
<1> QED BY <1>7, <1>8 DEF w, v

(* The next byte read is that of the array as the server wrote it last.     *)
LEMMA NextByte ==
  ASSUME Inv, WritesCurrent, ppc = "read", Len(resp.b) < Lines(req.arr) * pos,
         Len(resp.b) < FRAME_DATA_LEN - 2, locked => lw.arr # req.arr
  PROVE  /\ g_ARR[req.arr + Len(resp.b) \div pos][Len(resp.b) % pos] \in Bytes
         /\ Whole(latest, req.arr, pos)[Len(resp.b) + 1]
              = g_ARR[req.arr + Len(resp.b) \div pos][Len(resp.b) % pos]
<1> DEFINE k == Len(resp.b)
           a == req.arr
<1>1. /\ req \in AllRequests /\ req.op = "RD" /\ resp.b \in Seq(Bytes)
      /\ pos \in Nat \ {0} /\ pos = Taken(a, g_ARR)
  BY DEF Inv, Turns
<1>2. a \in Heads
  BY <1>1, RequestIs
<1>3. k \in Nat
  BY <1>1, LenProperties
<1> HIDE DEF k, a
<1>4. k < Lines(a) * pos /\ k < FRAME_DATA_LEN - 2
  BY DEF k, a
<1> DEFINE r == a + k \div pos
           i == k % pos
<1>5. r \in Rows /\ i \in 0..(RowLen[r] - 1)
  BY <1>1, <1>2, <1>3, <1>4, ByteInRow
<1>6. IsArrays(latest)
  BY DEF Inv, FormInv
<1>10. ~Ahead(r, i)
  <2>1. r = a \/ (r \notin {A4, A5})
    <3>1. a \in Int /\ Lines(a) \in {1, 2}
      BY <1>2, HeadIsRow DEF Rows
    <3>2. CASE k < pos
      BY <1>1, <1>3, <3>1, <3>2, Division
    <3>3. CASE pos <= k
      <4>1. Lines(a) = 2
        BY <1>1, <1>3, <1>4, <3>1, <3>3
      <4>2. k < 2 * pos
        BY <1>4, <4>1
      <4>3. k \div pos = 1
        BY <1>1, <1>3, <3>3, <4>2, Division
      <4>4. a \in {A2, A3}
        BY <1>2, <4>1, HeadIsRow
      <4> QED BY <4>3, <4>4 DEF A2, A3, A4, A5
    <3> QED BY <1>1, <1>3, <3>2, <3>3
  <2> HIDE DEF r, i
  <2>2. locked => lw.arr \in {A4, A5} /\ lw.arr # a
    BY DEF Inv, Writers, a
  <2>3. ~ToWrite(locked, lw, lpos, r, i)
    <3> SUFFICES ASSUME locked PROVE r # lw.arr
      BY Zenon DEF ToWrite
    <3> QED BY <2>1, <2>2
  <2>4. ~ToWrite(ppc = "write", req.w, pos, r, i)
    BY DEF ToWrite
  <2> QED BY <2>3, <2>4, Zenon DEF Ahead
<1>7. Whole(latest, a, pos)[k + 1] = latest[r][i]
  BY <1>1, <1>2, <1>3, <1>4, <1>5, <1>6, ByteOfWhole
<1> HIDE DEF r, i
<1>8. g_ARR[r][i] = latest[r][i]
  BY <1>5, <1>10 DEF WritesCurrent
<1>9. g_ARR[r][i] \in Bytes
  BY <1>5 DEF Inv, FormInv, IsArrays
<1> QED BY <1>7, <1>8, <1>9 DEF k, a, r, i

LEMMA ReadStep ==
  ASSUME Inv, Inv', WritesCurrent, ReadCurrent, [Next]_vars
  PROVE  ReadCurrent'
<1>1. ASSUME UNCHANGED <<ppc, req, pos, resp, latest, seen>>, locked' => locked /\ lw' = lw
      PROVE  ReadCurrent'
  BY <1>1 DEF ReadCurrent
<1>8. ASSUME ppc' # "read" \/ seen' = {} PROVE ReadCurrent'
  BY <1>8 DEF ReadCurrent
<1>2. CASE StartRead
  <2>0. CASE locked /\ lw.arr = req.arr
    <3>1. seen' = {}
      BY <1>2, <2>0 DEF StartRead
    <3> QED BY <1>8, <3>1
  <2> SUFFICES ASSUME ~(locked /\ lw.arr = req.arr) PROVE ReadCurrent'
    BY <2>0
  <2>1. /\ seen' = {Whole(latest, req.arr, pos')} /\ UNCHANGED <<latest, req, locked, lw>>
        /\ resp'.b = <<>> /\ ppc' = "read"
    BY <1>2 DEF StartRead, Frame, locker
  <2>8. locked' => lw'.arr # req'.arr
    BY <2>1
  <2>2. req' \in AllRequests /\ req'.op = "RD" /\ pos' \in Nat \ {0}
    BY <2>1 DEF Inv, Turns
  <2>3. req.arr \in Heads
    BY <2>1, <2>2, RequestIs
  <2> DEFINE w == Whole(latest, req.arr, pos')
  <2>4. w \in Seq(Bytes) /\ Len(w) = Lines(req.arr) * pos'
    BY <2>2, <2>3, WholeIs DEF Inv, FormInv, Rowwise
  <2>5. Agree(w, w, req.arr)
    BY DEF Agree
  <2>6. Prefix(resp'.b, w)
    <3>1. Len(resp'.b) = 0
      BY <2>1, EmptySeq
    <3> QED BY <3>1 DEF Prefix
  <2>7. seen' = {w} /\ Whole(latest', req'.arr, pos') = w /\ req'.arr = req.arr
    BY <2>1
  <2> HIDE DEF w
  <2> QED BY <2>4, <2>5, <2>6, <2>7, <2>8 DEF ReadCurrent
<1>3. CASE ReadByte
  <2>1. /\ ppc = "read" /\ UNCHANGED <<req, pos, latest, locked, lw>>
        /\ req \in AllRequests /\ req.op = "RD" /\ pos \in Nat \ {0}
        /\ resp.b \in Seq(Bytes) /\ resp = Frame("RD_ARR", req.arr, resp.mac, resp.b)
    BY <1>3 DEF ReadByte, Inv, Turns, locker
  <2> DEFINE n == Lines(req.arr) * pos
             k == Len(resp.b)
             x == g_ARR[req.arr + k \div pos][k % pos]
             w == Whole(latest, req.arr, pos)
  <2>2. CASE ~(ppc' = "read" /\ seen' # {} /\ n <= FRAME_DATA_LEN - 2)
    BY <2>1, <2>2 DEF ReadCurrent
  <2>3. CASE ppc' = "read" /\ seen' # {} /\ n <= FRAME_DATA_LEN - 2
    <3>1. req.arr \in Heads
      BY <2>1, RequestIs
    <3>2. n \in Nat /\ k \in Nat /\ FRAME_DATA_LEN - 2 \in Nat
      BY <2>1, <3>1, HeadIsRow, LenProperties, ArrayAssumption
    <3>3. Min({n, FRAME_DATA_LEN - 2}) = n
      <4> HIDE DEF n
      <4> QED BY <2>3, <3>2, MinPair
    <3>4. k < n /\ seen' = seen /\ resp' = WithBytes(resp, Append(resp.b, x))
      BY <1>3, <2>3, <3>3 DEF ReadByte, WithBytes
    <3>5. k < FRAME_DATA_LEN - 2
      <4> HIDE DEF n, k
      <4> QED BY <2>3, <3>2, <3>4
    <3>13. locked => lw.arr # req.arr
      BY <2>1, <2>3, <3>4 DEF ReadCurrent
    <3>6. x \in Bytes /\ w[k + 1] = x
      BY <2>1, <3>4, <3>5, <3>13, NextByte
    <3> HIDE DEF x
    <3>7. resp'.b = Append(resp.b, x)
      <4>1. resp' = Frame("RD_ARR", req.arr, resp.mac, Append(resp.b, x))
        BY <2>1, <3>4, WithBytesIs
      <4> QED BY <4>1 DEF Frame
    <3>8. /\ Len(resp'.b) = k + 1
          /\ \A i \in 1..k : resp'.b[i] = resp.b[i]
          /\ resp'.b[k + 1] = x
      BY <2>1, <3>6, <3>7, AppendProperties
    <3>9. /\ w \in seen
          /\ \A s \in seen : s \in Seq(Bytes) /\ Len(s) = n /\ Agree(s, w, req.arr)
          /\ \E s \in seen : Prefix(resp.b, s)
      BY <2>1, <2>3, <3>4 DEF ReadCurrent
    <3>10. Len(w) = n
      BY <3>9
    <3> HIDE DEF w
    <3>11. \E s \in seen : Prefix(resp'.b, s)
      <4>1. CASE k = 0
        <5>1. \A i \in 1..Len(resp'.b) : i = k + 1
          BY <3>8, <4>1
        <5>2. Prefix(resp'.b, w)
          BY <3>6, <3>8, <5>1 DEF Prefix
        <5> QED BY <3>9, <5>2
      <4>2. CASE k # 0
        <5>1. PICK s \in seen : Prefix(resp.b, s)
          BY <3>9
        <5>2. k + 1 \in 1..Len(w) /\ k + 1 # 1
          <6> HIDE DEF n, k
          <6> QED BY <3>2, <3>4, <3>10, <4>2
        <5>3. s[k + 1] = w[k + 1]
          BY <3>9, <5>2 DEF Agree
        <5>4. \A i \in 1..Len(resp'.b) : i = k + 1 \/ i \in 1..k
          <6> HIDE DEF k
          <6> QED BY <3>2, <3>8
        <5>5. Prefix(resp'.b, s)
          BY <3>6, <3>8, <5>1, <5>3, <5>4 DEF Prefix
        <5> QED BY <5>5
      <4> QED BY <4>1, <4>2
    <3>12. Whole(latest', req'.arr, pos') = w /\ req'.arr = req.arr /\ Lines(req'.arr) * pos' = n
      BY <2>1 DEF w
    <3>14. locked' => lw'.arr # req'.arr
      BY <2>1, <3>13
    <3> HIDE DEF n, k
    <3> QED BY <3>4, <3>9, <3>11, <3>12, <3>14 DEF ReadCurrent
  <2> QED BY <2>2, <2>3
<1>4. CASE \E c \in CANs : Reset(c)
  <2>1. PICK r \in {A4, A5} : Resets(r)
    BY <1>4, ResetIs
  <2>2. UNCHANGED <<ppc, req, pos, resp, locked, lw>>
    BY <1>4, ResetIs DEF processor, locker
  <2>3. CASE ~(ppc = "read" /\ seen # {} /\ Lines(req.arr) * pos <= FRAME_DATA_LEN - 2)
    <3>1. seen = {} => seen' = {}
      BY <2>1 DEF Resets
    <3> QED BY <2>2, <2>3, <3>1 DEF ReadCurrent
  <2>4. CASE ppc = "read" /\ seen # {} /\ Lines(req.arr) * pos <= FRAME_DATA_LEN - 2
    <3> DEFINE a == req.arr
               w == Whole(latest, a, pos)
               v == Whole(latest', a, pos)
    <3>1. /\ req \in AllRequests /\ req.op = "RD" /\ pos \in Nat \ {0}
          /\ pos = Taken(a, g_ARR)
      BY <2>4 DEF Inv, Turns
    <3>2. a \in Heads
      BY <3>1, RequestIs
    <3>3. \A q \in Rows : \A j \in 0..(RowLen[q] - 1) :
            latest'[q][j] = IF q = r /\ j = 0 THEN 0 ELSE latest[q][j]
      BY <2>1, ResetBytes DEF Inv, FormInv
    <3>4. (a # r => v = w) /\ Agree(w, v, a)
      <4>1. \A q \in Rows : \A j \in 0..(RowLen[q] - 1) :
              q # r \/ (TRUE /\ j # 0) => latest'[q][j] = latest[q][j]
        BY <3>3
      <4> QED BY <3>1, <3>2, <4>1, WholeStays DEF Inv, FormInv
    <3>5. v \in Seq(Bytes) /\ Len(v) = Lines(a) * pos
      BY <3>1, <3>2, WholeIs DEF Inv, FormInv, Rowwise
    <3>6. /\ w \in seen
          /\ \A s \in seen : s \in Seq(Bytes) /\ Len(s) = Lines(a) * pos /\ Agree(s, w, a)
          /\ \E s \in seen : Prefix(resp.b, s)
      BY <2>4 DEF ReadCurrent
    <3>7. a = r => pos = RowLen[a]
      BY <3>1 DEF Taken, A1, A2, A3, A4, A5
    <3>8. v \in seen' /\ seen' \subseteq seen \cup {v} /\ seen \subseteq seen'
      <4>1. CASE a = r
        BY <2>1, <2>4, <3>7, <4>1 DEF Resets
      <4>2. CASE a # r
        BY <2>1, <2>4, <3>4, <3>6, <4>2 DEF Resets
      <4> QED BY <4>1, <4>2
    <3>9. Whole(latest', req'.arr, pos') = v /\ req'.arr = a /\ pos' = pos /\ resp'.b = resp.b
      BY <2>2
    <3>10. Len(w) = Len(v)
      BY <3>5, <3>6
    <3> HIDE DEF a, w, v
    <3>11. \A s \in seen : Agree(s, v, a)
      BY <3>4, <3>6, <3>10 DEF Agree
    <3>12. Agree(v, v, a)
      BY DEF Agree
    <3>13. \A s \in seen' : s \in Seq(Bytes) /\ Len(s) = Lines(a) * pos /\ Agree(s, v, a)
      BY <3>5, <3>6, <3>8, <3>11, <3>12
    <3>14. ~locked'
      BY <2>1, <2>2, Zenon DEF Resets
    <3> QED BY <3>6, <3>8, <3>9, <3>13, <3>14 DEF ReadCurrent
  <2> QED BY <2>3, <2>4
<1>5. CASE Boot
  <2>1. ppc' = ppc /\ mainpc \in {"load", "can", "threads"}
    BY <1>5 DEF Boot, Start, Load, LoadDies, LoadFails, CanInit, StartWorkers, InitFails, processor
  <2>2. ppc' # "read"
    BY <2>1 DEF Inv, Quiet
  <2> QED BY <1>8, <2>2
<1>6. CASE StartWrite \/ WriteByte \/ Receive \/ Dispatch \/ ClearMac \/ SendInit \/ SessionCreated
  <2>1. ppc' # "read"
    BY <1>6 DEF StartWrite, WriteByte, Receive, Dispatch, ClearMac, SendInit, SessionCreated, Inv,
       Turns
  <2> QED BY <1>8, <2>1
<1>7. CASE Send \/ MainClearMac \/ MainSendInit \/ Arm \/ ArmDies \/ (\E i \in 0..1 : LoadA0(i))
           \/ Timeout \/ Beat \/ ReadDies \/ WriteDies \/ UNCHANGED vars
  <2>1. UNCHANGED <<ppc, req, pos, resp, latest, seen, locked, lw>>
    BY <1>7 DEF Send, MainClearMac, MainSendInit, Arm, ArmDies, LoadA0, Timeout, Beat, ReadDies,
       WriteDies, vars, processor, history, locker
  <2> QED BY <1>1, <2>1
<1>9. CASE LockedByte
  <2>1. UNCHANGED <<ppc, req, pos, resp, latest, seen>>
    BY <1>9, LockedByteIs DEF Inv, processor, history
  <2>2. locked' = FALSE \/ (locked' = locked /\ lw' = lw)
    BY <1>9, LockedByteIs, Zenon DEF Inv
  <2>3. locked' => locked /\ lw' = lw
    BY <2>2, Zenon
  <2> QED BY <1>1, <2>1, <2>3
<1>10. CASE \E x \in waiting : Lock(x)
  <2>1. PICK x \in waiting : Lock(x)
    BY <1>10
  <2> DEFINE r == x.w.arr
             a == req.arr
  <2>2. /\ x.w \in Writes /\ Accepted(x.w) /\ r \in {A4, A5} /\ lw' = x.w
        /\ latest' = Overwrite(x.w) /\ UNCHANGED <<ppc, req, pos, resp>>
        /\ seen' = IF ppc = "read" /\ a = r THEN {} ELSE seen
    BY <2>1, LockIs DEF Inv, processor
  <2>3. CASE ppc # "read" \/ a = r \/ seen = {}
    BY <1>8, <2>2, <2>3
  <2>4. CASE ppc = "read" /\ a # r /\ seen # {}
    <3>1. seen' = seen
      BY <2>2, <2>4
    <3>2. /\ req \in AllRequests /\ req.op = "RD" /\ pos \in Nat \ {0}
      BY <2>4 DEF Inv, Turns
    <3>3. a \in Heads
      BY <3>2, RequestIs
    <3>4. ASSUME NEW q \in Rows, NEW j \in 0..(RowLen[q] - 1), q # r
          PROVE  latest'[q][j] = latest[q][j]
      BY <2>2, <3>4, OverwriteIs DEF Inv, FormInv
    <3>5. Whole(latest', a, pos) = Whole(latest, a, pos)
      <4>1. \A q \in Rows : \A j \in 0..(RowLen[q] - 1) :
              q # r \/ (FALSE /\ j # 0) => latest'[q][j] = latest[q][j]
        BY <3>4
      <4> HIDE DEF a, r
      <4> QED BY <2>2, <2>4, <3>2, <3>3, <4>1, WholeStays DEF Inv, FormInv
    <3>6. locked' => lw'.arr # req'.arr
      BY <2>2, <2>4
    <3> QED BY <2>2, <2>4, <3>1, <3>5, <3>6 DEF ReadCurrent
  <2> QED BY <2>3, <2>4
<1> QED BY <1>2, <1>3, <1>4, <1>5, <1>6, <1>7, <1>9, <1>10, NextIs DEF Others

-----------------------------------------------------------------------------
(* The theorem of the frames *)

LEMMA CurrentInit == Init => CurrentInv
BY DEF Init, CurrentInv, NameLoaded, WritesCurrent, ReadCurrent

LEMMA CurrentStep == WritesFit /\ Inv /\ CurrentInv /\ [Next]_vars => Inv' /\ CurrentInv'
BY InvStep, NameStep, WritesStep, ReadStep DEF CurrentInv

LEMMA LettersType ==
  ASSUME NEW g, IsArrays(g), NEW from \in Nat, NEW to \in Nat, to <= RowLen[A1]
  PROVE  Letters(g, from, to) \in Seq(Bytes)
<1>1. CASE from <= to
  BY <1>1, LettersAre
<1>2. CASE ~(from <= to)
  <2> DEFINE b == [i \in 1..(to - from) |-> g[A1][from + i - 1]]
             nul == {i \in DOMAIN b : b[i] = 0}
  <2>1. 1..(to - from) = {} /\ 1..0 = {}
    BY <1>2
  <2>2. DOMAIN b = {}
    BY <2>1
  <2>3. nul = {}
    BY <2>2
  <2>4. b \in [1..0 -> Bytes]
    BY <2>1
  <2>5. b \in Seq(Bytes)
    BY <2>4, IsASeq
  <2>6. Letters(g, from, to) = b
    BY <2>3 DEF Letters
  <2> QED BY <2>5, <2>6
<1> QED BY <1>1, <1>2

LEMMA BehindTwo ==
  ASSUME NEW S, NEW x \in S, NEW y \in S, NEW t \in Seq(S)
  PROVE  /\ SubSeq(<<x, y>> \o t, 1, 2) = <<x, y>>
         /\ SubSeq(<<x, y>> \o t, 3, Len(<<x, y>> \o t)) = t
<1> DEFINE u == <<x, y>>
           c == u \o t
           n == Len(t)
<1>1. u \in Seq(S) /\ Len(u) = 2 /\ u[1] = x /\ u[2] = y /\ n \in Nat
  BY LenProperties
<1> HIDE DEF u, n
<1>2. c \in Seq(S) /\ Len(c) = 2 + n
      /\ \A i \in 1..(2 + n) : c[i] = IF i <= 2 THEN u[i] ELSE t[i - 2]
  <2>1. /\ c \in Seq(S) /\ Len(c) = Len(u) + Len(t)
        /\ \A i \in 1..(Len(u) + Len(t)) : c[i] = IF i <= Len(u) THEN u[i] ELSE t[i - Len(u)]
    BY <1>1, ConcatProperties
  <2> HIDE DEF c
  <2> QED BY <1>1, <2>1, Zenon DEF n
<1> HIDE DEF c
<1>3. SubSeq(c, 1, 2) = u
  <2>1. SubSeq(u \o t, 1, 2) = SubSeq(u, 1, 2)
    <3>1. 1 \in 1..Len(u) /\ 2 \in 1..Len(u)
      BY <1>1
    <3> QED BY <1>1, <3>1, SubSeqOfConcat1
  <2>2. SubSeq(u, 1, Len(u)) = u
    BY <1>1, SubSeqFull
  <2> QED BY <1>1, <2>1, <2>2 DEF c
<1>4. SubSeq(c, 3, 2 + n) = t
  <2> DEFINE v == SubSeq(c, 3, 2 + n)
  <2>1. \A i \in 3..(2 + n) : c[i] \in S
    <3>1. \A i \in 3..(2 + n) : i \in 1..Len(c)
      BY <1>1, <1>2
    <3> QED BY <1>2, <3>1, ElementOfSeq
  <2>2. 3 \in Int /\ 2 + n \in Int
    BY <1>1
  <2>3. /\ v \in Seq(S) /\ Len(v) = IF 3 <= 2 + n THEN (2 + n) - 3 + 1 ELSE 0
        /\ \A i \in 1..((2 + n) - 3 + 1) : v[i] = c[3 + i - 1]
    BY <2>1, <2>2, SubSeqProperties
  <2> HIDE DEF v
  <2>4. Len(v) = n /\ (2 + n) - 3 + 1 = n
    BY <1>1, <2>3
  <2>5. ASSUME NEW i \in 1..n PROVE v[i] = t[i]
    <3>1. 3 + i - 1 \in 1..(2 + n) /\ ~(3 + i - 1 <= 2) /\ (3 + i - 1) - 2 = i
      BY <1>1
    <3>2. c[3 + i - 1] = t[(3 + i - 1) - 2]
      BY <1>2, <3>1, Zenon
    <3> QED BY <2>3, <2>4, <3>1, <3>2
  <2>6. v = t
    BY <2>3, <2>4, <2>5, SeqEqual DEF n
  <2> QED BY <2>6 DEF v
<1> QED BY <1>2, <1>3, <1>4 DEF c, u

(* What FramesCurrent says of a step that sends a frame. *)
Current ==
  /\ out'.mac = Mac
  /\ out'.type = "HB" =>
       /\ SubSeq(out'.b, 1, 2) = <<latest[A1][0], latest[A1][1]>>
       /\ NameFits(latest) => SubSeq(out'.b, 3, Len(out'.b)) = Letters(latest, 3, NameEnd(latest))
  /\ out'.type = "RD_ARR" /\ seen # {} /\ Fits(out'.arr, latest) => out'.b \in seen

(* As long as the processor does not write, the arrays before A4 are        *)
(* current.                                                                 *)
LEMMA BelowCurrent ==
  ASSUME Inv, CurrentInv, ppc # "write",
         NEW r \in Rows, NEW i \in 0..(RowLen[r] - 1), r < A4
  PROVE  g_ARR[r][i] = latest[r][i]
<1>1. ~ToWrite(ppc = "write", req.w, pos, r, i)
  BY DEF ToWrite
<1>2. ~ToWrite(locked, lw, lpos, r, i)
  <2> SUFFICES ASSUME locked PROVE r # lw.arr
    BY Zenon DEF ToWrite
  <2>1. lw.arr \in {A4, A5}
    BY DEF Inv, Writers
  <2> QED BY <2>1 DEF A4, A5, Rows
<1>3. ~Ahead(r, i)
  BY <1>1, <1>2, Zenon DEF Ahead
<1> QED BY <1>3 DEF CurrentInv, WritesCurrent

LEMMA BeatCurrent ==
  ASSUME Inv, CurrentInv, Beat
  PROVE  Current
<1>1. /\ lpc = "beat" /\ ppc = "idle" /\ g_mac = Mac
  <2>1. lpc = "beat" /\ Up
    BY DEF Beat
  <2>2. ppc = "idle" /\ isSessionCreated
    BY <2>1 DEF Inv, Turns, Quiet
  <2>3. mainpc = "done"
    BY <2>1, <2>2 DEF Up, Inv, Quiet
  <2> QED BY <2>1, <2>2, <2>3 DEF Inv, MacKnown
<1>2. IsArrays(g_ARR) /\ IsArrays(latest)
  BY DEF Inv, FormInv
<1>3. \A i \in 0..(RowLen[A1] - 1) : g_ARR[A1][i] = latest[A1][i] /\ latest[A1][i] \in Bytes
  <2>1. A1 \in Rows /\ A1 < A4
    BY Constants DEF A1, A4
  <2> QED BY <1>1, <1>2, <2>1, BelowCurrent DEF IsArrays
<1> DEFINE x == latest[A1][0]
           y == latest[A1][1]
<1>4. g_ARR[A1][0] = x /\ g_ARR[A1][1] = y /\ x \in Bytes /\ y \in Bytes
  <2>1. 0 \in 0..(RowLen[A1] - 1) /\ 1 \in 0..(RowLen[A1] - 1)
    BY Constants
  <2> QED BY <1>3, <2>1
<1>5. name = NameOf(latest)
  <2>1. name = NameOf(g_ARR)
    BY <1>1 DEF CurrentInv, NameLoaded
  <2>2. \A j \in 2..(RowLen[A1] - 1) : j \in 0..(RowLen[A1] - 1)
    BY Constants
  <2>3. \A j \in 2..(RowLen[A1] - 1) : g_ARR[A1][j] = latest[A1][j]
    BY <1>3, <2>2
  <2> QED BY <1>2, <2>1, <2>3, NameStays
<1>6. name \in Seq(Bytes)
  <2>1. 3 \in Nat /\ 3 + IDLen \in Nat /\ 3 + IDLen <= RowLen[A1]
    BY ArrayAssumption
  <2>2. NameEnd(latest) \in Nat /\ NameEnd(latest) <= RowLen[A1]
    BY <1>2, NameEndIs
  <2>3. Letters(latest, 3, 3 + IDLen) \in Seq(Bytes)
    BY <1>2, <2>1, LettersType
  <2>4. Letters(latest, 3 + IDLen, NameEnd(latest)) \in Seq(Bytes)
    BY <1>2, <2>1, <2>2, LettersType
  <2> QED BY <1>5, <2>3, <2>4, ConcatProperties DEF NameOf
<1>7. /\ out'.mac = Mac /\ out'.type = "HB" /\ out'.b = <<x, y>> \o name
  BY <1>1, <1>4 DEF Beat, Heartbeat, Frame
<1> HIDE DEF x, y
<1>8. SubSeq(out'.b, 1, 2) = <<x, y>> /\ SubSeq(out'.b, 3, Len(out'.b)) = name
  BY <1>4, <1>6, <1>7, BehindTwo
<1>9. NameFits(latest) => name = Letters(latest, 3, NameEnd(latest))
  BY <1>2, <1>5, NameIsWhole
<1> QED BY <1>7, <1>8, <1>9 DEF Current, x, y

LEMMA AnswerCurrent ==
  ASSUME Inv, CurrentInv, ReadByte, out' # out
  PROVE  Current
<1>1. /\ ppc = "read" /\ req \in AllRequests /\ req.op = "RD"
      /\ pos \in Nat \ {0} /\ pos = Taken(req.arr, g_ARR)
      /\ resp = Frame("RD_ARR", req.arr, resp.mac, resp.b)
      /\ resp.b \in Seq(Bytes) /\ Len(resp.b) <= Lines(req.arr) * pos /\ resp.mac = Mac
  BY DEF ReadByte, Inv, Turns, MacKnown
<1> DEFINE n == Lines(req.arr) * pos
           k == Len(resp.b)
<1>2. out' = resp /\ ~(k < Min({n, FRAME_DATA_LEN - 2}))
  BY DEF ReadByte
<1>3. out'.type = "RD_ARR" /\ out'.mac = Mac /\ out'.arr = req.arr /\ out'.b = resp.b
  BY <1>1, <1>2 DEF Frame
<1>4. SUFFICES ASSUME seen # {}, Fits(req.arr, latest) PROVE resp.b \in seen
  BY <1>3 DEF Current
<1>5. req.arr \in Heads
  BY <1>1, RequestIs
<1>6. Taken(req.arr, latest) = pos
  <2>1. \A q \in Rows : \A j \in 0..(RowLen[q] - 1) : q < A4 => latest[q][j] = g_ARR[q][j]
    BY <1>1, BelowCurrent
  <2> QED BY <1>1, <1>5, <2>1, TakenStays
<1>7. n <= FRAME_DATA_LEN - 2
  BY <1>4, <1>6 DEF Fits
<1>8. n \in Nat /\ k \in Nat /\ k <= n /\ FRAME_DATA_LEN - 2 \in Nat
  BY <1>1, <1>5, HeadIsRow, LenProperties, ArrayAssumption
<1>9. k = n
  <2> HIDE DEF n, k
  <2>1. Min({n, FRAME_DATA_LEN - 2}) = n
    BY <1>7, <1>8, MinPair
  <2> QED BY <1>2, <1>8, <2>1
<1>10. PICK s \in seen : Prefix(resp.b, s) /\ s \in Seq(Bytes) /\ Len(s) = n
  BY <1>1, <1>4, <1>7 DEF CurrentInv, ReadCurrent
<1>11. resp.b = s
  <2>1. \A i \in 1..Len(resp.b) : resp.b[i] = s[i]
    BY <1>10 DEF Prefix
  <2>2. Len(resp.b) = Len(s)
    BY <1>9, <1>10
  <2> QED BY <1>1, <1>10, <2>1, <2>2, SeqEqual
<1> QED BY <1>10, <1>11

LEMMA OnlySenders ==
  ASSUME [Next]_vars, ~(MainSendInit \/ SendInit \/ Beat \/ ReadByte)
  PROVE  out' = out
<1>1. CASE \E c \in CANs : Reset(c)
  BY <1>1, ResetIs
<1>2. CASE ~\E c \in CANs : Reset(c)
  BY <1>2, NextIs DEF Others, Boot, Send, MainClearMac, Arm, ArmDies, LoadA0, Receive, Dispatch,
     Timeout, ClearMac, SessionCreated, StartWrite, WriteByte, LockedByte, Lock, StartRead, ReadDies,
     WriteDies, vars
<1> QED BY <1>1, <1>2

LEMMA FramesStep ==
  ASSUME Inv, CurrentInv, [Next]_vars, out' # out
  PROVE  Current
<1>1. CASE MainSendInit \/ SendInit
  <2>1. out' = Frame("INIT", A0, Mac, <<>>)
    BY <1>1 DEF MainSendInit, SendInit
  <2>2. out'.mac = Mac /\ out'.type = "INIT"
    BY <2>1 DEF Frame
  <2> QED BY <2>2 DEF Current
<1>2. CASE ~(MainSendInit \/ SendInit \/ Beat \/ ReadByte)
  BY <1>2, OnlySenders
<1> QED BY <1>1, <1>2, BeatCurrent, AnswerCurrent

LEMMA CurrentAlways == WritesFit /\ Spec => [](Inv /\ CurrentInv)
<1>1. CASE WritesFit
  <2>1. Inv /\ CurrentInv /\ [Next]_vars => (Inv /\ CurrentInv)'
    BY <1>1, CurrentStep
  <2>2. Init => Inv /\ CurrentInv
    BY InvInit, CurrentInit
  <2> QED BY <2>1, <2>2, PTL DEF Spec
<1>2. CASE ~WritesFit
  BY <1>2
<1> QED BY <1>1, <1>2

(* When the server writes arrays from their first byte on, as the code      *)
(* takes every write to do (uart.c:602-605), and within their length, which *)
(* it does not check (but what is behind A5 is no array), every frame       *)
(* carries the MAC, a heartbeat the status and the name, and an answer an   *)
(* array that was there at some time of the reading, unless the array was   *)
(* written meanwhile by a processor that had waited for g_mutex: on every   *)
(* board, for arrays and frames of any length, whatever file was loaded.    *)
THEOREM FramesAreCurrent == WritesFit /\ Spec => FramesCurrent
<1>1. CASE WritesFit
  <2>1. Inv /\ CurrentInv /\ [Next]_vars => [out' # out => Current]_vars
    BY FramesStep
  <2>2. Spec => [][out' # out => Current]_vars
    BY <1>1, <2>1, CurrentAlways, PTL DEF Spec
  <2> QED BY <2>2 DEF FramesCurrent, Current
<1>2. CASE ~WritesFit
  BY <1>2
<1> QED BY <1>1, <1>2
=============================================================================
