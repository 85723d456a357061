-------------------------- MODULE CanSessionProofs --------------------------
(***************************************************************************)
(* Proofs about CanSession: what the list holds while a session gathers    *)
(* answers, that a collection of wave data is not given up early, and that *)
(* a report has every answer.                                              *)
(***************************************************************************)
EXTENDS CanSession, FiniteSetTheorems, SequenceTheorems, TLAPS

USE DEF Cans

(* The part of TypeOK that the list and the queues depend on. *)
RequestType ==
  /\ asked = [c \in Cans |-> asked[c]]
  /\ \A c \in Cans : asked[c] # NoRequest =>
       /\ asked[c].cmd \in {d.cmd_type : d \in Commands}
       /\ asked[c].req \in Nat

QueueType ==
  /\ cur \in Commands \cup {NoSession}
  /\ list \in Seq(Frame) /\ got \in Seq(Frame)
  /\ rx \in [Cans -> Seq(Frame)]
  /\ collecting \in [Cans -> [id : Nat, req : Nat] \cup {NoRequest}]
  /\ nsess \in Nat

LEMMA CommandsAreTyped ==
  ASSUME NEW c \in Commands
  PROVE  c.which \in Cans /\ c # NoSession /\ c.cmd_type \in {d.cmd_type : d \in Commands}
BY CommandAssumption DEF Command

LEMMA RequestsAreTyped == Spec => [](QueueType /\ RequestType)
<1>1. Init => QueueType /\ RequestType
  BY DEF Init, QueueType, RequestType
<1>2. QueueType /\ RequestType /\ [Next]_vars => (QueueType /\ RequestType)'
  <2> SUFFICES ASSUME QueueType, RequestType, [Next]_vars PROVE QueueType' /\ RequestType'
    OBVIOUS
  <2>1. ASSUME NEW c \in Commands, Begin(c) PROVE QueueType' /\ RequestType'
    <3>1. QueueType'
      BY <2>1 DEF Begin, QueueType
    <3>2. RequestType'
      <4> DEFINE r == [type |-> IF c.mode = P2P THEN findDevTypeById(c.can_id, c.which) ELSE ANY,
                       id |-> c.can_id, cmd |-> c.cmd_type, req |-> nsess + 1]
      <4>1. asked' = [asked EXCEPT ![c.which] = r]
        BY <2>1 DEF Begin
      <4>2. r.cmd \in {d.cmd_type : d \in Commands} /\ r.req \in Nat
        BY CommandsAreTyped DEF QueueType
      <4> HIDE DEF r
      <4> QED BY <4>1, <4>2, CommandsAreTyped DEF RequestType
    <3> QED BY <3>1, <3>2
  <2>2. ASSUME NEW c \in Commands, SendFails(c) PROVE QueueType' /\ RequestType'
    BY <2>2 DEF SendFails, bus, QueueType, RequestType
  <2>3. CASE Receive
    <3>1. cur.which \in Cans /\ Head(rx[cur.which]) \in Frame /\ Tail(rx[cur.which]) \in Seq(Frame)
      BY <2>3, CommandsAreTyped DEF Receive, QueueType
    <3> QED BY <2>3, <3>1 DEF Receive, QueueType, RequestType
  <2>4. CASE Timeout
    BY <2>4 DEF Timeout, Silent, Linkedlist_clear, bus, QueueType, RequestType
  <2>5. CASE TimeoutOnEmptyList
    BY <2>5 DEF TimeoutOnEmptyList, bus, QueueType, RequestType
  <2>6. ASSUME NEW d \in Devices, Answer(d) PROVE QueueType' /\ RequestType'
    <3>1. d.can \in Cans /\ d.id \in Nat
      BY DeviceAssumption
    <3>2. asked[d.can].cmd \in {c.cmd_type : c \in Commands} /\ asked[d.can].req \in Nat
      BY <2>6, <3>1 DEF Answer, Addressed, RequestType
    <3>3. PICK a \in AnswerTo[asked[d.can].cmd] :
            rx' = [rx EXCEPT ![d.can] = Append(@,
                     [id |-> d.id, num |-> a.num, b0 |-> a.b0, req |-> asked[d.can].req])]
      BY <2>6 DEF Answer
    <3>4. a \in [num : Nat, b0 : Nat]
      BY <3>2, AnswerAssumption
    <3>5. [id |-> d.id, num |-> a.num, b0 |-> a.b0, req |-> asked[d.can].req] \in Frame
      BY <3>1, <3>2, <3>4 DEF Frame
    <3>6. rx' \in [Cans -> Seq(Frame)]
      BY <3>1, <3>3, <3>5 DEF QueueType
    <3> QED BY <2>6, <3>6 DEF Answer, QueueType, RequestType
  <2>7. ASSUME NEW d \in Devices, StartCollecting(d) PROVE QueueType' /\ RequestType'
    <3>1. d.can \in Cans /\ d.id \in Nat
      BY DeviceAssumption
    <3>2. asked[d.can] # NoRequest /\ asked[d.can].req \in Nat
      BY <2>7, <3>1 DEF StartCollecting, Addressed, RequestType
    <3>3. QueueType'
      BY <2>7, <3>1, <3>2 DEF StartCollecting, QueueType
    <3>4. RequestType'
      BY <2>7 DEF StartCollecting, RequestType
    <3> QED BY <3>3, <3>4
  <2>8. ASSUME NEW c \in Cans, ReportCollected(c) PROVE QueueType' /\ RequestType'
    <3>1. collecting[c] \in [id : Nat, req : Nat]
      BY <2>8 DEF ReportCollected, QueueType
    <3>2. [id |-> collecting[c].id, num |-> 33, b0 |-> COLLECT, req |-> collecting[c].req] \in Frame
      BY <3>1 DEF Frame, COLLECT
    <3>3. rx' \in [Cans -> Seq(Frame)]
      BY <2>8, <3>2 DEF ReportCollected, QueueType
    <3>4. collecting' \in [Cans -> [id : Nat, req : Nat] \cup {NoRequest}]
      BY <2>8 DEF ReportCollected, QueueType
    <3>5. QueueType'
      BY <2>8, <3>3, <3>4 DEF ReportCollected, QueueType
    <3>6. RequestType'
      BY <2>8 DEF ReportCollected, RequestType
    <3> QED BY <3>5, <3>6
  <2>9. CASE UNCHANGED vars
    BY <2>9 DEF vars, QueueType, RequestType
  <2> QED BY <2>1, <2>2, <2>3, <2>4, <2>5, <2>6, <2>7, <2>8, <2>9 DEF Next, Session
<1> QED BY <1>1, <1>2, PTL DEF Spec

(* The list a session reports from is what the session received, behind at  *)
(* most one frame that Linkedlist_clear left (can.c:74-85, 582, 564).       *)
THEOREM ListHoldsTheSession == Spec => []ListIsHeadAndGot
<1>1. Init => ListIsHeadAndGot
  BY DEF Init, ListIsHeadAndGot
<1>2. QueueType /\ ListIsHeadAndGot /\ [Next]_vars => ListIsHeadAndGot'
  <2> SUFFICES ASSUME QueueType, ListIsHeadAndGot, [Next]_vars PROVE ListIsHeadAndGot'
    OBVIOUS
  <2> USE DEF QueueType, ListIsHeadAndGot
  <2>1. ASSUME NEW c \in Commands, Begin(c) PROVE ListIsHeadAndGot'
    <3>1. cur = NoSession /\ list' = list /\ got' = <<>> /\ cur' # NoSession
      BY <2>1, CommandsAreTyped DEF Begin
    <3>2. Len(list) <= 1 /\ Len(list) \in Nat /\ Len(list') = Len(list)
      BY <3>1
    <3>3. got' \in Seq(Frame) /\ Len(got') = 0
      BY <3>1
    <3>4. Len(list') - Len(got') \in {0, 1}
      BY <3>2, <3>3
    <3>5. DOMAIN got' = 1..0
      BY <3>3
    <3> QED BY <3>1, <3>4, <3>5
  <2>2. ASSUME NEW c \in Commands, SendFails(c) PROVE ListIsHeadAndGot'
    BY <2>2 DEF SendFails
  <2>3. CASE Receive
    <3> DEFINE f == Head(rx[cur.which])
               old == Len(list) - Len(got)
    <3>1. cur # NoSession /\ f \in Frame /\ cur' = cur
      BY <2>3, CommandsAreTyped DEF Receive
    <3>2. list' = Append(list, f) /\ got' = Append(got, f)
      BY <2>3 DEF Receive
    <3>3. old \in {0, 1} /\ \A i \in DOMAIN got : got[i] = list[old + i]
      BY <3>1
    <3> HIDE DEF f
    <3>4. Len(list') - Len(got') = old
      BY <3>1, <3>2
    <3>5. ASSUME NEW i \in DOMAIN got' PROVE got'[i] = list'[old + i]
      <4>1. CASE i \in DOMAIN got
        <5>1. got'[i] = got[i]
          BY <3>1, <3>2, <4>1
        <5>2. old + i \in 1..Len(list)
          BY <3>3, <4>1
        <5>3. list'[old + i] = list[old + i]
          BY <3>1, <3>2, <5>2
        <5> QED BY <3>3, <4>1, <5>1, <5>3
      <4>2. CASE i \notin DOMAIN got
        <5>1. i = Len(got) + 1 /\ got'[i] = f
          BY <3>1, <3>2, <4>2
        <5>2. old + i = Len(list) + 1
          BY <3>3, <5>1
        <5> QED BY <3>1, <3>2, <5>1, <5>2
      <4> QED BY <4>1, <4>2
    <3> QED BY <3>1, <3>3, <3>4, <3>5
  <2>4. CASE Timeout
    <3>1. cur' = NoSession /\ list' = SubSeq(list, 1, 1) /\ list # <<>>
      BY <2>4 DEF Timeout, Linkedlist_clear
    <3> QED BY <3>1
  <2>5. CASE TimeoutOnEmptyList
    BY <2>5 DEF TimeoutOnEmptyList
  <2>6. ASSUME NEW d \in Devices, Answer(d) PROVE ListIsHeadAndGot'
    BY <2>6 DEF Answer
  <2>7. ASSUME NEW d \in Devices, StartCollecting(d) PROVE ListIsHeadAndGot'
    BY <2>7 DEF StartCollecting
  <2>8. ASSUME NEW c \in Cans, ReportCollected(c) PROVE ListIsHeadAndGot'
    BY <2>8 DEF ReportCollected
  <2>9. CASE UNCHANGED vars
    BY <2>9 DEF vars
  <2> QED BY <2>1, <2>2, <2>3, <2>4, <2>5, <2>6, <2>7, <2>8, <2>9 DEF Next, Session
<1> QED BY <1>1, <1>2, RequestsAreTyped, PTL DEF Spec

(* isWaveFinished is set by a frame of this session with data[0] = 2. *)
FinishedByFrame ==
  (cur # NoSession /\ isWaveFinished) => \E i \in DOMAIN got : got[i].b0 = COLLECT

LEMMA FinishedByFrameInvariant == Spec => []FinishedByFrame
<1>1. Init => FinishedByFrame
  BY DEF Init, FinishedByFrame
<1>2. QueueType /\ FinishedByFrame /\ [Next]_vars => FinishedByFrame'
  <2> SUFFICES ASSUME QueueType, FinishedByFrame, [Next]_vars PROVE FinishedByFrame'
    OBVIOUS
  <2> USE DEF FinishedByFrame, QueueType
  <2>1. CASE Receive
    <3> DEFINE f == Head(rx[cur.which])
    <3>1. f \in Frame /\ got' = Append(got, f)
      BY <2>1, CommandsAreTyped DEF Receive
    <3>2. isWaveFinished' => isWaveFinished \/ f.b0 = COLLECT
      BY <2>1 DEF Receive
    <3>3. CASE isWaveFinished
      <4>1. PICK i \in DOMAIN got : got[i].b0 = COLLECT
        BY <2>1, <3>3 DEF Receive
      <4>2. i \in DOMAIN got' /\ got'[i] = got[i]
        BY <3>1, <4>1
      <4> QED BY <4>1, <4>2
    <3>4. CASE f.b0 = COLLECT
      <4>1. Len(got) + 1 \in DOMAIN got' /\ got'[Len(got) + 1] = f
        BY <3>1
      <4> QED BY <3>4, <4>1
    <3> QED BY <3>2, <3>3, <3>4
  <2>2. CASE ~Receive
    BY <2>2 DEF Next, Session, Begin, SendFails, Timeout, TimeoutOnEmptyList, Answer,
                StartCollecting, ReportCollected, vars
  <2> QED BY <2>1, <2>2
<1> QED BY <1>1, <1>2, RequestsAreTyped, PTL DEF Spec

(* A collection is not given up while a device still takes the wave, unless *)
(* a frame with data[0] = 2 was taken for its report (can.c:480, 588).      *)
THEOREM CollectionsAreAwaited == Spec => CollectionAwaited
<1>1. FinishedByFrame /\ [Next]_vars =>
        [(cur # NoSession /\ cur' = NoSession /\ cur.cmd_type = COLLECT
            /\ collecting[cur.which] # NoRequest)
         => \E i \in DOMAIN got : got[i].b0 = COLLECT]_vars
  <2> SUFFICES ASSUME FinishedByFrame, Next, cur # NoSession, cur' = NoSession,
                      cur.cmd_type = COLLECT, collecting[cur.which] # NoRequest
               PROVE  \E i \in DOMAIN got : got[i].b0 = COLLECT
    BY DEF vars
  <2>1. Timeout
    BY CommandsAreTyped DEF Next, Session, Begin, SendFails, Receive, TimeoutOnEmptyList, Answer,
       StartCollecting, ReportCollected
  <2>2. isWaveFinished
    BY <2>1 DEF Timeout, Silent
  <2> QED BY <2>2 DEF FinishedByFrame
<1> QED BY <1>1, FinishedByFrameInvariant, PTL DEF Spec, CollectionAwaited
-----------------------------------------------------------------------------
(* What the walks over the list and the device list compute *)

(* Induction over the natural numbers, for a set in the place of a formula: *)
(* if n were missing from T, adding one would take the members of T up to n *)
(* one to one to those of them that are not 0.                              *)
LEMMA Induction ==
  ASSUME NEW T, 0 \in T, \A n \in Nat : n \in T => n + 1 \in T
  PROVE  Nat \subseteq T
<1> SUFFICES ASSUME NEW n \in Nat, n \notin T PROVE FALSE
  OBVIOUS
<1> DEFINE S == T \cap (0..n)
           next == [k \in S |-> k + 1]
<1>1. IsFiniteSet(S) /\ 0 \in S
  <2>1. IsFiniteSet(0..n)
    BY FS_Interval
  <2> QED BY <2>1, FS_Subset
<1>2. /\ IsFiniteSet(S \ {0}) /\ Cardinality(S \ {0}) = Cardinality(S) - 1
      /\ Cardinality(S) \in Nat
  BY <1>1, FS_RemoveElement, FS_CardinalityType
<1>3. next \in [S -> S \ {0}]
  OBVIOUS
<1>4. \E x, y \in S : x # y /\ next[x] = next[y]
  <2> HIDE DEF next, S
  <2>1. Cardinality(S \ {0}) < Cardinality(S)
    BY <1>2
  <2> QED BY <1>1, <1>2, <1>3, <2>1, FS_PigeonHole
<1> QED BY <1>4

(* A non-empty set of natural numbers has a least member. *)
LEMMA LeastMember ==
  ASSUME NEW S, S \subseteq Nat, S # {}
  PROVE  \E i \in S : \A j \in S : i <= j
<1> SUFFICES ASSUME \A i \in S : \E j \in S : ~(i <= j) PROVE FALSE
  OBVIOUS
<1> DEFINE T == {n \in Nat : \A i \in S : n <= i}
<1>1. 0 \in T
  OBVIOUS
<1>2. ASSUME NEW n \in Nat, n \in T PROVE n + 1 \in T
  <2>1. \A i \in S : i \in Nat /\ n <= i
    BY <1>2
  <2>2. n \notin S
    BY <2>1
  <2>3. \A i \in S : n + 1 <= i
    BY <2>1, <2>2
  <2> QED BY <2>3
<1>3. Nat \subseteq T
  <2> HIDE DEF T
  <2> QED BY <1>1, <1>2, Induction
<1>4. PICK i \in S : i \in Nat
  OBVIOUS
<1>5. i + 1 \in T
  BY <1>3, <1>4
<1> QED BY <1>4, <1>5

(* A walk of N steps, each of which makes its value from the one before. *)
Walk(u, N, V, base, step) ==
  /\ u \in [0..N -> V]
  /\ u[0] = base
  /\ \A n \in 1..N : u[n] = step[<<n, u[n - 1]>>]

LEMMA WalkExists ==
  ASSUME NEW N \in Nat, NEW V, NEW base \in V, NEW step \in [(1..N) \X V -> V]
  PROVE  \E u : Walk(u, N, V, base, step)
<1> DEFINE Partial(u, n) == /\ u \in [0..n -> V]
                            /\ u[0] = base
                            /\ \A k \in 1..n : u[k] = step[<<k, u[k - 1]>>]
           T == {n \in Nat : n <= N => \E u : Partial(u, n)}
<1>1. 0 \in T
  <2>1. Partial([k \in 0..0 |-> base], 0)
    OBVIOUS
  <2> QED BY <2>1
<1>2. ASSUME NEW n \in Nat, n \in T PROVE n + 1 \in T
  <2> SUFFICES ASSUME n + 1 <= N PROVE \E u : Partial(u, n + 1)
    OBVIOUS
  <2>1. PICK u : Partial(u, n)
    BY <1>2
  <2> DEFINE w == [k \in 0..(n + 1) |-> IF k = n + 1 THEN step[<<n + 1, u[n]>>] ELSE u[k]]
  <2>2. u[n] \in V /\ n + 1 \in 1..N
    BY <2>1
  <2>3. step[<<n + 1, u[n]>>] \in V
    <3>1. <<n + 1, u[n]>> \in (1..N) \X V
      BY <2>2
    <3> QED BY <3>1
  <2>4. w \in [0..(n + 1) -> V]
    <3> SUFFICES ASSUME NEW k \in 0..(n + 1) PROVE w[k] \in V
      OBVIOUS
    <3>1. CASE k = n + 1
      BY <2>3, <3>1
    <3>2. CASE k # n + 1
      <4>1. k \in 0..n
        BY <3>2
      <4> QED BY <2>1, <3>2, <4>1
    <3> QED BY <3>1, <3>2
  <2>5. w[0] = base
    BY <2>1
  <2>6. ASSUME NEW k \in 1..(n + 1) PROVE w[k] = step[<<k, w[k - 1]>>]
    <3>1. k - 1 \in 0..(n + 1) /\ k - 1 # n + 1 /\ w[k - 1] = u[k - 1]
      OBVIOUS
    <3>2. CASE k = n + 1
      BY <3>1, <3>2
    <3>3. CASE k # n + 1
      <4>1. k \in 1..n /\ w[k] = u[k]
        BY <3>3
      <4> QED BY <2>1, <3>1, <4>1
    <3> QED BY <3>2, <3>3
  <2>7. Partial(w, n + 1)
    <3> HIDE DEF w
    <3> QED BY <2>4, <2>5, <2>6
  <2> QED BY <2>7
<1>3. N \in T
  <2> HIDE DEF T
  <2> QED BY <1>1, <1>2, Induction
<1>4. PICK u : Partial(u, N)
  BY <1>3
<1> QED BY <1>4 DEF Walk

(* The walk through frames is a walk: GetCanFramesById, can.c:87-112. *)
Selected(u, s, keep, S) ==
  /\ u \in [0..Len(s) -> Seq(S)]
  /\ u[0] = <<>>
  /\ \A n \in 1..Len(s) : u[n] = IF s[n] \in keep THEN Append(u[n - 1], s[n]) ELSE u[n - 1]
  /\ Select(s, keep) = u[Len(s)]

LEMMA SelectIsWalk ==
  ASSUME NEW S, NEW s \in Seq(S), NEW keep
  PROVE  \E u : Selected(u, s, keep, S)
<1> DEFINE N == Len(s)
           step == [p \in (1..N) \X Seq(S) |->
                      IF s[p[1]] \in keep THEN Append(p[2], s[p[1]]) ELSE p[2]]
           Rec(u) == u = [n \in 0..N |->
                            IF n = 0 THEN <<>>
                            ELSE IF s[n] \in keep THEN Append(u[n - 1], s[n]) ELSE u[n - 1]]
<1>1. N \in Nat /\ <<>> \in Seq(S) /\ \A n \in 1..N : s[n] \in S
  BY LenProperties, EmptySeq
<1>2. step \in [(1..N) \X Seq(S) -> Seq(S)]
  BY <1>1
<1>3. PICK v : Walk(v, N, Seq(S), <<>>, step)
  <2> HIDE DEF step, N
  <2> QED BY <1>1, <1>2, WalkExists
<1>4. \A n \in 1..N : v[n] = IF s[n] \in keep THEN Append(v[n - 1], s[n]) ELSE v[n - 1]
  <2> SUFFICES ASSUME NEW n \in 1..N
               PROVE  v[n] = IF s[n] \in keep THEN Append(v[n - 1], s[n]) ELSE v[n - 1]
    OBVIOUS
  <2>1. n - 1 \in 0..N
    BY <1>1
  <2>2. v[n] = step[<<n, v[n - 1]>>] /\ v[n - 1] \in Seq(S)
    <3> HIDE DEF step, N
    <3> QED BY <1>3, <2>1 DEF Walk
  <2>3. <<n, v[n - 1]>> \in (1..N) \X Seq(S)
    BY <2>2
  <2> QED BY <2>2, <2>3
<1>5. Rec(v)
  <2>1. v \in [0..N -> Seq(S)] /\ v[0] = <<>>
    BY <1>3 DEF Walk
  <2> DEFINE w == [n \in 0..N |->
                     IF n = 0 THEN <<>>
                     ELSE IF s[n] \in keep THEN Append(v[n - 1], s[n]) ELSE v[n - 1]]
  <2>2. ASSUME NEW n \in 0..N PROVE v[n] = w[n]
    <3>1. CASE n = 0
      BY <2>1, <3>1
    <3>2. CASE n # 0
      <4>1. n \in 1..N
        BY <1>1, <3>2
      <4> QED BY <1>4, <3>2, <4>1
    <3> QED BY <3>1, <3>2
  <2>3. v = w
    <3>1. w = [n \in 0..N |-> w[n]] /\ v = [n \in 0..N |-> v[n]]
      BY <2>1
    <3> HIDE DEF w
    <3> QED BY <2>2, <3>1
  <2> QED BY <2>3
<1> DEFINE u == CHOOSE x : Rec(x)
<1>6. Rec(u)
  <2> HIDE DEF Rec
  <2> QED BY <1>5
<1>7. Select(s, keep) = u[N]
  BY DEF Select
<1> HIDE DEF u
<1>8. u[0] = <<>> /\ \A n \in 1..N : u[n] = IF s[n] \in keep THEN Append(u[n - 1], s[n]) ELSE u[n - 1]
  <2>1. \A n \in 0..N : u[n] = IF n = 0 THEN <<>>
                               ELSE IF s[n] \in keep THEN Append(u[n - 1], s[n]) ELSE u[n - 1]
    BY <1>6, Zenon
  <2>2. 0 \in 0..N /\ \A n \in 1..N : n \in 0..N /\ n # 0
    BY <1>1
  <2> HIDE DEF N
  <2> QED BY <2>1, <2>2, Zenon
<1>9. u = v
  <2> DEFINE T == {n \in Nat : n <= N => u[n] = v[n]}
  <2>1. 0 \in T
    BY <1>3, <1>8 DEF Walk
  <2>2. ASSUME NEW n \in Nat, n \in T PROVE n + 1 \in T
    <3> SUFFICES ASSUME n + 1 <= N PROVE u[n + 1] = v[n + 1]
      OBVIOUS
    <3>1. u[n] = v[n] /\ n + 1 \in 1..N /\ (n + 1) - 1 = n
      BY <1>1, <2>2
    <3> QED BY <1>4, <1>8, <3>1
  <2>3. Nat \subseteq T
    <3> HIDE DEF T
    <3> QED BY <2>1, <2>2, Induction
  <2>4. \A n \in 0..N : u[n] = v[n]
    BY <1>1, <2>3
  <2>5. DOMAIN u = 0..N /\ u = [n \in DOMAIN u |-> u[n]]
    BY <1>6
  <2>6. v \in [0..N -> Seq(S)]
    BY <1>3 DEF Walk
  <2> QED BY <2>4, <2>5, <2>6
<1>10. u \in [0..N -> Seq(S)]
  BY <1>3, <1>9 DEF Walk
<1> QED BY <1>7, <1>8, <1>10 DEF Selected

LEMMA SelectType ==
  ASSUME NEW S, NEW s \in Seq(S), NEW keep
  PROVE  Select(s, keep) \in Seq(S)
<1>1. PICK u : Selected(u, s, keep, S)
  BY SelectIsWalk
<1>2. Len(s) \in Nat /\ Len(s) \in 0..Len(s)
  BY LenProperties
<1> QED BY <1>1, <1>2 DEF Selected

(* s is t behind the first old of its elements. *)
Follows(s, t, old) == Len(s) = old + Len(t) /\ \A i \in 1..Len(t) : s[old + i] = t[i]

LEMMA FollowsAppend ==
  ASSUME NEW S, NEW s \in Seq(S), NEW t \in Seq(S), NEW old \in Nat, Follows(s, t, old),
         NEW f \in S
  PROVE  Follows(Append(s, f), Append(t, f), old)
<1>1. /\ Len(s) \in Nat /\ Len(t) \in Nat /\ Len(s) = old + Len(t)
      /\ \A i \in 1..Len(t) : s[old + i] = t[i]
  BY LenProperties DEF Follows
<1>2. /\ Len(Append(s, f)) = Len(s) + 1 /\ Append(s, f)[Len(s) + 1] = f
      /\ \A i \in 1..Len(s) : Append(s, f)[i] = s[i]
  BY AppendProperties
<1>3. /\ Len(Append(t, f)) = Len(t) + 1 /\ Append(t, f)[Len(t) + 1] = f
      /\ \A i \in 1..Len(t) : Append(t, f)[i] = t[i]
  BY AppendProperties
<1>4. ASSUME NEW i \in 1..(Len(t) + 1) PROVE Append(s, f)[old + i] = Append(t, f)[i]
  <2>1. CASE i = Len(t) + 1
    <3>1. old + i = Len(s) + 1
      BY <1>1, <2>1
    <3> QED BY <1>2, <1>3, <2>1, <3>1
  <2>2. CASE i # Len(t) + 1
    <3>1. i \in 1..Len(t) /\ old + i \in 1..Len(s)
      BY <1>1, <2>2
    <3> QED BY <1>1, <1>2, <1>3, <3>1
  <2> QED BY <2>1, <2>2
<1>5. Len(Append(s, f)) = old + Len(Append(t, f))
  BY <1>1, <1>2, <1>3
<1> QED BY <1>3, <1>4, <1>5 DEF Follows

(* What is picked from a session's frames follows, in what is picked from   *)
(* the list, at most one frame.                                             *)
LEMMA SelectFollows ==
  ASSUME NEW S, NEW s \in Seq(S), NEW t \in Seq(S), NEW old \in {0, 1}, Follows(s, t, old),
         NEW keep
  PROVE  \E o \in {0, 1} : Follows(Select(s, keep), Select(t, keep), o)
<1>1. PICK u : Selected(u, s, keep, S)
  BY SelectIsWalk
<1>2. PICK v : Selected(v, t, keep, S)
  BY SelectIsWalk
<1>3. /\ Len(s) \in Nat /\ Len(t) \in Nat /\ Len(s) = old + Len(t)
      /\ \A i \in 1..Len(t) : s[old + i] = t[i]
      /\ \A i \in 1..Len(s) : s[i] \in S
      /\ \A i \in 1..Len(t) : t[i] \in S
  BY LenProperties DEF Follows
<1>4. /\ u[0] = <<>> /\ v[0] = <<>>
      /\ \A n \in 1..Len(s) : u[n] = IF s[n] \in keep THEN Append(u[n - 1], s[n]) ELSE u[n - 1]
      /\ \A n \in 1..Len(t) : v[n] = IF t[n] \in keep THEN Append(v[n - 1], t[n]) ELSE v[n - 1]
      /\ \A n \in 0..Len(s) : u[n] \in Seq(S)
      /\ \A n \in 0..Len(t) : v[n] \in Seq(S)
      /\ Select(s, keep) = u[Len(s)] /\ Select(t, keep) = v[Len(t)]
  BY <1>1, <1>2 DEF Selected
<1> DEFINE o == Len(u[old])
           T == {n \in Nat : n <= Len(t) => Follows(u[old + n], v[n], o)}
<1>5. o \in {0, 1}
  <2>1. Len(u[0]) = 0
    BY <1>4, EmptySeq
  <2>2. CASE old = 0
    BY <2>1, <2>2
  <2>3. CASE old = 1
    <3>1. 1 \in 1..Len(s) /\ s[1] \in S
      BY <1>3, <2>3
    <3>2. u[1] = IF s[1] \in keep THEN Append(u[1 - 1], s[1]) ELSE u[1 - 1]
      BY <1>4, <3>1
    <3>3. u[1] = Append(u[0], s[1]) \/ u[1] = u[0]
      BY <3>2
    <3>4. u[0] \in Seq(S)
      BY <1>3, <1>4
    <3>5. Len(Append(u[0], s[1])) = 1
      BY <2>1, <3>1, <3>4, AppendProperties
    <3> QED BY <2>1, <2>3, <3>3, <3>5
  <2> QED BY <2>2, <2>3
<1>6. 0 \in T
  <2>1. old + 0 = old /\ old \in 0..Len(s)
    BY <1>3
  <2>2. Len(v[0]) = 0
    BY <1>4, EmptySeq
  <2>3. Follows(u[old], v[0], o)
    <3> HIDE DEF o
    <3>1. Len(u[old]) = o
      BY DEF o
    <3> QED BY <1>5, <2>2, <3>1 DEF Follows
  <2> HIDE DEF o
  <2> QED BY <2>1, <2>3
<1>7. ASSUME NEW n \in Nat, n \in T PROVE n + 1 \in T
  <2> HIDE DEF o
  <2> SUFFICES ASSUME n + 1 <= Len(t) PROVE Follows(u[old + (n + 1)], v[n + 1], o)
    OBVIOUS
  <2>1. /\ n + 1 \in 1..Len(t) /\ n \in 0..Len(t) /\ (n + 1) - 1 = n
        /\ old + (n + 1) \in 1..Len(s) /\ old + n \in 0..Len(s)
        /\ (old + (n + 1)) - 1 = old + n
    BY <1>3
  <2>2. Follows(u[old + n], v[n], o)
    BY <1>3, <1>7
  <2> DEFINE f == t[n + 1]
  <2>3. s[old + (n + 1)] = f /\ f \in S
    BY <1>3, <2>1
  <2>4. u[old + n] \in Seq(S) /\ v[n] \in Seq(S)
    BY <1>4, <2>1
  <2>5. u[old + (n + 1)] = IF f \in keep THEN Append(u[old + n], f) ELSE u[old + n]
    BY <1>4, <2>1, <2>3
  <2>6. v[n + 1] = IF f \in keep THEN Append(v[n], f) ELSE v[n]
    BY <1>4, <2>1
  <2> HIDE DEF f
  <2>7. CASE f \in keep
    <3>1. Follows(Append(u[old + n], f), Append(v[n], f), o)
      BY <1>5, <2>2, <2>3, <2>4, FollowsAppend
    <3> QED BY <2>5, <2>6, <2>7, <3>1
  <2>8. CASE f \notin keep
    BY <2>2, <2>5, <2>6, <2>8
  <2> QED BY <2>7, <2>8
<1>8. Len(t) \in T
  <2> HIDE DEF T
  <2> QED BY <1>3, <1>6, <1>7, Induction
<1>9. Follows(u[Len(s)], v[Len(t)], o)
  <2> HIDE DEF o
  <2>1. Follows(u[old + Len(t)], v[Len(t)], o)
    BY <1>3, <1>8
  <2> QED BY <1>3, <2>1
<1> HIDE DEF o
<1> QED BY <1>4, <1>5, <1>9

(* A device in a list has a type. *)
LEMMA TypesAreTyped ==
  ASSUME NEW id, NEW c \in Cans
  PROVE  findDevTypeById(id, c) \in Nat
<1> DEFINE devs == DevList[c]
           places == {i \in DOMAIN devs : devs[i].id = id}
<1>1. devs \in Seq([id : Nat, type : Nat])
  BY ListAssumption
<1>2. /\ DOMAIN devs \subseteq Nat
      /\ \A i \in DOMAIN devs : devs[i].type \in Nat
  <2>1. /\ Len(devs) \in Nat /\ DOMAIN devs = 1..Len(devs)
        /\ \A i \in 1..Len(devs) : devs[i] \in [id : Nat, type : Nat]
    BY <1>1, LenProperties
  <2> QED BY <2>1
<1> HIDE DEF devs
<1>3. CASE places = {}
  BY <1>3 DEF findDevTypeById, devs
<1>4. CASE places # {}
  <2> DEFINE least == CHOOSE i \in places : \A j \in places : i <= j
  <2>1. \E i \in places : \A j \in places : i <= j
    <3>1. places \subseteq Nat
      BY <1>2
    <3> HIDE DEF places
    <3> QED BY <1>4, <3>1, LeastMember
  <2>2. least \in places
    <3> HIDE DEF places
    <3> QED BY <2>1
  <2>3. devs[least].type \in Nat
    BY <1>2, <2>2
  <2>4. findDevTypeById(id, c) = devs[least].type
    BY <1>4 DEF findDevTypeById, devs
  <2> QED BY <2>3, <2>4
<1> QED BY <1>3, <1>4

-----------------------------------------------------------------------------
(* What a session reports *)

Lines == [id : Nat, frames : Seq(Frame), complete : {0, 15, 255}]

LEMMA LineIs ==
  ASSUME list \in Seq(Frame), NEW id \in Nat
  PROVE  /\ GetCanFramesById(id) \in Seq(Frame)
         /\ Line(id) \in Seq(Lines)
         /\ GetCanFramesById(id) # <<>> =>
              /\ Len(Line(id)) = 1
              /\ Line(id)[1].id = id /\ Line(id)[1].frames = GetCanFramesById(id)
<1> DEFINE frames == GetCanFramesById(id)
           line == [id |-> id, frames |-> frames, complete |-> Complete(frames)]
<1>1. frames \in Seq(Frame)
  BY SelectType DEF GetCanFramesById
<1>2. Complete(frames) \in {0, 15, 255}
  BY DEF Complete
<1>3. Line(id) = IF frames = <<>> THEN <<>> ELSE <<line>>
  BY DEF Line
<1> HIDE DEF frames
<1>4. line \in Lines
  BY <1>1, <1>2 DEF Lines
<1>5. line.id = id /\ line.frames = frames
  OBVIOUS
<1> HIDE DEF line
<1>6. <<>> \in Seq(Lines) /\ <<line>> \in Seq(Lines) /\ Len(<<line>>) = 1 /\ <<line>>[1] = line
  BY <1>4
<1>7. Line(id) \in Seq(Lines)
  BY <1>3, <1>6
<1>8. frames # <<>> => Len(Line(id)) = 1 /\ Line(id)[1] = line
  BY <1>3, <1>6
<1> QED BY <1>1, <1>5, <1>7, <1>8 DEF frames

(* The walk through the device list, can.c:534-557. *)
Broadcast(u, devs) ==
  /\ u \in [0..Len(devs) -> Seq(Lines)]
  /\ u[0] = <<>>
  /\ \A n \in 1..Len(devs) : u[n] = u[n - 1] \o Line(devs[n].id)
  /\ BroadcastLines = u[Len(devs)]

LEMMA BroadcastIsWalk ==
  ASSUME list \in Seq(Frame), cur.which \in Cans
  PROVE  \E u : Broadcast(u, DevList[cur.which])
<1> DEFINE devs == DevList[cur.which]
           N == Len(devs)
           V == Seq(Lines)
           L == [n \in 1..N |-> Line(devs[n].id)]
           step == [p \in (1..N) \X V |-> p[2] \o L[p[1]]]
           Rec(u) == u = [n \in 0..N |-> IF n = 0 THEN <<>> ELSE u[n - 1] \o Line(devs[n].id)]
<1>1. /\ N \in Nat
      /\ \A n \in 1..N : devs[n].id \in Nat
  <2>1. devs \in Seq([id : Nat, type : Nat])
    BY ListAssumption
  <2>2. /\ Len(devs) \in Nat /\ DOMAIN devs = 1..Len(devs)
        /\ \A i \in 1..Len(devs) : devs[i] \in [id : Nat, type : Nat]
    BY <2>1, LenProperties
  <2> QED BY <2>2
<1> HIDE DEF devs
<1>2. <<>> \in V /\ \A n \in 1..N : L[n] = Line(devs[n].id) /\ L[n] \in V
  <2>1. \A n \in 1..N : Line(devs[n].id) \in V
    BY <1>1, LineIs
  <2> QED BY <2>1, EmptySeq
<1>3. step \in [(1..N) \X V -> V]
  <2> HIDE DEF L
  <2>1. ASSUME NEW p \in (1..N) \X V PROVE p[2] \o L[p[1]] \in V
    <3>1. p[2] \in Seq(Lines) /\ L[p[1]] \in Seq(Lines)
      BY <1>2
    <3> QED BY <3>1, ConcatProperties
  <2> HIDE DEF V
  <2> QED BY <2>1
<1>4. PICK v : Walk(v, N, V, <<>>, step)
  <2> HIDE DEF step, N, V
  <2> QED BY <1>1, <1>2, <1>3, WalkExists
<1>5. \A n \in 1..N : v[n] = v[n - 1] \o Line(devs[n].id)
  <2> SUFFICES ASSUME NEW n \in 1..N PROVE v[n] = v[n - 1] \o Line(devs[n].id)
    OBVIOUS
  <2>1. n - 1 \in 0..N
    BY <1>1
  <2>2. v[n] = step[<<n, v[n - 1]>>] /\ v[n - 1] \in V
    <3> HIDE DEF step, N, V
    <3> QED BY <1>4, <2>1 DEF Walk
  <2>3. <<n, v[n - 1]>> \in (1..N) \X V
    BY <2>2
  <2>4. step[<<n, v[n - 1]>>] = v[n - 1] \o L[n]
    <3> HIDE DEF L, V
    <3> QED BY <2>3
  <2> QED BY <1>2, <2>2, <2>4
<1>6. v \in [0..N -> V] /\ v[0] = <<>>
  BY <1>4 DEF Walk
<1> HIDE DEF V, N
<1>7. Rec(v)
  <2> DEFINE w == [n \in 0..N |-> IF n = 0 THEN <<>> ELSE v[n - 1] \o Line(devs[n].id)]
  <2>1. ASSUME NEW n \in 0..N PROVE v[n] = w[n]
    <3>1. CASE n = 0
      BY <1>6, <3>1
    <3>2. CASE n # 0
      <4>1. n \in 1..N
        BY <1>1, <3>2
      <4> QED BY <1>5, <3>2, <4>1
    <3> QED BY <3>1, <3>2
  <2>2. v = w
    <3>1. w = [n \in 0..N |-> w[n]] /\ v = [n \in 0..N |-> v[n]]
      BY <1>6
    <3> HIDE DEF w
    <3> QED BY <2>1, <3>1
  <2> QED BY <2>2
<1> DEFINE u == CHOOSE x : Rec(x)
<1>8. Rec(u)
  <2> HIDE DEF Rec
  <2> QED BY <1>7
<1>9. BroadcastLines = u[N]
  BY DEF BroadcastLines, devs, N
<1> HIDE DEF u
<1>10. u[0] = <<>> /\ \A n \in 1..N : u[n] = u[n - 1] \o Line(devs[n].id)
  <2>1. \A n \in 0..N : u[n] = IF n = 0 THEN <<>> ELSE u[n - 1] \o Line(devs[n].id)
    BY <1>8, Zenon
  <2>2. 0 \in 0..N /\ \A n \in 1..N : n \in 0..N /\ n # 0
    BY <1>1
  <2> QED BY <2>1, <2>2, Zenon
<1>11. u = v
  <2> DEFINE T == {n \in Nat : n <= N => u[n] = v[n]}
  <2>1. 0 \in T
    BY <1>6, <1>10
  <2>2. ASSUME NEW n \in Nat, n \in T PROVE n + 1 \in T
    <3> SUFFICES ASSUME n + 1 <= N PROVE u[n + 1] = v[n + 1]
      OBVIOUS
    <3>1. u[n] = v[n] /\ n + 1 \in 1..N /\ (n + 1) - 1 = n
      BY <1>1, <2>2
    <3> QED BY <1>5, <1>10, <3>1
  <2>3. Nat \subseteq T
    <3> HIDE DEF T
    <3> QED BY <2>1, <2>2, Induction
  <2>4. \A n \in 0..N : u[n] = v[n]
    BY <1>1, <2>3
  <2>5. DOMAIN u = 0..N /\ u = [n \in DOMAIN u |-> u[n]]
    BY <1>8
  <2> QED BY <1>6, <2>4, <2>5
<1> QED BY <1>6, <1>9, <1>10, <1>11 DEF Broadcast, devs, N, V

(* Every listed device of which there are frames has its line. *)
LEMMA BroadcastIs ==
  ASSUME list \in Seq(Frame), cur.which \in Cans
  PROVE  /\ BroadcastLines \in Seq(Lines)
         /\ \A k \in DOMAIN DevList[cur.which] :
              GetCanFramesById(DevList[cur.which][k].id) # <<>> =>
                \E i \in DOMAIN BroadcastLines :
                  /\ BroadcastLines[i].id = DevList[cur.which][k].id
                  /\ BroadcastLines[i].frames = GetCanFramesById(DevList[cur.which][k].id)
<1> DEFINE devs == DevList[cur.which]
<1>1. PICK u : Broadcast(u, devs)
  BY BroadcastIsWalk
<1>2. /\ Len(devs) \in Nat /\ DOMAIN devs = 1..Len(devs)
      /\ \A n \in 1..Len(devs) : devs[n].id \in Nat
  <2>1. devs \in Seq([id : Nat, type : Nat])
    BY ListAssumption
  <2>2. /\ Len(devs) \in Nat /\ DOMAIN devs = 1..Len(devs)
        /\ \A i \in 1..Len(devs) : devs[i] \in [id : Nat, type : Nat]
    BY <2>1, LenProperties
  <2> QED BY <2>2
<1> HIDE DEF devs
<1>3. /\ \A n \in 0..Len(devs) : u[n] \in Seq(Lines)
      /\ \A n \in 1..Len(devs) : u[n] = u[n - 1] \o Line(devs[n].id)
      /\ BroadcastLines = u[Len(devs)]
  BY <1>1 DEF Broadcast
<1> DEFINE Has(ls, k) == \E i \in 1..Len(ls) : /\ ls[i].id = devs[k].id
                                               /\ ls[i].frames = GetCanFramesById(devs[k].id)
           T == {n \in Nat : n <= Len(devs) =>
                   \A k \in 1..n : GetCanFramesById(devs[k].id) # <<>> => Has(u[n], k)}
<1>4. 0 \in T
  OBVIOUS
<1>5. ASSUME NEW n \in Nat, n \in T PROVE n + 1 \in T
  <2> SUFFICES ASSUME n + 1 <= Len(devs), NEW k \in 1..(n + 1), GetCanFramesById(devs[k].id) # <<>>
               PROVE  Has(u[n + 1], k)
    OBVIOUS
  <2> DEFINE line == Line(devs[n + 1].id)
  <2>1. n + 1 \in 1..Len(devs) /\ (n + 1) - 1 = n /\ n \in 0..Len(devs)
    BY <1>2
  <2>2. u[n + 1] = u[n] \o line /\ u[n] \in Seq(Lines) /\ line \in Seq(Lines)
    BY <1>2, <1>3, <2>1, LineIs
  <2> HIDE DEF line
  <2>3. /\ Len(u[n + 1]) = Len(u[n]) + Len(line) /\ Len(u[n]) \in Nat /\ Len(line) \in Nat
        /\ \A i \in 1..(Len(u[n]) + Len(line)) :
             u[n + 1][i] = IF i <= Len(u[n]) THEN u[n][i] ELSE line[i - Len(u[n])]
    BY <2>2, ConcatProperties, LenProperties
  <2>4. CASE k = n + 1
    <3>1. Len(line) = 1 /\ line[1].id = devs[k].id /\ line[1].frames = GetCanFramesById(devs[k].id)
      BY <1>2, <2>1, <2>4, LineIs DEF line
    <3> DEFINE i == Len(u[n]) + 1
    <3>2. /\ i \in 1..(Len(u[n]) + Len(line)) /\ i \in 1..Len(u[n + 1])
          /\ ~(i <= Len(u[n])) /\ i - Len(u[n]) = 1
      BY <2>3, <3>1
    <3>3. u[n + 1][i] = line[1]
      <4> HIDE DEF i
      <4>1. u[n + 1][i] = line[i - Len(u[n])]
        BY <2>3, <3>2
      <4> QED BY <3>2, <4>1
    <3> HIDE DEF i
    <3> QED BY <3>1, <3>2, <3>3
  <2>5. CASE k # n + 1
    <3>1. k \in 1..n /\ n <= Len(devs)
      BY <1>2, <2>5
    <3>2. Has(u[n], k)
      BY <1>5, <3>1
    <3>3. PICK i \in 1..Len(u[n]) : /\ u[n][i].id = devs[k].id
                                    /\ u[n][i].frames = GetCanFramesById(devs[k].id)
      BY <3>2
    <3>4. i \in 1..Len(u[n + 1]) /\ u[n + 1][i] = u[n][i]
      BY <2>3
    <3> QED BY <3>3, <3>4
  <2> QED BY <2>4, <2>5
<1>6. Len(devs) \in T
  <2> HIDE DEF T
  <2> QED BY <1>2, <1>4, <1>5, Induction
<1>7. BroadcastLines \in Seq(Lines)
  BY <1>2, <1>3
<1>8. DOMAIN BroadcastLines = 1..Len(BroadcastLines)
  BY <1>7, LenProperties
<1>9. \A k \in DOMAIN devs : GetCanFramesById(devs[k].id) # <<>> => Has(BroadcastLines, k)
  <2> HIDE DEF Has
  <2> QED BY <1>2, <1>3, <1>6
<1> QED BY <1>7, <1>8, <1>9 DEF devs

(* What a report misses nothing of. *)
ReportComplete(r) ==
  r.kind = "common" =>
    \A id \in Targets(r) :
      LET answers == Select(r.got, Of(id)) IN
      answers # <<>> =>
        \E i \in DOMAIN r.lines :
          LET line == r.lines[i].frames
              old  == Len(line) - Len(answers)
          IN  /\ r.lines[i].id = id
              /\ old \in {0, 1}
              /\ SubSeq(line, old + 1, Len(line)) = answers

(* The frames of a device in the list end with those the session received.  *)
LEMMA FramesHoldAnswers ==
  ASSUME QueueType, ListIsHeadAndGot, cur # NoSession, NEW id, Select(got, Of(id)) # <<>>
  PROVE  LET line    == GetCanFramesById(id)
             answers == Select(got, Of(id))
             old     == Len(line) - Len(answers)
         IN  /\ line # <<>>
             /\ old \in {0, 1}
             /\ SubSeq(line, old + 1, Len(line)) = answers
<1> DEFINE line == GetCanFramesById(id)
           answers == Select(got, Of(id))
           h == Len(list) - Len(got)
<1>1. list \in Seq(Frame) /\ got \in Seq(Frame)
  BY DEF QueueType
<1>2. line \in Seq(Frame) /\ answers \in Seq(Frame)
  BY <1>1, SelectType DEF GetCanFramesById
<1>3. h \in {0, 1} /\ Follows(list, got, h)
  <2>1. Len(list) \in Nat /\ Len(got) \in Nat /\ DOMAIN got = 1..Len(got)
    BY <1>1, LenProperties
  <2>2. h \in {0, 1} /\ \A i \in DOMAIN got : got[i] = list[h + i]
    BY DEF ListIsHeadAndGot
  <2> QED BY <2>1, <2>2 DEF Follows
<1>4. PICK o \in {0, 1} : Follows(line, answers, o)
  <2> HIDE DEF h
  <2> QED BY <1>1, <1>3, SelectFollows DEF GetCanFramesById
<1> HIDE DEF line, answers
<1>5. /\ Len(line) \in Nat /\ Len(answers) \in Nat /\ Len(line) = o + Len(answers)
      /\ \A i \in 1..Len(answers) : line[o + i] = answers[i]
  BY <1>2, <1>4, LenProperties DEF Follows
<1>6. answers # <<>> /\ Len(answers) > 0
  <2>1. answers # <<>>
    BY DEF answers
  <2> QED BY <1>2, <2>1, EmptySeq
<1>7. line # <<>>
  <2>1. Len(line) > 0
    BY <1>5, <1>6
  <2> QED BY <2>1, EmptySeq
<1>8. Len(line) - Len(answers) = o
  BY <1>5
<1>9. SubSeq(line, o + 1, Len(line)) = answers
  <2> DEFINE rest == SubSeq(line, o + 1, Len(line))
  <2>1. \A i \in (o + 1)..Len(line) : line[i] \in Frame
    <3>1. \A i \in 1..Len(line) : line[i] \in Frame
      BY <1>2, LenProperties
    <3> QED BY <1>5, <3>1
  <2>2. /\ rest \in Seq(Frame) /\ Len(rest) = Len(answers)
        /\ \A i \in 1..Len(answers) : rest[i] = line[o + i]
    <3>1. o + 1 \in Int /\ Len(line) \in Int /\ ~(o + 1 > Len(line)) /\ o + 1 \in Nat
      BY <1>5, <1>6
    <3>2. Len(line) - (o + 1) + 1 = Len(answers)
      BY <1>5
    <3>3. /\ rest \in Seq(Frame)
          /\ Len(rest) = Len(line) - (o + 1) + 1
          /\ \A i \in 1..(Len(line) - (o + 1) + 1) : rest[i] = line[o + 1 + i - 1]
      BY <1>2, <1>5, <1>6, <3>1, SubSeqProperties
    <3>4. \A i \in 1..Len(answers) : o + 1 + i - 1 = o + i
      BY <1>5
    <3> HIDE DEF rest
    <3> QED BY <3>2, <3>3, <3>4
  <2> HIDE DEF rest
  <2>3. rest = answers
    BY <1>2, <1>5, <2>2, SeqEqual
  <2> QED BY <2>3 DEF rest
<1> QED BY <1>7, <1>8, <1>9 DEF line, answers

LEMMA LinesAreTyped ==
  ASSUME cur \in Commands, got \in Seq(Frame), NEW ls \in Seq(Lines)
  PROVE  [kind |-> "common", cmd |-> cur, lines |-> ls, got |-> got] \in Reports
<1> DEFINE All == [id : Nat, frames : Seq(Frame), complete : {0, 15, 255}]
                  \cup [id : Nat, fn : Nat, frames : Seq(Frame)]
<1>1. ls \in Seq(All)
  <2>1. Lines \subseteq All
    BY DEF Lines
  <2> QED BY <2>1, SeqMonotonic
<1> HIDE DEF All
<1>2. [kind |-> "common", cmd |-> cur, lines |-> ls, got |-> got]
        \in [kind : {"common", "wave"}, cmd : Commands, lines : Seq(All), got : Seq(Frame)]
  BY <1>1
<1> QED BY <1>2 DEF Reports, All

(* What a session leaves behind, whatever the command: can.c:489-561. *)
LEMMA ReportIs ==
  ASSUME QueueType, ListIsHeadAndGot, cur # NoSession, waveDataType \in Nat,
         list = <<>> => cur.cmd_type # READ, Report
  PROVE  /\ waveDataType' \in Nat
         /\ \/ files' = files
            \/ \E r \in Reports : files' = Append(files, r) /\ ReportComplete(r)
<1>1. /\ cur \in Commands /\ list \in Seq(Frame) /\ got \in Seq(Frame)
      /\ cur.which \in Cans /\ cur.can_id \in Nat /\ cur.mode \in {P2P, BROADCAST}
  BY CommandAssumption DEF QueueType, Command
<1>2. CASE cur.mode = P2P /\ cur.cmd_type = CALL
  <2> DEFINE r == [kind |-> "common", cmd |-> cur, lines |-> Line(cur.can_id), got |-> got]
  <2>1. files' = Append(files, r) /\ waveDataType' = waveDataType
    BY <1>2 DEF Report, Filed, P2P, BROADCAST, CALL, COLLECT, READ
  <2>2. r \in Reports
    BY <1>1, LineIs, LinesAreTyped
  <2>3. ReportComplete(r)
    <3>1. Targets(r) = {cur.can_id}
      BY <1>2 DEF Targets
    <3> DEFINE id == cur.can_id
               answers == Select(got, Of(id))
               line == GetCanFramesById(id)
    <3>2. ASSUME answers # <<>>
          PROVE  \E i \in DOMAIN Line(id) :
                   /\ Line(id)[i].id = id
                   /\ Len(Line(id)[i].frames) - Len(answers) \in {0, 1}
                   /\ SubSeq(Line(id)[i].frames, (Len(Line(id)[i].frames) - Len(answers)) + 1,
                             Len(Line(id)[i].frames)) = answers
      <4>1. /\ line # <<>> /\ Len(line) - Len(answers) \in {0, 1}
            /\ SubSeq(line, (Len(line) - Len(answers)) + 1, Len(line)) = answers
        BY <3>2, FramesHoldAnswers
      <4>2. /\ Line(id) \in Seq(Lines) /\ Len(Line(id)) = 1
            /\ Line(id)[1].id = id /\ Line(id)[1].frames = line
        BY <1>1, <4>1, LineIs
      <4>3. 1 \in DOMAIN Line(id)
        BY <4>2
      <4> HIDE DEF line, answers, id
      <4> QED BY <4>1, <4>2, <4>3
    <3>3. r.got = got /\ r.lines = Line(id)
      OBVIOUS
    <3> HIDE DEF r
    <3> QED BY <3>1, <3>2, <3>3, Zenon DEF ReportComplete
  <2> HIDE DEF r
  <2> QED BY <2>1, <2>2, <2>3
<1>3. CASE cur.mode = P2P /\ cur.cmd_type = COLLECT
  <2>1. files' = files
    BY <1>3 DEF Report, P2P, BROADCAST, CALL, COLLECT, READ
  <2> DEFINE frames == GetCanFramesById(cur.can_id)
  <2>2. IF frames = <<>> THEN waveDataType' \in Garbage
        ELSE waveDataType' = frames[Len(frames)].b0
    BY <1>3 DEF Report, P2P, BROADCAST, CALL, COLLECT, READ
  <2>3. frames \in Seq(Frame)
    BY <1>1, LineIs
  <2> HIDE DEF frames
  <2>4. waveDataType' \in Nat
    <3>1. CASE frames = <<>>
      BY <2>2, <3>1, GarbageAssumption
    <3>2. CASE frames # <<>>
      <4>1. Len(frames) \in 1..Len(frames)
        BY <2>3, <3>2, EmptySeq
      <4>2. frames[Len(frames)] \in Frame
        BY <2>3, <4>1, ElementOfSeq
      <4>3. frames[Len(frames)].b0 \in Nat
        BY <4>2 DEF Frame
      <4> QED BY <2>2, <3>2, <4>3
    <3> QED BY <3>1, <3>2
  <2> QED BY <2>1, <2>4
<1>4. CASE cur.mode = P2P /\ cur.cmd_type = READ
  <2> DEFINE r == [kind |-> "wave", cmd |-> cur, lines |-> WaveLines, got |-> got]
  <2>1. files' = Append(files, r) /\ waveDataType' = waveDataType
    BY <1>4 DEF Report, Filed, P2P, BROADCAST, CALL, COLLECT, READ
  <2>2. r \in Reports
    <3> DEFINE s == SubSeq(list, 1, Len(list) - 1)
               frames == Select(s, Clean)
               line == [id |-> cur.can_id, fn |-> waveDataType, frames |-> frames]
               All == [id : Nat, frames : Seq(Frame), complete : {0, 15, 255}]
                      \cup [id : Nat, fn : Nat, frames : Seq(Frame)]
    <3>1. s \in Seq(Frame)
      <4>1. Len(list) \in Nat /\ \A i \in 1..Len(list) : list[i] \in Frame
        BY <1>1, LenProperties
      <4>2. \A i \in 1..(Len(list) - 1) : list[i] \in Frame
        BY <4>1
      <4> QED BY <1>1, <4>1, <4>2, SubSeqProperties
    <3>2. frames \in Seq(Frame)
      <4> HIDE DEF s
      <4> QED BY <3>1, SelectType
    <3>3. line \in All
      <4> HIDE DEF frames
      <4> QED BY <1>1, <3>2
    <3>4. WaveLines = <<line>>
      BY DEF WaveLines
    <3> HIDE DEF line, All
    <3>5. WaveLines \in Seq(All)
      BY <3>3, <3>4
    <3>6. r \in [kind : {"common", "wave"}, cmd : Commands, lines : Seq(All), got : Seq(Frame)]
      BY <1>1, <3>5
    <3> QED BY <3>6 DEF Reports, All
  <2>3. ReportComplete(r)
    BY DEF ReportComplete
  <2> HIDE DEF r
  <2> QED BY <2>1, <2>2, <2>3
<1>5. CASE cur.mode = BROADCAST /\ cur.cmd_type = CALL
  <2> DEFINE r == [kind |-> "common", cmd |-> cur, lines |-> BroadcastLines, got |-> got]
             devs == DevList[cur.which]
  <2>1. files' = Append(files, r) /\ waveDataType' = waveDataType
    BY <1>5 DEF Report, Filed, P2P, BROADCAST, CALL, COLLECT, READ
  <2>2. r \in Reports
    BY <1>1, BroadcastIs, LinesAreTyped
  <2>3. ReportComplete(r)
    <3>1. Targets(r) = {devs[k].id : k \in DOMAIN devs}
      BY <1>5 DEF Targets, P2P, BROADCAST
    <3>2. ASSUME NEW k \in DOMAIN devs, Select(got, Of(devs[k].id)) # <<>>
          PROVE  \E i \in DOMAIN BroadcastLines :
                   LET line == BroadcastLines[i].frames
                       old  == Len(line) - Len(Select(got, Of(devs[k].id)))
                   IN  /\ BroadcastLines[i].id = devs[k].id
                       /\ old \in {0, 1}
                       /\ SubSeq(line, old + 1, Len(line)) = Select(got, Of(devs[k].id))
      <4> DEFINE id == devs[k].id
                 answers == Select(got, Of(id))
                 line == GetCanFramesById(id)
      <4>1. /\ line # <<>> /\ Len(line) - Len(answers) \in {0, 1}
            /\ SubSeq(line, (Len(line) - Len(answers)) + 1, Len(line)) = answers
        BY <3>2, FramesHoldAnswers
      <4>2. PICK i \in DOMAIN BroadcastLines : /\ BroadcastLines[i].id = id
                                               /\ BroadcastLines[i].frames = line
        BY <1>1, <4>1, BroadcastIs
      <4> HIDE DEF line
      <4> QED BY <4>1, <4>2
    <3>3. r.got = got /\ r.lines = BroadcastLines
      OBVIOUS
    <3> HIDE DEF r, devs
    <3> QED BY <3>1, <3>2, <3>3, Zenon DEF ReportComplete
  <2> HIDE DEF r
  <2> QED BY <2>1, <2>2, <2>3
<1>6. CASE /\ cur.mode = P2P => cur.cmd_type \notin {CALL, COLLECT, READ}
           /\ cur.mode = BROADCAST => cur.cmd_type # CALL
  <2>1. files' = files /\ waveDataType' = waveDataType
    BY <1>6 DEF Report, P2P, BROADCAST, CALL, COLLECT, READ
  <2> QED BY <2>1
<1> QED BY <1>1, <1>2, <1>3, <1>4, <1>5, <1>6 DEF P2P, BROADCAST

-----------------------------------------------------------------------------
(* The report and the types *)

(* What QueueType says nothing of: the files, the requests, the counters. *)
FileType == waveDataType \in Nat /\ files \in Seq(Reports)

AskedType ==
  /\ asked \in [Cans -> Request \cup {NoRequest}]
  /\ \A c \in Cans : asked[c] # NoRequest => asked[c].req \in 1..nsess
  /\ taken \subseteq 1..nsess

CountType ==
  /\ isWaveFinished \in BOOLEAN
  /\ crashed => cur # NoSession /\ list = <<>>
  /\ nsess \in 0..MaxSessions /\ nframes \in 0..MaxFrames

LEMMA AppendedReport ==
  ASSUME FileType, ReportsComplete, NEW r \in Reports, ReportComplete(r)
  PROVE  \A n \in DOMAIN Append(files, r) : ReportComplete(Append(files, r)[n])
<1>1. files \in Seq(Reports)
  BY DEF FileType
<1>2. \A n \in DOMAIN files : ReportComplete(files[n])
  BY Zenon DEF ReportsComplete, ReportComplete
<1> HIDE DEF ReportComplete
<1>3. /\ Len(files) \in Nat /\ DOMAIN files = 1..Len(files)
      /\ DOMAIN Append(files, r) = 1..(Len(files) + 1)
      /\ \A n \in 1..Len(files) : Append(files, r)[n] = files[n]
      /\ Append(files, r)[Len(files) + 1] = r
  BY <1>1, LenProperties, AppendProperties
<1>4. \A n \in 1..(Len(files) + 1) : n \in 1..Len(files) \/ n = Len(files) + 1
  BY <1>3
<1> QED BY <1>2, <1>3, <1>4

(* A step that files nothing, or one whole report. *)
LEMMA FilesStep ==
  ASSUME QueueType, ListIsHeadAndGot, FileType, ReportsComplete, [Next]_vars
  PROVE  FileType' /\ ReportsComplete'
<1>1. \/ UNCHANGED <<files, waveDataType>>
      \/ cur # NoSession /\ Report /\ (list = <<>> => cur.cmd_type # READ)
  BY DEF Next, Session, Begin, SendFails, Receive, Timeout, TimeoutOnEmptyList, Silent, Answer,
         StartCollecting, ReportCollected, vars, bus
<1>2. /\ waveDataType' \in Nat
      /\ \/ files' = files
         \/ \E r \in Reports : files' = Append(files, r) /\ ReportComplete(r)
  BY <1>1, ReportIs DEF FileType
<1>3. files \in Seq(Reports) /\ \A n \in DOMAIN files : ReportComplete(files[n])
  BY Zenon DEF FileType, ReportsComplete, ReportComplete
<1>4. files' \in Seq(Reports) /\ \A n \in DOMAIN files' : ReportComplete(files'[n])
  <2>1. CASE files' = files
    BY <1>3, <2>1
  <2>2. ASSUME NEW r \in Reports, files' = Append(files, r), ReportComplete(r)
        PROVE  files' \in Seq(Reports) /\ \A n \in DOMAIN files' : ReportComplete(files'[n])
    <3>1. files' \in Seq(Reports)
      BY <1>3, <2>2, AppendProperties
    <3>2. \A n \in DOMAIN files' : ReportComplete(files'[n])
      BY <2>2, AppendedReport
    <3> QED BY <3>1, <3>2
  <2> QED BY <1>2, <2>1, <2>2
<1>5. ReportsComplete'
  BY <1>4, Zenon DEF ReportsComplete, ReportComplete, Targets
<1> QED BY <1>2, <1>4, <1>5 DEF FileType

LEMMA FilesInvariant == Spec => [](FileType /\ ReportsComplete)
<1>1. Init => FileType /\ ReportsComplete
  <2> SUFFICES ASSUME Init PROVE FileType /\ ReportsComplete
    OBVIOUS
  <2>1. files = <<>> /\ waveDataType = 0
    BY DEF Init
  <2>2. <<>> \in Seq(Reports) /\ DOMAIN files = {}
    BY <2>1, EmptySeq
  <2> QED BY <2>1, <2>2 DEF FileType, ReportsComplete
<1>2. QueueType /\ ListIsHeadAndGot /\ FileType /\ ReportsComplete /\ [Next]_vars
        => (FileType /\ ReportsComplete)'
  BY FilesStep
<1> QED BY <1>1, <1>2, RequestsAreTyped, ListHoldsTheSession, PTL DEF Spec

(* No answer is lost between the socket and the report: whatever a called   *)
(* device sent during the session stands in its line, in the order of       *)
(* arrival, after at most one left-over frame (can.c:87-112, 489-561).      *)
THEOREM ReportsAreComplete == Spec => []ReportsComplete
BY FilesInvariant, PTL

LEMMA AskedInvariant == Spec => [](AskedType /\ CountType)
<1>1. Init => AskedType /\ CountType
  <2> SUFFICES ASSUME Init PROVE AskedType /\ CountType
    OBVIOUS
  <2>1. AskedType
    BY DEF Init, AskedType
  <2>2. CountType
    <3>1. ~isWaveFinished /\ ~crashed /\ nsess = 0 /\ nframes = 0 /\ isWaveFinished \in BOOLEAN
      BY DEF Init
    <3> QED BY <3>1, SessionBounds DEF CountType
  <2> QED BY <2>1, <2>2
<1>2. QueueType /\ RequestType /\ AskedType /\ CountType /\ [Next]_vars => (AskedType /\ CountType)'
  <2> SUFFICES ASSUME QueueType, RequestType, AskedType, CountType, [Next]_vars
               PROVE  AskedType' /\ CountType'
    OBVIOUS
  <2>1. ASSUME NEW c \in Commands, Begin(c) PROVE AskedType' /\ CountType'
    <3> DEFINE type == IF c.mode = P2P THEN findDevTypeById(c.can_id, c.which) ELSE ANY
               r == [type |-> type, id |-> c.can_id, cmd |-> c.cmd_type, req |-> nsess + 1]
    <3>1. c.which \in Cans /\ c.can_id \in Nat /\ c.cmd_type \in {d.cmd_type : d \in Commands}
      BY CommandAssumption DEF Command
    <3>2. type \in Nat
      BY <3>1, TypesAreTyped DEF ANY
    <3>3. nsess \in Nat /\ nsess' = nsess + 1 /\ nsess < MaxSessions
      BY <2>1 DEF Begin, QueueType
    <3>4. asked' = [asked EXCEPT ![c.which] = r] /\ taken' = taken
      BY <2>1 DEF Begin
    <3> HIDE DEF type
    <3>5. r \in Request /\ r.req = nsess + 1
      BY <3>1, <3>2, <3>3 DEF Request
    <3> HIDE DEF r
    <3>6. asked' \in [Cans -> Request \cup {NoRequest}]
      BY <3>1, <3>4, <3>5 DEF AskedType
    <3>7. ASSUME NEW k \in Cans, asked'[k] # NoRequest PROVE asked'[k].req \in 1..nsess'
      <4>1. CASE k = c.which
        <5>1. asked'[k] = r
          BY <3>1, <3>4, <4>1 DEF AskedType
        <5> QED BY <3>3, <3>5, <5>1
      <4>2. CASE k # c.which
        <5>1. asked'[k] = asked[k]
          BY <3>4, <4>2 DEF AskedType
        <5>2. asked[k].req \in 1..nsess
          BY <3>7, <5>1 DEF AskedType
        <5> QED BY <3>3, <5>1, <5>2
      <4> QED BY <4>1, <4>2
    <3>8. taken' \subseteq 1..nsess'
      <4>1. 1..nsess \subseteq 1..nsess'
        BY <3>3
      <4> QED BY <3>4, <4>1 DEF AskedType
    <3>9. CountType'
      <4>1. ~crashed' /\ isWaveFinished' = FALSE /\ nframes' = nframes
        BY <2>1 DEF Begin
      <4>2. nsess' \in 0..MaxSessions
        BY <3>3, SessionBounds
      <4> QED BY <4>1, <4>2 DEF CountType
    <3> QED BY <3>6, <3>7, <3>8, <3>9 DEF AskedType
  <2>2. ASSUME NEW c \in Commands, SendFails(c) PROVE AskedType' /\ CountType'
    <3>1. nsess \in Nat /\ nsess' = nsess + 1 /\ nsess < MaxSessions /\ asked' = asked /\ taken' = taken
      BY <2>2 DEF SendFails, bus, QueueType
    <3>2. 1..nsess \subseteq 1..nsess'
      BY <3>1
    <3>3. AskedType'
      BY <3>1, <3>2 DEF AskedType
    <3>4. CountType'
      BY <2>2, <3>1, SessionBounds DEF SendFails, bus, CountType
    <3> QED BY <3>3, <3>4
  <2>3. CASE Receive
    BY <2>3 DEF Receive, AskedType, CountType
  <2>4. CASE Timeout
    BY <2>4 DEF Timeout, Silent, bus, AskedType, CountType
  <2>5. CASE TimeoutOnEmptyList
    BY <2>5 DEF TimeoutOnEmptyList, Silent, bus, AskedType, CountType
  <2>6. ASSUME NEW d \in Devices, Answer(d) PROVE AskedType' /\ CountType'
    BY <2>6, SessionBounds DEF Answer, AskedType, CountType
  <2>7. ASSUME NEW d \in Devices, StartCollecting(d) PROVE AskedType' /\ CountType'
    <3>1. asked[d.can].req \in 1..nsess
      BY <2>7, DeviceAssumption DEF StartCollecting, Addressed, AskedType
    <3>2. AskedType'
      BY <2>7, <3>1 DEF StartCollecting, AskedType
    <3>3. CountType'
      BY <2>7, SessionBounds DEF StartCollecting, CountType
    <3> QED BY <3>2, <3>3
  <2>8. ASSUME NEW c \in Cans, ReportCollected(c) PROVE AskedType' /\ CountType'
    BY <2>8 DEF ReportCollected, AskedType, CountType
  <2>9. CASE UNCHANGED vars
    BY <2>9 DEF vars, AskedType, CountType
  <2> QED BY <2>1, <2>2, <2>3, <2>4, <2>5, <2>6, <2>7, <2>8, <2>9 DEF Next, Session
<1> QED BY <1>1, <1>2, RequestsAreTyped, PTL DEF Spec

(* Every value a session leaves is one the code can leave: requests are     *)
(* numbered by the sessions that sent them, a report holds lines of frames  *)
(* with one of the three flags, and after a crash nothing runs on.          *)
THEOREM SessionTyped == Spec => []TypeOK
<1>1. QueueType /\ FileType /\ AskedType /\ CountType => TypeOK
  BY DEF QueueType, FileType, AskedType, CountType, TypeOK
<1> QED BY <1>1, RequestsAreTyped, FilesInvariant, AskedInvariant, PTL
=============================================================================
