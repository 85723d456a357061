--------------------------- MODULE UartLinkProofs ---------------------------
(***************************************************************************)
(* Proofs about UartLink: no ack is missed or invented however fast the    *)
(* server sends, and the shared receive buffer behaves as a queue when the *)
(* server waits.                                                           *)
(***************************************************************************)
EXTENDS UartLink, SequenceTheorems, FiniteSetTheorems, TLAPS

-----------------------------------------------------------------------------
(* The line *)

(* The halves in the order they are sent. *)
HalfNo(h) == [n |-> (h + 1) \div 2, part |-> IF h % 2 = 1 THEN 1 ELSE 2]

dispatched == acked + started

taken == 2 * dispatched + (IF lpc = "read" THEN 1 ELSE IF lpc = "dispatch" THEN 2 ELSE 0)

LineInv ==
  /\ Len(line) = 2 * sentFrames - taken /\ taken <= 2 * sentFrames
  /\ \A i \in 1..Len(line) : line[i] = HalfNo(taken + i)
  /\ lpc \in {"read", "dispatch"} => Recv_Frame[1] = HalfNo(2 * dispatched + 1)
  /\ lpc = "dispatch" => Recv_Frame[2] = HalfNo(2 * dispatched + 2)

-----------------------------------------------------------------------------
(* The processors *)

At(pcs) == {p \in Procs : ppc[p] \in pcs}
ToLog == {"test", "log", "logrest"}
ToHandle == {"type", "data"}
Early == At(ToLog)
Late == At(ToHandle)

(* Each processor started has a frame to log or answer, or has done so, and *)
(* each frame logged is handled or has a processor that will.               *)
CountInv ==
  /\ Len(logged) + inits + Cardinality(Early) = started
  /\ Len(handled) + Cardinality(Late) = Len(logged)
  /\ \A p \in Procs : p > started => ppc[p] = "idle"

-----------------------------------------------------------------------------
(* Each frame comes when the one before has been handled *)

(* The frame sent last is on its way to its processor ... *)
OnItsWay ==
  /\ dispatched + 1 = sentFrames
  /\ lpc # "beat"
  /\ \A p \in Procs : ppc[p] = "idle"

(* ... or has come to it. *)
HasCome ==
  /\ dispatched = sentFrames
  /\ sentFrames > 0 => /\ Recv_Frame[1] = [n |-> sentFrames, part |-> 1]
                       /\ Recv_Frame[2] = [n |-> sentFrames, part |-> 2]
  /\ \A p \in Procs : ppc[p] # "idle" =>
       /\ p = started /\ sentFrames > 0 /\ kinds[sentFrames] # "ack"
       /\ ppc[p] \notin {"test", "logsent"} => kinds[sentFrames] = "command"
       /\ ppc[p] \in {"logrest", "data"} => view[p] = Recv_Frame[1]

(* How many of the frames sent have been looked at, logged and handled.     *)
AllBut(waiting) == IF dispatched < sentFrames \/ waiting THEN sentFrames - 1 ELSE sentFrames
Tested == AllBut(\E p \in Procs : ppc[p] = "test")
Logged == AllBut(Early # {})
Handled == AllBut(Early \cup Late # {})

CalmCounts ==
  /\ AreCommands(logged) /\ Len(logged) = Among("command", Logged)
  /\ AreCommands(handled) /\ Len(handled) = Among("command", Handled)
  /\ inits = Among("request", Tested)

CalmMarks ==
  /\ lpc = "dispatch" \/ Early # {} => g_oreintation = "R"
  /\ lpc = "beat" \/ (\E p \in Procs : ppc[p] = "logsent") => g_oreintation = "T"
  /\ marks["received"] \subseteq {"R"} /\ marks["sent"] \subseteq {"T"}

CalmInv == calm => (OnItsWay \/ HasCome) /\ CalmCounts /\ CalmMarks

LinkInv == TypeOK /\ LineInv /\ CountInv
IInv == LinkInv /\ AcksReachDownload /\ CalmInv

-----------------------------------------------------------------------------
(* Operators *)

LEMMA HalfNumbers ==
  ASSUME NEW m \in Nat
  PROVE  /\ HalfNo(2 * m + 1) = [n |-> m + 1, part |-> 1]
         /\ HalfNo(2 * m + 2) = [n |-> m + 1, part |-> 2]
BY DEF HalfNo

LEMMA AmongType ==
  ASSUME NEW kind, NEW m \in Nat
  PROVE  /\ Among(kind, m) \in Nat
         /\ Among(kind, 0) = 0
         /\ Among(kind, m + 1) = Among(kind, m) + (IF kinds[m + 1] = kind THEN 1 ELSE 0)
<1> DEFINE S == {j \in 1..m : kinds[j] = kind}
           T == {j \in 1..(m + 1) : kinds[j] = kind}
<1>1. IsFiniteSet(1..m) /\ S \subseteq 1..m
  BY FS_Interval
<1>2. IsFiniteSet(S) /\ Cardinality(S) \in Nat
  BY <1>1, FS_Subset, FS_CardinalityType
<1>3. Among(kind, 0) = 0
  <2>1. {j \in 1..0 : kinds[j] = kind} = {}
    OBVIOUS
  <2> QED BY <2>1, FS_EmptySet DEF Among
<1>4. CASE kinds[m + 1] = kind
  <2>1. T = S \cup {m + 1} /\ m + 1 \notin S
    BY <1>4
  <2>2. Cardinality(T) = Cardinality(S) + 1
    BY <2>1, <1>2, FS_AddElement
  <2> QED BY <1>2, <1>3, <1>4, <2>2 DEF Among
<1>5. CASE kinds[m + 1] # kind
  <2>1. T = S
    BY <1>5
  <2> QED BY <1>2, <1>3, <1>5, <2>1 DEF Among
<1> QED BY <1>4, <1>5

(* What the server sends later does not change what it has sent. *)
LEMMA AmongKeeps ==
  ASSUME \A j \in 1..sentFrames : kinds'[j] = kinds[j], NEW kind, NEW m \in Nat,
         m <= sentFrames, sentFrames \in Nat
  PROVE  Among(kind, m)' = Among(kind, m)
<1>1. {j \in 1..m : kinds'[j] = kind} = {j \in 1..m : kinds[j] = kind}
  OBVIOUS
<1> QED BY <1>1 DEF Among

-----------------------------------------------------------------------------
(* Steps *)

LEMMA Bounds ==
  ASSUME TypeOK, LineInv
  PROVE  /\ sentFrames \in Nat /\ sentFrames <= Frames /\ Frames \in Nat
         /\ acked \in Nat /\ started \in Nat /\ dispatched \in Nat /\ taken \in Nat
         /\ dispatched <= sentFrames
         /\ lpc \in {"read", "dispatch"} => dispatched < sentFrames
         /\ dispatched = sentFrames => Len(line) = 0 /\ line = <<>>
         /\ Len(line) \in Nat
<1>1. /\ sentFrames \in Nat /\ sentFrames <= Frames /\ Frames \in Nat
      /\ acked \in Nat /\ started \in Nat /\ dispatched \in Nat /\ Len(line) \in Nat
  BY LinkAssumption, LenProperties DEF TypeOK, sentFrames, dispatched
<1>2. taken \in Nat /\ taken <= 2 * sentFrames /\ Len(line) = 2 * sentFrames - taken
  BY <1>1 DEF LineInv, taken
<1>3. dispatched <= sentFrames /\ (lpc \in {"read", "dispatch"} => dispatched < sentFrames)
  BY <1>1, <1>2 DEF taken
<1>4. dispatched = sentFrames => Len(line) = 0
  <2>1. dispatched = sentFrames => taken >= 2 * sentFrames
    BY <1>1 DEF taken
  <2> QED BY <1>1, <1>2, <2>1
<1>5. Len(line) = 0 => line = <<>>
  BY EmptySeq DEF TypeOK
<1> QED BY <1>1, <1>2, <1>3, <1>4, <1>5

LEMMA Dispatching ==
  ASSUME TypeOK, LineInv, lpc = "dispatch"
  PROVE  /\ Recv_Frame[1] = [n |-> dispatched + 1, part |-> 1]
         /\ Recv_Frame[2] = [n |-> dispatched + 1, part |-> 2]
         /\ KindOf(Recv_Frame[1]) = kinds[dispatched + 1]
         /\ dispatched + 1 \in 1..sentFrames
<1>1. dispatched \in Nat /\ dispatched < sentFrames /\ sentFrames \in Nat
  BY Bounds
<1>2. /\ Recv_Frame[1] = [n |-> dispatched + 1, part |-> 1]
      /\ Recv_Frame[2] = [n |-> dispatched + 1, part |-> 2]
  BY <1>1, HalfNumbers DEF LineInv
<1> QED BY <1>1, <1>2 DEF KindOf

LEMMA SendFacts ==
  ASSUME TypeOK, Send
  PROVE  /\ kinds' \in Seq(Kinds) /\ sentFrames' = sentFrames + 1 /\ sentFrames \in Nat
         /\ sentFrames + 1 \in 1..Frames
         /\ \A j \in 1..sentFrames : kinds'[j] = kinds[j]
         /\ kinds'[sentFrames + 1] \in Kinds
         /\ line' \in Seq(Half) /\ Len(line') = Len(line) + 2 /\ Len(line) \in Nat
         /\ \A i \in 1..Len(line) : line'[i] = line[i]
         /\ line'[Len(line) + 1] = [n |-> sentFrames + 1, part |-> 1]
         /\ line'[Len(line) + 2] = [n |-> sentFrames + 1, part |-> 2]
<1>1. PICK k \in Kinds : kinds' = Append(kinds, k)
  BY DEF Send
<1>2. /\ kinds' \in Seq(Kinds) /\ Len(kinds') = Len(kinds) + 1 /\ Len(kinds) \in Nat
      /\ \A j \in 1..Len(kinds) : kinds'[j] = kinds[j]
      /\ kinds'[Len(kinds) + 1] = k
  BY <1>1, AppendProperties, LenProperties DEF TypeOK
<1>3. Len(kinds) + 1 \in 1..Frames
  BY <1>2, LinkAssumption DEF Send, sentFrames
<1> DEFINE f == Frame(sentFrames + 1)
<1>4. /\ f \in Seq(Half) /\ Len(f) = 2
      /\ f[1] = [n |-> sentFrames + 1, part |-> 1]
      /\ f[2] = [n |-> sentFrames + 1, part |-> 2]
  BY <1>3 DEF Frame, Half, sentFrames
<1>5. line' = line \o f /\ line \in Seq(Half)
  BY DEF Send, TypeOK
<1> HIDE DEF f
<1>6. /\ line' \in Seq(Half) /\ Len(line') = Len(line) + 2 /\ Len(line) \in Nat
      /\ \A i \in 1..(Len(line) + 2) : line'[i] = IF i <= Len(line) THEN line[i] ELSE f[i - Len(line)]
  <2>1. /\ line' \in Seq(Half) /\ Len(line') = Len(line) + Len(f) /\ Len(line) \in Nat
        /\ \A i \in 1..(Len(line) + Len(f)) :
             line'[i] = IF i <= Len(line) THEN line[i] ELSE f[i - Len(line)]
    BY <1>4, <1>5, ConcatProperties, LenProperties
  <2> QED BY <1>4, <2>1
<1>7. /\ line'[Len(line) + 1] = f[1] /\ line'[Len(line) + 2] = f[2]
      /\ \A i \in 1..Len(line) : line'[i] = line[i]
  BY <1>6
<1> QED BY <1>1, <1>2, <1>3, <1>4, <1>6, <1>7 DEF sentFrames

LEMMA LineStep ==
  ASSUME TypeOK, LineInv, [Next]_vars
  PROVE  LineInv'
<1>0. /\ sentFrames \in Nat /\ acked \in Nat /\ started \in Nat /\ dispatched \in Nat
      /\ taken \in Nat /\ Len(line) \in Nat
      /\ Len(line) = 2 * sentFrames - taken /\ taken <= 2 * sentFrames
      /\ \A i \in 1..Len(line) : line[i] = HalfNo(taken + i)
  BY Bounds DEF LineInv
<1>1. CASE Send
  <2>1. UNCHANGED <<lpc, acked, started, Recv_Frame>> /\ taken' = taken /\ dispatched' = dispatched
    BY <1>1 DEF Send, listener, processors, taken, dispatched
  <2>2. Len(line') = 2 * sentFrames' - taken' /\ taken' <= 2 * sentFrames'
    BY <1>0, <1>1, <2>1, SendFacts
  <2>3. ASSUME NEW i \in 1..Len(line') PROVE line'[i] = HalfNo(taken' + i)
    <3>1. CASE i \in 1..Len(line)
      BY <1>0, <1>1, <2>1, <3>1, SendFacts
    <3>2. CASE i = Len(line) + 1
      <4>1. taken + i = 2 * sentFrames + 1
        BY <1>0, <3>2
      <4> QED BY <1>0, <1>1, <2>1, <3>2, <4>1, SendFacts, HalfNumbers
    <3>3. CASE i = Len(line) + 2
      <4>1. taken + i = 2 * sentFrames + 2
        BY <1>0, <3>3
      <4> QED BY <1>0, <1>1, <2>1, <3>3, <4>1, SendFacts, HalfNumbers
    <3>4. Len(line') = Len(line) + 2
      BY <1>1, SendFacts
    <3>5. i \in 1..Len(line) \/ i = Len(line) + 1 \/ i = Len(line) + 2
      BY <1>0, <3>4
    <3> QED BY <3>1, <3>2, <3>3, <3>5
  <2> QED BY <2>1, <2>2, <2>3 DEF LineInv
<1>2. ASSUME line # <<>>, line' = Tail(line), taken' = taken + 1, kinds' = kinds
      PROVE  /\ Len(line') = 2 * sentFrames' - taken' /\ taken' <= 2 * sentFrames'
             /\ \A i \in 1..Len(line') : line'[i] = HalfNo(taken' + i)
             /\ Head(line) = HalfNo(taken + 1)
  <2>1. line \in Seq(Half)
    BY DEF TypeOK
  <2>2. /\ Len(line') = Len(line) - 1 /\ \A i \in 1..Len(line') : line'[i] = line[i + 1]
        /\ Head(line) = line[1] /\ Len(line) > 0
    BY <1>2, <2>1, HeadTailProperties, EmptySeq
  <2>3. ASSUME NEW i \in 1..Len(line') PROVE line'[i] = HalfNo(taken' + i)
    <3>1. i + 1 \in 1..Len(line) /\ taken + (i + 1) = taken' + i
      BY <1>0, <1>2, <2>2
    <3> QED BY <1>0, <2>2, <3>1
  <2>4. 1 \in 1..Len(line)
    BY <1>0, <2>2
  <2> QED BY <1>0, <1>2, <2>2, <2>3, <2>4 DEF sentFrames
<1>3. CASE Recv
  <2>1. /\ taken' = taken + 1 /\ taken = 2 * dispatched /\ dispatched' = dispatched
        /\ lpc' = "read"
    BY <1>0, <1>3 DEF Recv, processors, taken, dispatched
  <2>2. Recv_Frame'[1] = Head(line)
    BY <1>3 DEF Recv, TypeOK
  <2> QED BY <1>2, <1>3, <2>1, <2>2 DEF Recv, LineInv
<1>4. CASE RecvRest
  <2>1. /\ taken' = taken + 1 /\ taken = 2 * dispatched + 1 /\ dispatched' = dispatched
        /\ lpc' = "dispatch" /\ taken + 1 = 2 * dispatched + 2
    BY <1>0, <1>4 DEF RecvRest, processors, taken, dispatched
  <2>2. Recv_Frame'[2] = Head(line) /\ Recv_Frame'[1] = Recv_Frame[1]
    BY <1>4 DEF RecvRest, TypeOK
  <2>3. Recv_Frame[1] = HalfNo(2 * dispatched + 1)
    BY <1>4 DEF RecvRest, LineInv
  <2> QED BY <1>2, <1>4, <2>1, <2>2, <2>3 DEF RecvRest, LineInv
<1>5. CASE Dispatch
  <2>1. dispatched' = dispatched + 1 /\ lpc' = "select"
    BY <1>0, <1>5 DEF Dispatch, dispatched
  <2>2. taken' = taken
    BY <1>0, <1>5, <2>1 DEF Dispatch, taken
  <2>3. UNCHANGED <<kinds, line>>
    BY <1>5 DEF Dispatch
  <2> QED BY <2>1, <2>2, <2>3 DEF LineInv, sentFrames
<1>6. CASE Beat \/ LogBeat
  <2>1. /\ UNCHANGED <<kinds, line, acked, started>>
        /\ lpc \in {"select", "beat"} /\ lpc' \in {"select", "beat"}
    BY <1>6 DEF Beat, LogBeat, processors
  <2> QED BY <2>1 DEF LineInv, sentFrames, taken, dispatched
<1>7. CASE UNCHANGED <<kinds, line, Recv_Frame, lpc, acked, started>>
  BY <1>7 DEF LineInv, sentFrames, taken, dispatched
<1>8. ASSUME NEW p \in Procs, Processor(p)
      PROVE  UNCHANGED <<kinds, line, Recv_Frame, lpc, acked, started>>
  BY <1>8 DEF Processor, TestType, BeginLog, Log, BeginHandle, Begin, Handle, Answer, LogAnswer,
              listener, processors
<1>9. CASE UNCHANGED vars
  BY <1>7, <1>9 DEF vars, listener, processors
<1> QED BY <1>1, <1>3, <1>4, <1>5, <1>6, <1>7, <1>8, <1>9 DEF Next, Listener

LEMMA AckStep ==
  ASSUME TypeOK, LineInv, AcksReachDownload, [Next]_vars
  PROVE  AcksReachDownload'
<1>0. sentFrames \in Nat /\ acked \in Nat /\ started \in Nat /\ dispatched \in Nat /\ dispatched <= sentFrames
  BY Bounds
<1>1. CASE Send
  <2>1. UNCHANGED <<acked, started>>
    BY <1>1 DEF Send, processors
  <2>2. \A j \in 1..sentFrames : kinds'[j] = kinds[j]
    BY <1>1, SendFacts
  <2>3. {j \in 1..(acked' + started') : kinds'[j] = "ack"}
          = {j \in 1..(acked + started) : kinds[j] = "ack"}
    <3>1. acked + started <= sentFrames /\ acked' + started' = acked + started
      BY <1>0, <2>1 DEF dispatched
    <3>2. \A j \in 1..(acked + started) : kinds'[j] = kinds[j]
      BY <1>0, <2>2, <3>1
    <3> QED BY <3>1, <3>2
  <2>4. Among("ack", acked + started)' = Among("ack", acked + started)
    BY <2>3 DEF Among
  <2> QED BY <2>1, <2>4 DEF AcksReachDownload
<1>2. CASE Dispatch
  <2>1. /\ KindOf(Recv_Frame[1]) = kinds[dispatched + 1] /\ kinds' = kinds
        /\ IF kinds[dispatched + 1] = "ack"
           THEN acked' = acked + 1 /\ started' = started
           ELSE acked' = acked /\ started' = started + 1
    BY <1>2, Dispatching DEF Dispatch
  <2>2. dispatched' = dispatched + 1
    BY <1>0, <2>1 DEF dispatched
  <2>3. Among("ack", dispatched + 1)
          = Among("ack", dispatched) + (IF kinds[dispatched + 1] = "ack" THEN 1 ELSE 0)
    BY <1>0, AmongType
  <2>4. acked' = Among("ack", dispatched')
    BY <1>0, <2>1, <2>2, <2>3 DEF AcksReachDownload, dispatched
  <2> QED BY <2>1, <2>4 DEF AcksReachDownload, Among, dispatched
<1>3. CASE UNCHANGED <<kinds, acked, started>>
  BY <1>3 DEF AcksReachDownload, Among
<1>4. CASE Recv \/ RecvRest \/ Beat \/ LogBeat
  BY <1>3, <1>4 DEF Recv, RecvRest, Beat, LogBeat, processors
<1>5. ASSUME NEW p \in Procs, Processor(p)
      PROVE  UNCHANGED <<kinds, acked, started>>
  BY <1>5 DEF Processor, TestType, BeginLog, Log, BeginHandle, Begin, Handle, Answer, LogAnswer,
              listener, processors
<1>6. CASE UNCHANGED vars
  BY <1>3, <1>6 DEF vars, processors
<1> QED BY <1>1, <1>2, <1>3, <1>4, <1>5, <1>6 DEF Next, Listener

-----------------------------------------------------------------------------
(* Counting the processors *)

PCs == {"idle", "test", "log", "logrest", "type", "data", "send", "logsent", "logunsent"}

LEMMA AtFinite ==
  ASSUME NEW Q
  PROVE  /\ IsFiniteSet(At(Q)) /\ Cardinality(At(Q)) \in Nat
         /\ Cardinality(At(Q)') \in Nat
<1>1. IsFiniteSet(Procs) /\ At(Q) \subseteq Procs /\ At(Q)' \subseteq Procs
  BY LinkAssumption, FS_Interval DEF Procs, At
<1>2. \A S \in SUBSET Procs : IsFiniteSet(S) /\ Cardinality(S) \in Nat
  BY <1>1, FS_Subset, FS_CardinalityType
<1> QED BY <1>1, <1>2

(* One processor goes from ppc[p] to b. *)
LEMMA ProcessorMoves ==
  ASSUME ppc \in [Procs -> PCs], NEW p \in Procs, NEW b, Goto(p, b), NEW Q
  PROVE  Cardinality(At(Q)') = Cardinality(At(Q))
           - (IF ppc[p] \in Q THEN 1 ELSE 0) + (IF b \in Q THEN 1 ELSE 0)
<1>0. IsFiniteSet(At(Q)) /\ Cardinality(At(Q)) \in Nat
  BY AtFinite
<1>1. \A q \in Procs : ppc'[q] = IF q = p THEN b ELSE ppc[q]
  BY DEF Goto
<1>2. CASE (ppc[p] \in Q) = (b \in Q)
  <2>1. At(Q)' = At(Q)
    BY <1>1, <1>2 DEF At
  <2> QED BY <1>0, <1>2, <2>1
<1>3. CASE ppc[p] \in Q /\ b \notin Q
  <2>1. At(Q)' = At(Q) \ {p} /\ p \in At(Q)
    BY <1>1, <1>3 DEF At
  <2>2. Cardinality(At(Q)') = Cardinality(At(Q)) - 1
    BY <1>0, <2>1, FS_RemoveElement
  <2> QED BY <1>0, <1>3, <2>2
<1>4. CASE ppc[p] \notin Q /\ b \in Q
  <2>1. At(Q)' = At(Q) \cup {p} /\ p \notin At(Q)
    BY <1>1, <1>4 DEF At
  <2>2. Cardinality(At(Q)') = Cardinality(At(Q)) + 1
    BY <1>0, <2>1, FS_AddElement
  <2> QED BY <1>0, <1>4, <2>2
<1> QED BY <1>2, <1>3, <1>4

LEMMA CountFacts ==
  ASSUME TypeOK, CountInv
  PROVE  /\ ppc \in [Procs -> PCs]
         /\ Len(logged) \in Nat /\ Len(handled) \in Nat /\ inits \in Nat /\ started \in Nat
         /\ Cardinality(Early) \in Nat /\ Cardinality(Late) \in Nat
         /\ Len(handled) <= Len(logged) /\ Len(logged) + inits <= started
         /\ \A p \in Procs : ppc[p] # "idle" => p <= started
<1>1. /\ ppc \in [Procs -> PCs]
      /\ Len(logged) \in Nat /\ Len(handled) \in Nat /\ inits \in Nat /\ started \in Nat
  BY LinkAssumption, LenProperties DEF TypeOK, PCs
<1>2. Cardinality(Early) \in Nat /\ Cardinality(Late) \in Nat
  BY AtFinite DEF Early, Late
<1>3. \A p \in Procs : ppc[p] # "idle" => p <= started
  BY <1>1, LinkAssumption DEF CountInv, Procs
<1> QED BY <1>1, <1>2, <1>3 DEF CountInv

LEMMA AppendView ==
  ASSUME TypeOK, NEW s \in Seq(Views), NEW v \in Half \cup {Nothing}
  PROVE  /\ Append(s, <<v, Recv_Frame[2]>>) \in Seq(Views)
         /\ Len(Append(s, <<v, Recv_Frame[2]>>)) = Len(s) + 1 /\ Len(s) \in Nat
         /\ \A k \in 1..Len(s) : Append(s, <<v, Recv_Frame[2]>>)[k] = s[k]
         /\ Append(s, <<v, Recv_Frame[2]>>)[Len(s) + 1] = <<v, Recv_Frame[2]>>
<1>1. <<v, Recv_Frame[2]>> \in Views
  BY DEF TypeOK, Views
<1> QED BY <1>1, AppendProperties, LenProperties

LEMMA CountStep ==
  ASSUME TypeOK, LineInv, CountInv, [Next]_vars
  PROVE  CountInv'
<1>0. /\ ppc \in [Procs -> PCs]
      /\ Len(logged) \in Nat /\ Len(handled) \in Nat /\ inits \in Nat /\ started \in Nat
      /\ Cardinality(Early) \in Nat /\ Cardinality(Late) \in Nat
      /\ Len(logged) + inits + Cardinality(Early) = started
      /\ Len(handled) + Cardinality(Late) = Len(logged)
      /\ \A p \in Procs : p > started => ppc[p] = "idle"
      /\ \A p \in Procs : ppc[p] # "idle" => p <= started
  BY CountFacts DEF CountInv
<1>1. CASE UNCHANGED <<ppc, started, logged, handled, inits>>
  BY <1>1 DEF CountInv, Early, Late, At
<1>2. CASE Send \/ Recv \/ RecvRest \/ Beat \/ LogBeat \/ UNCHANGED vars
  BY <1>1, <1>2 DEF Send, Recv, RecvRest, Beat, LogBeat, vars, processors, log
<1>3. CASE Dispatch
  <2>1. CASE UNCHANGED <<ppc, started>>
    BY <1>1, <1>3, <2>1 DEF Dispatch, log
  <2>2. CASE started' = started + 1 /\ ppc' = [ppc EXCEPT ![started + 1] = "test"]
    <3>1. started + 1 \in Procs
      <4>1. dispatched + 1 \in 1..sentFrames /\ dispatched \in Nat /\ acked \in Nat
            /\ sentFrames <= Frames /\ Frames \in Nat /\ sentFrames \in Nat
        BY <1>3, Bounds, Dispatching DEF Dispatch
      <4>2. started + 1 <= 2 * Frames
        BY <1>0, <4>1 DEF dispatched
      <4> QED BY <1>0, <4>1, <4>2 DEF Procs
    <3>2. ppc[started + 1] = "idle"
      BY <1>0, <3>1
    <3>3. /\ Cardinality(Early') = Cardinality(Early) + 1
          /\ Cardinality(Late') = Cardinality(Late)
      <4>1. PICK p \in Procs : p = started + 1 /\ Goto(p, "test")
        BY <2>2, <3>1 DEF Goto
      <4>2. /\ Cardinality(At(ToLog)') = Cardinality(At(ToLog))
                 - (IF ppc[p] \in ToLog THEN 1 ELSE 0) + (IF "test" \in ToLog THEN 1 ELSE 0)
            /\ Cardinality(At(ToHandle)') = Cardinality(At(ToHandle))
                 - (IF ppc[p] \in ToHandle THEN 1 ELSE 0) + (IF "test" \in ToHandle THEN 1 ELSE 0)
        BY <1>0, <4>1, ProcessorMoves
      <4>3. /\ ppc[p] \notin ToLog /\ ppc[p] \notin ToHandle
            /\ "test" \in ToLog /\ "test" \notin ToHandle
        BY <3>2, <4>1 DEF ToLog, ToHandle
      <4> QED BY <1>0, <4>1, <4>2, <4>3 DEF Early, Late
    <3>4. \A p \in Procs : p > started' => ppc'[p] = "idle"
      <4>1. \A p \in Procs : p \in Nat
        BY LinkAssumption DEF Procs
      <4> QED BY <1>0, <2>2, <3>1, <4>1
    <3>5. UNCHANGED <<logged, handled, inits>>
      BY <1>3 DEF Dispatch, log
    <3> QED BY <1>0, <2>2, <3>3, <3>4, <3>5 DEF CountInv
  <2> QED BY <1>3, <2>1, <2>2 DEF Dispatch
<1>4. ASSUME NEW p \in Procs, Processor(p) PROVE CountInv'
  <2>1. started' = started
    BY <1>4 DEF Processor, TestType, BeginLog, Log, BeginHandle, Begin, Handle, Answer, LogAnswer,
                processors
  <2>2. ASSUME NEW b \in PCs, Goto(p, b), ppc[p] # "idle"
        PROVE  /\ Cardinality(Early') = Cardinality(Early)
                    - (IF ppc[p] \in ToLog THEN 1 ELSE 0)
                    + (IF b \in ToLog THEN 1 ELSE 0)
               /\ Cardinality(Late') = Cardinality(Late)
                    - (IF ppc[p] \in ToHandle THEN 1 ELSE 0)
                    + (IF b \in ToHandle THEN 1 ELSE 0)
               /\ \A q \in Procs : q > started' => ppc'[q] = "idle"
    <3>1. \A q \in Procs : q > started' => ppc'[q] = "idle"
      <4>1. p <= started /\ p \in Nat
        BY <1>0, <2>2, LinkAssumption DEF Procs
      <4> QED BY <1>0, <2>1, <2>2, <4>1 DEF Goto
    <3>2. Cardinality(At(ToLog)') = Cardinality(At(ToLog))
            - (IF ppc[p] \in ToLog THEN 1 ELSE 0) + (IF b \in ToLog THEN 1 ELSE 0)
      BY <1>0, <2>2, ProcessorMoves
    <3>3. Cardinality(At(ToHandle)') = Cardinality(At(ToHandle))
            - (IF ppc[p] \in ToHandle THEN 1 ELSE 0) + (IF b \in ToHandle THEN 1 ELSE 0)
      BY <1>0, <2>2, ProcessorMoves
    <3> QED BY <3>1, <3>2, <3>3 DEF Early, Late
  <2>3. CASE TestType(p)
    <3>1. CASE KindOf(Recv_Frame[1]) = "request"
      <4>1. ppc[p] = "test" /\ Goto(p, "logsent") /\ inits' = inits + 1
            /\ UNCHANGED <<logged, handled>>
        BY <2>3, <3>1 DEF TestType, Goto
      <4>2. /\ Cardinality(Early') = Cardinality(Early) - 1
            /\ Cardinality(Late') = Cardinality(Late)
            /\ \A q \in Procs : q > started' => ppc'[q] = "idle"
        BY <1>0, <2>2, <4>1 DEF PCs, ToLog, ToHandle
      <4> QED BY <1>0, <2>1, <4>1, <4>2 DEF CountInv
    <3>2. CASE KindOf(Recv_Frame[1]) # "request"
      <4>1. ppc[p] = "test" /\ Goto(p, "log")
            /\ UNCHANGED <<logged, handled, inits>>
        BY <2>3, <3>2 DEF TestType, Goto
      <4>2. /\ Cardinality(Early') = Cardinality(Early)
            /\ Cardinality(Late') = Cardinality(Late)
            /\ \A q \in Procs : q > started' => ppc'[q] = "idle"
        BY <1>0, <2>2, <4>1 DEF PCs, ToLog, ToHandle
      <4> QED BY <1>0, <2>1, <4>1, <4>2 DEF CountInv
    <3> QED BY <3>1, <3>2
  <2>4. CASE BeginLog(p) \/ BeginHandle(p)
    <3>1. PICK b \in {"logrest", "data"} :
            /\ ppc[p] = IF b = "logrest" THEN "log" ELSE "type"
            /\ Goto(p, b)
            /\ UNCHANGED <<logged, handled, inits>>
      BY <2>4 DEF BeginLog, BeginHandle, Begin, Goto, log
    <3>2. /\ Cardinality(Early') = Cardinality(Early)
          /\ Cardinality(Late') = Cardinality(Late)
          /\ \A q \in Procs : q > started' => ppc'[q] = "idle"
      <4>1. /\ b \in PCs /\ ppc[p] # "idle" /\ (b \in ToLog) = (ppc[p] \in ToLog)
            /\ (b \in ToHandle) = (ppc[p] \in ToHandle)
        BY <3>1 DEF PCs, ToLog, ToHandle
      <4> QED BY <1>0, <2>2, <3>1, <4>1
    <3> QED BY <1>0, <2>1, <3>1, <3>2 DEF CountInv
  <2>5. CASE Log(p)
    <3>1. ppc[p] = "logrest" /\ Goto(p, "type")
          /\ UNCHANGED <<handled, inits>> /\ logged' = Append(logged, <<view[p], Recv_Frame[2]>>)
      BY <2>5 DEF Log, Goto
    <3>2. Len(logged') = Len(logged) + 1
      BY <3>1, AppendView DEF TypeOK
    <3>3. /\ Cardinality(Early') = Cardinality(Early) - 1
          /\ Cardinality(Late') = Cardinality(Late) + 1
          /\ \A q \in Procs : q > started' => ppc'[q] = "idle"
      <4>1. /\ "type" \in PCs /\ ppc[p] # "idle" /\ ppc[p] \in ToLog \ ToHandle
            /\ "type" \in ToHandle \ ToLog
        BY <3>1 DEF PCs, ToLog, ToHandle
      <4> QED BY <1>0, <2>2, <3>1, <4>1
    <3> QED BY <1>0, <2>1, <3>1, <3>2, <3>3 DEF CountInv
  <2>6. CASE Handle(p)
    <3>1. PICK b \in {"idle", "send", "logunsent"} :
            /\ ppc[p] = "data" /\ Goto(p, b)
            /\ UNCHANGED <<logged, inits>> /\ handled' = Append(handled, <<view[p], Recv_Frame[2]>>)
      BY <2>6 DEF Handle, Goto, log
    <3>2. Len(handled') = Len(handled) + 1
      BY <3>1, AppendView DEF TypeOK
    <3>3. /\ Cardinality(Early') = Cardinality(Early)
          /\ Cardinality(Late') = Cardinality(Late) - 1
          /\ \A q \in Procs : q > started' => ppc'[q] = "idle"
      <4>1. /\ b \in PCs /\ ppc[p] # "idle" /\ ppc[p] \in ToHandle \ ToLog
            /\ b \notin ToLog /\ b \notin ToHandle
        BY <3>1 DEF PCs, ToLog, ToHandle
      <4> QED BY <1>0, <2>2, <3>1, <4>1
    <3> QED BY <1>0, <2>1, <3>1, <3>2, <3>3 DEF CountInv
  <2>7. CASE Answer(p) \/ LogAnswer(p)
    <3>1. PICK b \in {"idle", "logsent"} :
            /\ ppc[p] \in {"send", "logsent", "logunsent"} /\ Goto(p, b)
            /\ UNCHANGED <<logged, handled, inits>>
      BY <2>7 DEF Answer, LogAnswer, Goto
    <3>2. /\ Cardinality(Early') = Cardinality(Early)
          /\ Cardinality(Late') = Cardinality(Late)
          /\ \A q \in Procs : q > started' => ppc'[q] = "idle"
      <4>1. /\ b \in PCs /\ ppc[p] # "idle" /\ ppc[p] \notin ToLog /\ ppc[p] \notin ToHandle
            /\ b \notin ToLog /\ b \notin ToHandle
        BY <3>1 DEF PCs, ToLog, ToHandle
      <4> QED BY <1>0, <2>2, <3>1, <4>1
    <3> QED BY <1>0, <2>1, <3>1, <3>2 DEF CountInv
  <2> QED BY <1>4, <2>3, <2>4, <2>5, <2>6, <2>7 DEF Processor
<1> QED BY <1>2, <1>3, <1>4 DEF Next, Listener

LEMMA TypeStep ==
  ASSUME TypeOK, LineInv, CountInv, [Next]_vars
  PROVE  TypeOK'
<1>0. /\ Frames \in Nat /\ Sends \in Nat /\ LineInv' /\ CountInv'
      /\ sentFrames \in Nat /\ acked \in Nat /\ started \in Nat
  BY LinkAssumption, LineStep, CountStep, Bounds
<1>1. Nothing \in Half \cup {Nothing} /\ Recv_Frame[1] \in Half \cup {Nothing}
  BY DEF TypeOK
<1>2. ASSUME UNCHANGED <<kinds, line, Recv_Frame, lpc, started, acked, calm>>,
             ppc' \in [Procs -> PCs], view' \in [Procs -> Half \cup {Nothing}],
             sends' \in 0..Sends, inits' \in Nat,
             g_oreintation' \in {"R", "T"},
             marks' \in [{"received", "sent", "unsent"} -> SUBSET {"R", "T"}],
             logged' \in Seq(Views), handled' \in Seq(Views)
      PROVE  TypeOK'
  <2>1. /\ Len(logged') \in Nat /\ Len(handled') \in Nat
        /\ Cardinality(Early') \in Nat /\ Cardinality(Late') \in Nat
    BY <1>2, LenProperties, AtFinite DEF Early, Late
  <2>2. Len(handled') <= Len(logged') /\ Len(logged') + inits' <= started' /\ inits' <= started'
    <3>1. /\ Len(logged') + inits' + Cardinality(Early') = started'
          /\ Len(handled') + Cardinality(Late') = Len(logged')
      BY <1>0 DEF CountInv
    <3>2. inits' \in Nat /\ started' \in Nat
      BY <1>0, <1>2
    <3> QED BY <2>1, <3>1, <3>2
  <2>3. inits' \in 0..started'
    BY <1>0, <1>2, <2>2
  <2> QED BY <1>2, <2>2, <2>3 DEF TypeOK, PCs, sentFrames
<1>3. Marked("received") \in [{"received", "sent", "unsent"} -> SUBSET {"R", "T"}]
      /\ Marked("sent") \in [{"received", "sent", "unsent"} -> SUBSET {"R", "T"}]
      /\ Marked("unsent") \in [{"received", "sent", "unsent"} -> SUBSET {"R", "T"}]
  BY DEF Marked, TypeOK
<1>4. CASE Send
  <2>1. /\ kinds' \in Seq(Kinds) /\ sentFrames' <= Frames /\ line' \in Seq(Half)
    BY <1>0, <1>4, SendFacts
  <2>2. calm' \in BOOLEAN
    BY <1>4 DEF Send, TypeOK
  <2> QED BY <1>4, <2>1, <2>2 DEF Send, TypeOK, listener, processors, log
<1>5. CASE Recv \/ RecvRest
  <2>1. line' \in Seq(Half) /\ Head(line) \in Half
    <3>1. line \in Seq(Half) /\ line # <<>> /\ line' = Tail(line)
      BY <1>5 DEF Recv, RecvRest, TypeOK
    <3> QED BY <3>1, HeadTailProperties
  <2>2. Recv_Frame' \in [{1, 2} -> Half \cup {Nothing}]
    BY <1>5, <2>1 DEF Recv, RecvRest, TypeOK
  <2> QED BY <1>5, <2>1, <2>2 DEF Recv, RecvRest, TypeOK, processors, log, sentFrames
<1>6. CASE Dispatch
  <2>1. started' \in 0..(2 * Frames) /\ acked' \in Nat
    <3>1. /\ sentFrames' \in Nat /\ sentFrames' = sentFrames /\ sentFrames <= Frames
          /\ acked + started < sentFrames
      BY <1>0, <1>6, Bounds DEF Dispatch, sentFrames, dispatched
    <3> QED BY <1>0, <1>6, <3>1 DEF Dispatch
  <2>2. ppc' \in [Procs -> PCs]
    BY <1>6, CountFacts DEF Dispatch, PCs
  <2>3. UNCHANGED <<inits, logged, handled>> /\ started' >= started
    BY <1>0, <1>6 DEF Dispatch, log
  <2>4. /\ Len(logged) + inits <= started' /\ inits \in 0..started'
    <3>1. Len(logged) \in Nat /\ inits \in Nat /\ Len(logged) + inits <= started
      BY CountFacts
    <3> QED BY <1>0, <2>1, <2>3, <3>1
  <2> QED BY <1>6, <2>1, <2>2, <2>3, <2>4 DEF Dispatch, TypeOK, PCs, log, sentFrames
<1>7. CASE Beat
  BY <1>7, <1>0 DEF Beat, TypeOK, processors, sentFrames
<1>8. CASE LogBeat
  BY <1>8, <1>3 DEF LogBeat, TypeOK, processors, sentFrames
<1>9. ASSUME NEW p \in Procs, TestType(p) PROVE TypeOK'
  <2>1. ppc' \in [Procs -> PCs] /\ inits' \in Nat
    BY <1>9, CountFacts DEF TestType, Goto, PCs
  <2> QED BY <1>2, <1>9, <2>1 DEF TestType, TypeOK, listener
<1>10. ASSUME NEW p \in Procs, BeginLog(p) \/ BeginHandle(p) PROVE TypeOK'
  <2>1. ppc' \in [Procs -> PCs] /\ view' \in [Procs -> Half \cup {Nothing}] /\ inits' \in Nat
    BY <1>1, <1>10, CountFacts DEF BeginLog, BeginHandle, Begin, Goto, PCs, TypeOK
  <2> QED BY <1>2, <1>10, <2>1 DEF BeginLog, BeginHandle, Begin, TypeOK, listener, log
<1>11. ASSUME NEW p \in Procs, Log(p) PROVE TypeOK'
  <2>1. ppc' \in [Procs -> PCs] /\ view' \in [Procs -> Half \cup {Nothing}] /\ inits' \in Nat
    BY <1>1, <1>11, CountFacts DEF Log, Goto, PCs, TypeOK
  <2>2. logged' \in Seq(Views)
    BY <1>11, AppendView DEF Log, TypeOK
  <2> QED BY <1>2, <1>3, <1>11, <2>1, <2>2 DEF Log, TypeOK, listener
<1>12. ASSUME NEW p \in Procs, Handle(p) PROVE TypeOK'
  <2>1. ppc' \in [Procs -> PCs] /\ view' \in [Procs -> Half \cup {Nothing}] /\ inits' \in Nat
    BY <1>1, <1>12, CountFacts DEF Handle, Goto, PCs, TypeOK
  <2>2. handled' \in Seq(Views)
    BY <1>12, AppendView DEF Handle, TypeOK
  <2>3. sends' \in 0..Sends
    BY <1>0, <1>12 DEF Handle, TypeOK
  <2> QED BY <1>2, <1>12, <2>1, <2>2, <2>3 DEF Handle, TypeOK, log
<1>13. ASSUME NEW p \in Procs, Answer(p) \/ LogAnswer(p) PROVE TypeOK'
  <2>1. ppc' \in [Procs -> PCs] /\ inits' \in Nat
    BY <1>13, CountFacts DEF Answer, LogAnswer, Goto, PCs
  <2> QED BY <1>2, <1>3, <1>13, <2>1 DEF Answer, LogAnswer, TypeOK, listener
<1>14. CASE UNCHANGED vars
  BY <1>14 DEF vars, TypeOK, listener, processors, log, sentFrames
<1> QED BY <1>4, <1>5, <1>6, <1>7, <1>8, <1>9, <1>10, <1>11, <1>12, <1>13, <1>14
    DEF Next, Listener, Processor

-----------------------------------------------------------------------------
(* Each frame comes when the one before has been handled *)

(* While processor p works, no other does, the frame sent last is in the    *)
(* buffer, and nothing waits behind it.                                     *)
Sole(p) ==
  /\ p = started /\ dispatched = sentFrames /\ sentFrames > 0
  /\ lpc \notin {"read", "dispatch"} /\ kinds[sentFrames] # "ack"
  /\ Recv_Frame[1] = [n |-> sentFrames, part |-> 1]
  /\ Recv_Frame[2] = [n |-> sentFrames, part |-> 2]
  /\ \A q \in Procs : q # p => ppc[q] = "idle"

(* CalmInv, told of the processor that works. *)
Working(p) ==
  /\ Sole(p)
  /\ ppc[p] \notin {"idle", "test", "logsent"} => kinds[sentFrames] = "command"
  /\ ppc[p] \in {"logrest", "data"} => view[p] = Recv_Frame[1]
  /\ AreCommands(logged)
  /\ Len(logged) = Among("command", IF ppc[p] \in ToLog THEN sentFrames - 1 ELSE sentFrames)
  /\ AreCommands(handled)
  /\ Len(handled) = Among("command", IF ppc[p] \in ToLog \cup ToHandle THEN sentFrames - 1 ELSE sentFrames)
  /\ inits = Among("request", IF ppc[p] = "test" THEN sentFrames - 1 ELSE sentFrames)
  /\ ppc[p] \in ToLog => g_oreintation = "R"
  /\ lpc = "beat" \/ ppc[p] = "logsent" => g_oreintation = "T"
  /\ marks["received"] \subseteq {"R"} /\ marks["sent"] \subseteq {"T"}

LEMMA SoleCounts ==
  ASSUME NEW p \in Procs, sentFrames \in Nat, Sole(p)
  PROVE  /\ Logged = IF ppc[p] \in ToLog THEN sentFrames - 1 ELSE sentFrames
         /\ Handled = IF ppc[p] \in ToLog \cup ToHandle THEN sentFrames - 1 ELSE sentFrames
         /\ Tested = IF ppc[p] = "test" THEN sentFrames - 1 ELSE sentFrames
         /\ Early # {} <=> ppc[p] \in ToLog
         /\ (\E q \in Procs : ppc[q] = "logsent") <=> ppc[p] = "logsent"
<1>1. ~(dispatched < sentFrames) /\ \A q \in Procs : q # p => ppc[q] = "idle"
  BY DEF Sole
<1>2. "idle" \notin ToLog /\ "idle" \notin ToHandle
  BY DEF ToLog, ToHandle
<1>3. (Early # {} <=> ppc[p] \in ToLog) /\ (Late # {} <=> ppc[p] \in ToHandle)
  BY <1>1, <1>2 DEF Early, Late, At
<1>4. (Early \cup Late # {} <=> ppc[p] \in ToLog \cup ToHandle)
  BY <1>3
<1>5. /\ (\E q \in Procs : ppc[q] = "logsent") <=> ppc[p] = "logsent"
      /\ (\E q \in Procs : ppc[q] = "test") <=> ppc[p] = "test"
  BY <1>1
<1> QED BY <1>1, <1>3, <1>4, <1>5 DEF Logged, Handled, Tested, AllBut

LEMMA SoleCountsNext ==
  ASSUME NEW p \in Procs, sentFrames' \in Nat, Sole(p)'
  PROVE  /\ Logged' = IF ppc'[p] \in ToLog THEN sentFrames' - 1 ELSE sentFrames'
         /\ Handled' = IF ppc'[p] \in ToLog \cup ToHandle THEN sentFrames' - 1 ELSE sentFrames'
         /\ Tested' = IF ppc'[p] = "test" THEN sentFrames' - 1 ELSE sentFrames'
         /\ Early' # {} <=> ppc'[p] \in ToLog
         /\ (\E q \in Procs : ppc'[q] = "logsent") <=> ppc'[p] = "logsent"
<1>1. ~(dispatched' < sentFrames') /\ \A q \in Procs : q # p => ppc'[q] = "idle"
  BY DEF Sole
<1>2. "idle" \notin ToLog /\ "idle" \notin ToHandle
  BY DEF ToLog, ToHandle
<1>3. (Early' # {} <=> ppc'[p] \in ToLog) /\ (Late' # {} <=> ppc'[p] \in ToHandle)
  BY <1>1, <1>2 DEF Early, Late, At
<1>4. (Early' \cup Late' # {} <=> ppc'[p] \in ToLog \cup ToHandle)
  BY <1>3
<1>5. /\ (\E q \in Procs : ppc'[q] = "logsent") <=> ppc'[p] = "logsent"
      /\ (\E q \in Procs : ppc'[q] = "test") <=> ppc'[p] = "test"
  BY <1>1
<1> QED BY <1>1, <1>3, <1>4, <1>5 DEF Logged, Handled, Tested, AllBut

LEMMA Works ==
  ASSUME TypeOK, LineInv, CalmInv, calm, NEW p \in Procs, ppc[p] # "idle"
  PROVE  Working(p)
<1>1. ~OnItsWay
  BY DEF OnItsWay
<1>2. HasCome /\ CalmCounts /\ CalmMarks
  BY <1>1 DEF CalmInv
<1>3. sentFrames \in Nat /\ lpc \notin {"read", "dispatch"}
  BY <1>2, Bounds DEF HasCome
<1>4. Sole(p)
  BY <1>2, <1>3 DEF HasCome, Sole
<1> QED BY <1>2, <1>3, <1>4, SoleCounts DEF HasCome, CalmCounts, CalmMarks, Working

(* The commands logged or handled so far stay so, whatever is sent next ... *)
LEMMA CommandsKept ==
  ASSUME \A j \in 1..sentFrames : kinds'[j] = kinds[j], sentFrames \in Nat, sentFrames' \in Nat,
         sentFrames <= sentFrames', NEW s, AreCommands(s)
  PROVE  \A k \in DOMAIN s : \E n \in 1..sentFrames' :
           kinds'[n] = "command" /\ Among("command", n)' = k /\ s[k] = Frame(n)
<1> SUFFICES ASSUME NEW k \in DOMAIN s
             PROVE  \E n \in 1..sentFrames' :
                      kinds'[n] = "command" /\ Among("command", n)' = k /\ s[k] = Frame(n)
  OBVIOUS
<1>1. PICK n \in 1..sentFrames : kinds[n] = "command" /\ Among("command", n) = k /\ s[k] = Frame(n)
  BY DEF AreCommands
<1>2. Among("command", n)' = Among("command", n)
  BY AmongKeeps
<1> QED BY <1>1, <1>2

(* ... and the newest goes to their end. *)
LEMMA CommandAdded ==
  ASSUME sentFrames \in Nat, sentFrames > 0, kinds[sentFrames] = "command",
         NEW s \in Seq(Views), AreCommands(s), Len(s) = Among("command", sentFrames - 1)
  PROVE  /\ AreCommands(Append(s, Frame(sentFrames)))
         /\ Len(Append(s, Frame(sentFrames))) = Among("command", sentFrames)
<1> DEFINE t == Append(s, Frame(sentFrames))
<1>1. /\ Len(t) = Len(s) + 1 /\ Len(s) \in Nat /\ DOMAIN t = 1..(Len(s) + 1) /\ DOMAIN s = 1..Len(s)
      /\ \A k \in 1..Len(s) : t[k] = s[k]
      /\ t[Len(s) + 1] = Frame(sentFrames)
  BY LenProperties
<1>2. Among("command", sentFrames) = Len(s) + 1
  <2>1. sentFrames - 1 \in Nat /\ (sentFrames - 1) + 1 = sentFrames
    OBVIOUS
  <2> QED BY <2>1, AmongType
<1> HIDE DEF t
<1>3. ASSUME NEW k \in DOMAIN t
      PROVE  \E n \in 1..sentFrames : kinds[n] = "command" /\ Among("command", n) = k /\ t[k] = Frame(n)
  <2>1. CASE k \in 1..Len(s)
    BY <1>1, <2>1 DEF AreCommands
  <2>2. CASE k = Len(s) + 1
    <3>1. sentFrames \in 1..sentFrames
      OBVIOUS
    <3> QED BY <1>1, <1>2, <2>2, <3>1
  <2> QED BY <1>1, <2>1, <2>2
<1>4. AreCommands(t) /\ Len(t) = Among("command", sentFrames)
  BY <1>1, <1>2, <1>3 DEF AreCommands
<1> QED BY <1>4 DEF t

LEMMA WorksOn ==
  ASSUME TypeOK, LineInv, NEW p \in Procs, Sole(p), NEW b, Goto(p, b),
         UNCHANGED <<kinds, Recv_Frame, lpc, started, acked>>,
         b \notin {"idle", "test", "logsent"} => kinds[sentFrames] = "command",
         b \in {"logrest", "data"} => view'[p] = Recv_Frame[1],
         AreCommands(logged'),
         Len(logged') = Among("command", IF b \in ToLog THEN sentFrames - 1 ELSE sentFrames),
         AreCommands(handled'),
         Len(handled') = Among("command", IF b \in ToLog \cup ToHandle THEN sentFrames - 1 ELSE sentFrames),
         inits' = Among("request", IF b = "test" THEN sentFrames - 1 ELSE sentFrames),
         b \in ToLog => g_oreintation' = "R",
         lpc = "beat" \/ b = "logsent" => g_oreintation' = "T",
         marks'["received"] \subseteq {"R"}, marks'["sent"] \subseteq {"T"}
  PROVE  CalmInv'
<1>1. ppc'[p] = b /\ \A q \in Procs : q # p => ppc'[q] = ppc[q]
  BY DEF Goto, TypeOK
<1>2. sentFrames' = sentFrames /\ sentFrames \in Nat /\ dispatched' = dispatched
  BY Bounds DEF sentFrames, dispatched
<1>3. Sole(p)'
  BY <1>1, <1>2 DEF Sole
<1>4. AreCommands(logged)' /\ AreCommands(handled)'
  <2>1. \A k \in DOMAIN logged' : \E n \in 1..sentFrames' :
          kinds'[n] = "command" /\ Among("command", n)' = k /\ logged'[k] = Frame(n)
    BY <1>2, CommandsKept
  <2>2. \A k \in DOMAIN handled' : \E n \in 1..sentFrames' :
          kinds'[n] = "command" /\ Among("command", n)' = k /\ handled'[k] = Frame(n)
    BY <1>2, CommandsKept
  <2> QED BY <2>1, <2>2 DEF AreCommands
<1>5. \A kind, m : Among(kind, m)' = Among(kind, m)
  BY DEF Among
<1>6. HasCome'
  BY <1>1, <1>2, <1>3 DEF HasCome, Sole
<1>7. CalmCounts'
  <2>1. /\ Logged' = IF b \in ToLog THEN sentFrames - 1 ELSE sentFrames
        /\ Handled' = IF b \in ToLog \cup ToHandle THEN sentFrames - 1 ELSE sentFrames
        /\ Tested' = IF b = "test" THEN sentFrames - 1 ELSE sentFrames
    BY <1>1, <1>2, <1>3, SoleCountsNext
  <2>2. /\ Len(logged') = Among("command", Logged') /\ Len(handled') = Among("command", Handled')
        /\ inits' = Among("request", Tested')
    BY <2>1
  <2>3. \A kind : /\ Among(kind, Logged)' = Among(kind, Logged')
                  /\ Among(kind, Handled)' = Among(kind, Handled')
                  /\ Among(kind, Tested)' = Among(kind, Tested')
    BY DEF Among
  <2> QED BY <1>4, <2>2, <2>3 DEF CalmCounts
<1>8. CalmMarks'
  BY <1>1, <1>2, <1>3, SoleCountsNext DEF CalmMarks, Sole
<1> QED BY <1>6, <1>7, <1>8 DEF CalmInv

LEMMA ProcessorCalm ==
  ASSUME TypeOK, LineInv, CalmInv, calm, NEW p \in Procs, Processor(p)
  PROVE  CalmInv'
<1>1. ppc[p] # "idle"
  BY DEF Processor, TestType, BeginLog, Log, BeginHandle, Begin, Handle, Answer, LogAnswer
<1>2. Working(p) /\ Sole(p)
  BY <1>1, Works DEF Working
<1>3. /\ sentFrames \in Nat /\ sentFrames > 0 /\ sentFrames \in 1..sentFrames
      /\ kinds[sentFrames] \in Kinds /\ kinds[sentFrames] # "ack"
      /\ KindOf(Recv_Frame[1]) = kinds[sentFrames]
      /\ <<Recv_Frame[1], Recv_Frame[2]>> = Frame(sentFrames)
  <2>1. sentFrames \in Nat /\ sentFrames > 0
    BY <1>2, Bounds DEF Sole
  <2>2. kinds[sentFrames] \in Kinds
    BY <2>1, ElementOfSeq DEF TypeOK, sentFrames
  <2> QED BY <1>2, <2>1, <2>2 DEF Sole, KindOf, Frame
<1>4. \A kind : Among(kind, sentFrames)
        = Among(kind, sentFrames - 1) + (IF kinds[sentFrames] = kind THEN 1 ELSE 0)
  <2>1. sentFrames - 1 \in Nat /\ (sentFrames - 1) + 1 = sentFrames
    BY <1>3
  <2> QED BY <2>1, AmongType
<1>5. kinds[sentFrames] \in {"request", "command"}
  BY <1>3, LinkAssumption
<1>6. \A kind : Among(kind, sentFrames) \in Nat /\ Among(kind, sentFrames - 1) \in Nat
  <2>1. sentFrames - 1 \in Nat
    BY <1>3
  <2> QED BY <1>3, <2>1, AmongType
<1>7. CASE TestType(p)
  <2>1. CASE kinds[sentFrames] = "request"
    <3>1. /\ ppc[p] = "test" /\ Goto(p, "logsent") /\ inits' = inits + 1 /\ g_oreintation' = "T"
          /\ UNCHANGED <<kinds, Recv_Frame, lpc, started, acked, logged, handled, marks>>
      BY <1>3, <1>7, <2>1 DEF TestType, listener
    <3>2. /\ inits + 1 = Among("request", sentFrames)
          /\ Len(logged) = Among("command", sentFrames)
          /\ Len(handled) = Among("command", sentFrames)
      BY <1>2, <1>4, <1>6, <2>1, <3>1 DEF Working, ToLog
    <3> QED BY <1>2, <3>1, <3>2, WorksOn DEF Working, ToLog, ToHandle
  <2>2. CASE kinds[sentFrames] = "command"
    <3>1. /\ ppc[p] = "test" /\ Goto(p, "log")
          /\ UNCHANGED <<kinds, Recv_Frame, lpc, started, acked, logged, handled, marks, inits,
                         g_oreintation>>
      BY <1>3, <1>7, <2>2 DEF TestType, listener
    <3>2. inits = Among("request", sentFrames)
      BY <1>2, <1>4, <1>6, <2>2, <3>1 DEF Working
    <3> QED BY <1>2, <2>2, <3>1, <3>2, WorksOn DEF Working, ToLog, ToHandle
  <2> QED BY <1>5, <2>1, <2>2
<1>8. CASE BeginLog(p)
  <2>1. /\ ppc[p] = "log" /\ Goto(p, "logrest") /\ view' = [view EXCEPT ![p] = Recv_Frame[1]]
        /\ UNCHANGED <<kinds, Recv_Frame, lpc, started, acked, logged, handled, marks, inits,
                       g_oreintation>>
    BY <1>8 DEF BeginLog, Begin, listener, log
  <2>2. view'[p] = Recv_Frame[1]
    BY <2>1 DEF TypeOK
  <2> QED BY <1>2, <2>1, <2>2, WorksOn DEF Working, ToLog, ToHandle
<1>9. CASE BeginHandle(p)
  <2>1. /\ ppc[p] = "type" /\ Goto(p, "data") /\ view' = [view EXCEPT ![p] = Recv_Frame[1]]
        /\ UNCHANGED <<kinds, Recv_Frame, lpc, started, acked, logged, handled, marks, inits,
                       g_oreintation>>
    BY <1>9 DEF BeginHandle, Begin, listener, log
  <2>2. view'[p] = Recv_Frame[1]
    BY <2>1 DEF TypeOK
  <2> QED BY <1>2, <2>1, <2>2, WorksOn DEF Working, ToLog, ToHandle
<1>10. CASE Log(p)
  <2>1. /\ ppc[p] = "logrest" /\ Goto(p, "type")
        /\ logged' = Append(logged, <<view[p], Recv_Frame[2]>>)
        /\ marks' = Marked("received")
        /\ UNCHANGED <<kinds, Recv_Frame, lpc, started, acked, handled, inits, g_oreintation>>
    BY <1>10 DEF Log, listener
  <2>2. /\ logged' = Append(logged, Frame(sentFrames)) /\ kinds[sentFrames] = "command"
        /\ Len(logged) = Among("command", sentFrames - 1) /\ g_oreintation = "R"
    BY <1>2, <1>3, <2>1 DEF Working, ToLog
  <2>3. AreCommands(logged') /\ Len(logged') = Among("command", sentFrames)
    BY <1>2, <1>3, <2>2, CommandAdded DEF TypeOK, Working
  <2>4. marks'["received"] \subseteq {"R"} /\ marks'["sent"] \subseteq {"T"}
    BY <1>2, <2>1, <2>2 DEF Working, Marked, TypeOK
  <2>5. Len(handled) = Among("command", sentFrames - 1) /\ inits = Among("request", sentFrames)
    BY <1>2, <2>1 DEF Working, ToLog
  <2> QED BY <1>2, <2>1, <2>2, <2>3, <2>4, <2>5, WorksOn DEF Working, ToLog, ToHandle
<1>11. CASE Handle(p)
  <2>1. /\ ppc[p] = "data" /\ handled' = Append(handled, <<view[p], Recv_Frame[2]>>)
        /\ \E pc \in {"idle", "send", "logunsent"} : Goto(p, pc)
        /\ UNCHANGED <<kinds, Recv_Frame, lpc, started, acked, logged, marks, inits, g_oreintation>>
    BY <1>11 DEF Handle, log
  <2>2. PICK pc \in {"idle", "send", "logunsent"} : Goto(p, pc)
    BY <2>1
  <2>3. /\ handled' = Append(handled, Frame(sentFrames)) /\ kinds[sentFrames] = "command"
        /\ Len(handled) = Among("command", sentFrames - 1)
    BY <1>2, <1>3, <2>1 DEF Working, ToLog, ToHandle
  <2>4. AreCommands(handled') /\ Len(handled') = Among("command", sentFrames)
    BY <1>2, <1>3, <2>3, CommandAdded DEF TypeOK, Working
  <2>5. Len(logged) = Among("command", sentFrames) /\ inits = Among("request", sentFrames)
    BY <1>2, <2>1 DEF Working, ToLog
  <2>6. /\ pc \notin {"logrest", "data"} /\ pc \notin ToLog /\ pc \notin ToLog \cup ToHandle
        /\ pc # "test" /\ pc # "logsent"
    BY DEF ToLog, ToHandle
  <2> QED BY <1>2, <2>1, <2>2, <2>3, <2>4, <2>5, <2>6, WorksOn DEF Working
<1>12. CASE Answer(p) \/ LogAnswer(p)
  <2>1. /\ ppc[p] \in {"send", "logsent", "logunsent"}
        /\ UNCHANGED <<kinds, Recv_Frame, lpc, started, acked, logged, handled, inits>>
    BY <1>12 DEF Answer, LogAnswer, listener
  <2>2. /\ Len(logged) = Among("command", sentFrames)
        /\ Len(handled) = Among("command", sentFrames)
        /\ inits = Among("request", sentFrames)
    BY <1>2, <2>1 DEF Working, ToLog, ToHandle
  <2>3. PICK pc \in {"idle", "logsent"} : Goto(p, pc)
    BY <1>12 DEF Answer, LogAnswer
  <2>4. /\ pc \notin {"logrest", "data"} /\ pc \notin ToLog /\ pc \notin ToLog \cup ToHandle
        /\ pc # "test"
    BY DEF ToLog, ToHandle
  <2>5. lpc = "beat" \/ pc = "logsent" => g_oreintation' = "T"
    BY <1>2, <1>12, <2>3 DEF Answer, LogAnswer, Goto, Working, TypeOK
  <2>6. marks'["received"] \subseteq {"R"} /\ marks'["sent"] \subseteq {"T"}
    <3>1. /\ marks \in [{"received", "sent", "unsent"} -> SUBSET {"R", "T"}]
          /\ marks["received"] \subseteq {"R"} /\ marks["sent"] \subseteq {"T"}
          /\ ppc[p] = "logsent" => g_oreintation = "T"
      BY <1>2 DEF Working, TypeOK
    <3>2. \/ marks' = marks
          \/ ppc[p] = "logsent" /\ marks' = [marks EXCEPT !["sent"] = @ \cup {g_oreintation}]
          \/ marks' = [marks EXCEPT !["unsent"] = @ \cup {g_oreintation}]
      BY <1>12 DEF Answer, LogAnswer, Marked
    <3> QED BY <3>1, <3>2
  <2> QED BY <1>2, <2>1, <2>2, <2>3, <2>4, <2>5, <2>6, WorksOn DEF Working
<1> QED BY <1>7, <1>8, <1>9, <1>10, <1>11, <1>12 DEF Processor

LEMMA SendCalm ==
  ASSUME TypeOK, LineInv, CalmInv, calm, Quiet, Send
  PROVE  CalmInv'
<1>1. /\ sentFrames' = sentFrames + 1 /\ sentFrames \in Nat
      /\ \A j \in 1..sentFrames : kinds'[j] = kinds[j]
  BY SendFacts
<1>2. /\ dispatched' = dispatched
      /\ UNCHANGED <<lpc, ppc, g_oreintation, logged, marks, handled, inits>>
  BY DEF Send, listener, processors, log, dispatched
<1>3. dispatched = sentFrames
  <2>1. taken = 2 * dispatched /\ dispatched \in Nat
    BY Bounds DEF Quiet, taken
  <2>2. Len(line) = 0 /\ Len(line) = 2 * sentFrames - taken
    BY EmptySeq DEF Quiet, LineInv
  <2> QED BY <1>1, <2>1, <2>2
<1>4. Early = {} /\ Late = {} /\ \A p \in Procs : ppc[p] = "idle"
  BY DEF Quiet, Early, Late, At, ToLog, ToHandle
<1>5. Early' = {} /\ Late' = {} /\ \A p \in Procs : ppc'[p] = "idle"
  BY <1>2, <1>4 DEF Early, Late, At
<1>6. /\ CalmCounts /\ CalmMarks
      /\ Logged = sentFrames /\ Handled = sentFrames /\ Tested = sentFrames
  BY <1>1, <1>3, <1>4 DEF CalmInv, Logged, Handled, Tested, AllBut
<1>7. Logged' = sentFrames /\ Handled' = sentFrames /\ Tested' = sentFrames
  BY <1>1, <1>2, <1>3, <1>5 DEF Logged, Handled, Tested, AllBut
<1>8. OnItsWay'
  BY <1>1, <1>2, <1>3, <1>5 DEF Quiet, OnItsWay
<1>9. CalmCounts'
  <2>1. \A k \in DOMAIN logged : \E n \in 1..sentFrames' :
          kinds'[n] = "command" /\ Among("command", n)' = k /\ logged[k] = Frame(n)
    BY <1>1, <1>6, CommandsKept DEF CalmCounts
  <2>2. \A k \in DOMAIN handled : \E n \in 1..sentFrames' :
          kinds'[n] = "command" /\ Among("command", n)' = k /\ handled[k] = Frame(n)
    BY <1>1, <1>6, CommandsKept DEF CalmCounts
  <2>3. AreCommands(logged)' /\ AreCommands(handled)'
    BY <1>2, <2>1, <2>2 DEF AreCommands
  <2>4. \A kind : {j \in 1..sentFrames : kinds'[j] = kind} = {j \in 1..sentFrames : kinds[j] = kind}
    BY <1>1
  <2>5. \A kind : /\ Among(kind, Logged)' = Among(kind, Logged)
                  /\ Among(kind, Handled)' = Among(kind, Handled)
                  /\ Among(kind, Tested)' = Among(kind, Tested)
    BY <1>6, <1>7, <2>4 DEF Among
  <2> QED BY <1>2, <1>6, <2>3, <2>5 DEF CalmCounts
<1>10. CalmMarks'
  BY <1>2, <1>4, <1>5, <1>6 DEF CalmMarks, Quiet
<1> QED BY <1>8, <1>9, <1>10 DEF CalmInv

(* The listener's steps but Dispatch leave the counts alone. *)
LEMMA CountsKept ==
  ASSUME TypeOK, LineInv, CalmInv, calm, UNCHANGED <<kinds, ppc, started, acked, logged, handled, inits>>
  PROVE  CalmCounts' /\ Early' = Early /\ dispatched' = dispatched /\ sentFrames' = sentFrames
<1>1. dispatched' = dispatched /\ sentFrames' = sentFrames /\ sentFrames \in Nat
  BY Bounds DEF dispatched, sentFrames
<1>2. Early' = Early /\ Late' = Late
  BY DEF Early, Late, At
<1>3. Logged' = Logged /\ Handled' = Handled /\ Tested' = Tested
  BY <1>1, <1>2 DEF Logged, Handled, Tested, AllBut
<1>4. AreCommands(logged) /\ AreCommands(handled) /\ CalmCounts
  BY DEF CalmInv, CalmCounts
<1>5. \A k \in DOMAIN logged : \E n \in 1..sentFrames' :
        kinds'[n] = "command" /\ Among("command", n)' = k /\ logged[k] = Frame(n)
  BY <1>1, <1>4, CommandsKept
<1>6. \A k \in DOMAIN handled : \E n \in 1..sentFrames' :
        kinds'[n] = "command" /\ Among("command", n)' = k /\ handled[k] = Frame(n)
  BY <1>1, <1>4, CommandsKept
<1>7. AreCommands(logged)' /\ AreCommands(handled)'
  BY <1>5, <1>6 DEF AreCommands
<1>8. \A kind : /\ Among(kind, Logged)' = Among(kind, Logged)
                /\ Among(kind, Handled)' = Among(kind, Handled)
                /\ Among(kind, Tested)' = Among(kind, Tested)
  BY <1>3 DEF Among
<1> QED BY <1>1, <1>2, <1>4, <1>7, <1>8 DEF CalmCounts

LEMMA DispatchCalm ==
  ASSUME TypeOK, LineInv, CountInv, CalmInv, calm, Dispatch
  PROVE  CalmInv'
<1>1. /\ dispatched + 1 = sentFrames /\ sentFrames \in Nat /\ started \in Nat /\ acked \in Nat
      /\ dispatched \in Nat /\ OnItsWay /\ CalmCounts /\ CalmMarks
  <2>1. /\ lpc = "dispatch" /\ dispatched < sentFrames /\ sentFrames \in Nat /\ started \in Nat
        /\ acked \in Nat /\ dispatched \in Nat
    BY Bounds DEF Dispatch
  <2> QED BY <2>1 DEF CalmInv, HasCome, OnItsWay
<1>2. /\ Recv_Frame[1] = [n |-> sentFrames, part |-> 1]
      /\ Recv_Frame[2] = [n |-> sentFrames, part |-> 2]
      /\ KindOf(Recv_Frame[1]) = kinds[sentFrames]
  BY <1>1, Dispatching DEF Dispatch
<1>3. /\ lpc = "dispatch" /\ lpc' = "select" /\ sentFrames' = sentFrames /\ g_oreintation = "R"
      /\ UNCHANGED <<kinds, Recv_Frame, view, g_oreintation, logged, marks, handled, inits>>
  BY <1>1 DEF Dispatch, log, sentFrames, CalmMarks
<1>4. \A p \in Procs : ppc[p] = "idle"
  BY <1>1 DEF OnItsWay
<1>5. /\ Logged = sentFrames - 1 /\ Handled = sentFrames - 1 /\ Tested = sentFrames - 1
  BY <1>1 DEF Logged, Handled, Tested, AllBut
<1>6. /\ Len(logged) = Among("command", sentFrames - 1) /\ Len(handled) = Among("command", sentFrames - 1)
      /\ inits = Among("request", sentFrames - 1)
  BY <1>1, <1>5 DEF CalmCounts
<1>7. AreCommands(logged)' /\ AreCommands(handled)'
  <2>1. \A k \in DOMAIN logged : \E n \in 1..sentFrames' :
          kinds'[n] = "command" /\ Among("command", n)' = k /\ logged[k] = Frame(n)
    BY <1>1, <1>3, CommandsKept DEF CalmCounts
  <2>2. \A k \in DOMAIN handled : \E n \in 1..sentFrames' :
          kinds'[n] = "command" /\ Among("command", n)' = k /\ handled[k] = Frame(n)
    BY <1>1, <1>3, CommandsKept DEF CalmCounts
  <2> QED BY <1>3, <2>1, <2>2 DEF AreCommands
<1>8. \A kind : /\ Among(kind, Logged)' = Among(kind, Logged')
                /\ Among(kind, Handled)' = Among(kind, Handled')
                /\ Among(kind, Tested)' = Among(kind, Tested')
  BY <1>3 DEF Among
<1>9. CASE kinds[sentFrames] = "ack"
  <2>1. acked' = acked + 1 /\ UNCHANGED <<ppc, started>>
    BY <1>2, <1>9 DEF Dispatch
  <2>2. dispatched' = sentFrames
    BY <1>1, <2>1 DEF dispatched
  <2>3. Early' = {} /\ Late' = {}
    BY <1>4, <2>1 DEF Early, Late, At, ToLog, ToHandle
  <2>4. Logged' = sentFrames /\ Handled' = sentFrames /\ Tested' = sentFrames
    BY <1>1, <1>3, <1>4, <2>1, <2>2, <2>3 DEF Logged, Handled, Tested, AllBut
  <2>5. /\ Among("command", sentFrames) = Among("command", sentFrames - 1)
        /\ Among("request", sentFrames) = Among("request", sentFrames - 1)
    <3>1. sentFrames - 1 \in Nat /\ (sentFrames - 1) + 1 = sentFrames
      BY <1>1
    <3>2. /\ Among("command", sentFrames) = Among("command", sentFrames - 1) + 0
          /\ Among("request", sentFrames) = Among("request", sentFrames - 1) + 0
          /\ Among("command", sentFrames - 1) \in Nat /\ Among("request", sentFrames - 1) \in Nat
      BY <1>9, <3>1, AmongType
    <3> QED BY <3>2
  <2>6. CalmCounts'
    BY <1>3, <1>6, <1>7, <1>8, <2>4, <2>5 DEF CalmCounts
  <2>7. HasCome'
    BY <1>2, <1>3, <1>4, <2>1, <2>2 DEF HasCome
  <2>8. CalmMarks'
    BY <1>1, <1>3, <1>4, <2>1, <2>3 DEF CalmMarks
  <2> QED BY <2>6, <2>7, <2>8 DEF CalmInv
<1>10. CASE kinds[sentFrames] # "ack"
  <2>1. /\ started' = started + 1 /\ ppc' = [ppc EXCEPT ![started + 1] = "test"]
        /\ acked' = acked
    BY <1>2, <1>10 DEF Dispatch
  <2>2. dispatched' = sentFrames
    BY <1>1, <2>1 DEF dispatched
  <2>3. started + 1 \in Procs
    BY <1>1, LinkAssumption DEF Procs, dispatched, TypeOK
  <2>4. PICK p \in Procs : p = started + 1
    BY <2>3
  <2>5. ppc'[p] = "test" /\ \A q \in Procs : q # p => ppc'[q] = "idle"
    BY <1>4, <2>1, <2>4 DEF TypeOK
  <2>6. Sole(p)'
    BY <1>1, <1>2, <1>3, <1>10, <2>1, <2>2, <2>4, <2>5 DEF Sole
  <2>7. Logged' = sentFrames - 1 /\ Handled' = sentFrames - 1 /\ Tested' = sentFrames - 1
    BY <1>1, <1>3, <2>5, <2>6, SoleCountsNext DEF ToLog
  <2>8. CalmCounts'
    BY <1>3, <1>6, <1>7, <1>8, <2>7 DEF CalmCounts
  <2>9. HasCome'
    BY <1>2, <1>3, <1>10, <2>5, <2>6 DEF HasCome, Sole
  <2>10. CalmMarks'
    BY <1>1, <1>3, <2>5 DEF CalmMarks
  <2> QED BY <2>8, <2>9, <2>10 DEF CalmInv
<1> QED BY <1>9, <1>10

LEMMA CalmStep ==
  ASSUME TypeOK, LineInv, CountInv, CalmInv, [Next]_vars
  PROVE  CalmInv'
<1>1. CASE Send
  <2>1. calm' => calm /\ Quiet
    BY <1>1 DEF Send
  <2> QED BY <1>1, <2>1, SendCalm DEF CalmInv
<1>2. CASE UNCHANGED calm
  <2> SUFFICES ASSUME calm PROVE CalmInv'
    BY <1>2 DEF CalmInv
  <2>0. /\ OnItsWay \/ HasCome
        /\ CalmMarks /\ sentFrames \in Nat /\ dispatched \in Nat
        /\ dispatched = sentFrames => line = <<>> /\ lpc \notin {"read", "dispatch"}
    BY Bounds DEF CalmInv
  <2>1. CASE Recv
    <3>1. OnItsWay /\ CalmCounts' /\ Early' = Early /\ dispatched' = dispatched /\ sentFrames' = sentFrames
      BY <2>0, <2>1, CountsKept DEF Recv, processors, log, HasCome
    <3>2. UNCHANGED <<ppc, g_oreintation, marks>> /\ lpc' = "read"
      BY <2>1 DEF Recv, processors, log
    <3>3. OnItsWay' /\ CalmMarks'
      BY <2>0, <3>1, <3>2 DEF OnItsWay, CalmMarks
    <3> QED BY <3>1, <3>3 DEF CalmInv
  <2>2. CASE RecvRest
    <3>1. OnItsWay /\ CalmCounts' /\ Early' = Early /\ dispatched' = dispatched /\ sentFrames' = sentFrames
      BY <2>0, <2>2, CountsKept DEF RecvRest, processors, HasCome
    <3>2. UNCHANGED <<ppc, marks>> /\ g_oreintation' = "R" /\ lpc' = "dispatch"
      BY <2>2 DEF RecvRest, processors
    <3>3. OnItsWay' /\ CalmMarks'
      BY <2>0, <3>1, <3>2 DEF OnItsWay, CalmMarks
    <3> QED BY <3>1, <3>3 DEF CalmInv
  <2>3. CASE Dispatch
    BY <2>3, DispatchCalm
  <2>4. CASE Beat
    <3>1. CalmCounts' /\ Early' = Early /\ dispatched' = dispatched /\ sentFrames' = sentFrames
      BY <2>4, CountsKept DEF Beat, processors
    <3>2. UNCHANGED <<kinds, Recv_Frame, ppc, view, started, marks>> /\ g_oreintation' = "T"
          /\ lpc' = "beat"
      BY <2>4 DEF Beat, processors
    <3>3. dispatched = sentFrames
      <4>1. taken = 2 * dispatched
        BY <2>0, <2>4 DEF Beat, taken
      <4>2. Len(line) = 0 /\ Len(line) = 2 * sentFrames - taken
        BY <2>4, EmptySeq DEF Beat, LineInv
      <4> QED BY <2>0, <4>1, <4>2
    <3>4. HasCome
      BY <2>0, <3>3 DEF OnItsWay
    <3>5. HasCome'
      BY <3>1, <3>2, <3>4 DEF HasCome
    <3>6. Early = {}
      BY <2>4 DEF Beat, Early, At, ToLog
    <3>7. CalmMarks'
      BY <2>0, <3>1, <3>2, <3>6 DEF CalmMarks
    <3> QED BY <3>1, <3>5, <3>7 DEF CalmInv
  <2>5. CASE LogBeat
    <3>1. CalmCounts' /\ Early' = Early /\ dispatched' = dispatched /\ sentFrames' = sentFrames
      BY <2>5, CountsKept DEF LogBeat, processors
    <3>2. UNCHANGED <<kinds, Recv_Frame, ppc, view, started, g_oreintation>> /\ lpc = "beat"
          /\ lpc' = "select" /\ (marks' = marks \/ marks' = Marked("sent"))
      BY <2>5 DEF LogBeat, processors
    <3>3. HasCome
      BY <2>0, <3>2 DEF OnItsWay
    <3>4. HasCome'
      BY <3>1, <3>2, <3>3 DEF HasCome
    <3>5. marks'["received"] \subseteq {"R"} /\ marks'["sent"] \subseteq {"T"}
      BY <2>0, <3>2 DEF CalmMarks, Marked, TypeOK
    <3>6. CalmMarks'
      BY <2>0, <3>1, <3>2, <3>5 DEF CalmMarks
    <3> QED BY <3>1, <3>4, <3>6 DEF CalmInv
  <2>6. CASE \E p \in Procs : Processor(p)
    BY <2>6, ProcessorCalm
  <2>7. CASE UNCHANGED vars
    <3>1. CalmCounts' /\ Early' = Early /\ dispatched' = dispatched /\ sentFrames' = sentFrames
      BY <2>7, CountsKept DEF vars, processors, log
    <3>2. UNCHANGED <<kinds, Recv_Frame, lpc, ppc, view, started, marks, g_oreintation>>
      BY <2>7 DEF vars, listener, processors, log
    <3> QED BY <2>0, <3>1, <3>2 DEF CalmInv, OnItsWay, HasCome, CalmMarks
  <2>8. CASE Send
    BY <1>1, <2>8
  <2> QED BY <2>1, <2>2, <2>3, <2>4, <2>5, <2>6, <2>7, <2>8 DEF Next, Listener
<1>3. Send \/ UNCHANGED calm
  BY DEF Next, Listener, Recv, RecvRest, Dispatch, Beat, LogBeat, Processor, TestType, BeginLog, Log,
         BeginHandle, Begin, Handle, Answer, LogAnswer, vars
<1> QED BY <1>1, <1>2, <1>3

LEMMA LinkInvariant == Spec => []IInv
<1>1. Init => IInv
  <2> SUFFICES ASSUME Init PROVE IInv
    OBVIOUS
  <2>1. TypeOK
    <3>1. 0 \in 0..Sends /\ 0 \in 0..(2 * Frames) /\ 0 \in 0..0
      BY LinkAssumption
    <3>2. Recv_Frame \in [{1, 2} -> Half \cup {Nothing}]
      BY DEF Init
    <3>3. Len(<<>>) = 0 /\ <<>> \in Seq(Views) /\ <<>> \in Seq(Kinds) /\ <<>> \in Seq(Half)
      BY EmptySeq
    <3>4. 0 <= Frames
      BY LinkAssumption
    <3>5. /\ ppc \in [Procs -> PCs] /\ view \in [Procs -> Half \cup {Nothing}]
          /\ marks \in [{"received", "sent", "unsent"} -> SUBSET {"R", "T"}]
      BY DEF Init, PCs
    <3> QED BY <3>1, <3>2, <3>3, <3>4, <3>5 DEF Init, TypeOK, sentFrames, PCs
  <2>2. LineInv
    BY DEF Init, LineInv, taken, dispatched, sentFrames
  <2>3. CountInv
    <3>1. Early = {} /\ Late = {}
      BY DEF Init, Early, Late, At, ToLog, ToHandle
    <3> QED BY <3>1, FS_EmptySet DEF Init, CountInv
  <2>4. AcksReachDownload
    BY AmongType DEF Init, AcksReachDownload
  <2>5. CalmInv
    <3>1. sentFrames = 0 /\ dispatched = 0
      BY DEF Init, sentFrames, dispatched
    <3>2. /\ Early = {} /\ Late = {} /\ \A p \in Procs : ppc[p] = "idle"
      BY DEF Init, Early, Late, At, ToLog, ToHandle
    <3>3. Logged = 0 /\ Handled = 0 /\ Tested = 0
      BY <3>1, <3>2 DEF Logged, Handled, Tested, AllBut
    <3>4. HasCome
      BY <3>1, <3>2 DEF HasCome
    <3>5. CalmCounts
      <4>1. /\ logged = <<>> /\ handled = <<>> /\ inits = 0 /\ Len(<<>>) = 0 /\ DOMAIN <<>> = {}
        BY DEF Init
      <4>2. \A kind : Among(kind, 0) = 0
        BY AmongType
      <4> QED BY <3>3, <4>1, <4>2 DEF CalmCounts, AreCommands
    <3>6. CalmMarks
      BY <3>2 DEF Init, CalmMarks
    <3> QED BY <3>4, <3>5, <3>6 DEF CalmInv
  <2> QED BY <2>1, <2>2, <2>3, <2>4, <2>5 DEF LinkInv, IInv
<1>2. IInv /\ [Next]_vars => IInv'
  BY TypeStep, LineStep, CountStep, AckStep, CalmStep DEF LinkInv, IInv
<1> QED BY <1>1, <1>2, PTL DEF Spec

(* No more threads are started than the table of the model has room for,    *)
(* none handles a frame that it has not logged, and every value stays in    *)
(* its range, at every speed of the server (UARTMsgListener,                *)
(* UARTMsgProcessor).                                                       *)
THEOREM LinkTyped == Spec => []TypeOK
BY LinkInvariant, PTL DEF IInv, LinkInv

(* For any number of frames, however fast they come: the listener sets the  *)
(* flag for exactly the acks among the frames it has read                   *)
(* (uart.c:1174-1178).                                                      *)
THEOREM AcksAllReachDownload == Spec => []AcksReachDownload
BY LinkInvariant, PTL DEF IInv

(* For any number of frames: as long as each frame is handled before the    *)
(* next is sent, what the log and the handlers get of the shared buffer are *)
(* the commands, whole, once each and in order, and the log marks them as   *)
(* received (UARTMsgListener, UARTMsgProcessor).                            *)
THEOREM QueueWhenCalm == Spec => []QueueIfCalm
<1>1. IInv => QueueIfCalm
  <2> SUFFICES ASSUME IInv, calm
               PROVE  /\ AreCommands(logged) /\ AreCommands(handled)
                      /\ Quiet => /\ Len(handled) = Among("command", sentFrames)
                                  /\ inits = Among("request", sentFrames)
                      /\ marks["received"] \subseteq {"R"} /\ marks["sent"] \subseteq {"T"}
    BY DEF QueueIfCalm
  <2>1. CalmCounts /\ CalmMarks /\ TypeOK /\ LineInv
    BY DEF IInv, LinkInv, CalmInv
  <2>2. ASSUME Quiet PROVE Handled = sentFrames /\ Tested = sentFrames
    <3>1. sentFrames \in Nat /\ dispatched \in Nat
      BY <2>1, Bounds
    <3>2. taken = 2 * dispatched /\ Len(line) = 0 /\ Len(line) = 2 * sentFrames - taken
      BY <2>1, <2>2, <3>1, EmptySeq DEF Quiet, LineInv, taken
    <3>3. dispatched = sentFrames
      BY <3>1, <3>2
    <3>4. Early = {} /\ Late = {}
      BY <2>2 DEF Quiet, Early, Late, At, ToLog, ToHandle
    <3> QED BY <2>2, <3>1, <3>3, <3>4 DEF Quiet, Handled, Tested, AllBut
  <2> QED BY <2>1, <2>2 DEF CalmCounts, CalmMarks
<1> QED BY <1>1, LinkInvariant, PTL
=============================================================================
