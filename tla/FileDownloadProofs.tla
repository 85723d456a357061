------------------------- MODULE FileDownloadProofs -------------------------
(***************************************************************************)
(* Proofs about FileDownload: the frames of a download are its bytes in    *)
(* order, whatever other downloads do; with one download at a time and     *)
(* acks that come within a poll, the two shared flags carry exactly the    *)
(* ack, or the loss, of the frame sent last.                               *)
(***************************************************************************)
EXTENDS FileDownload, SequenceTheorems, TLAPS

Frames == [d : Ids, from : Nat, len : 0..DataLen]

LEMMA Constants ==
  /\ DataLen \in Nat /\ DataLen > 0
  /\ WaitPolls \in Nat /\ WaitPolls > 0
  /\ CntValues \in Nat /\ WaitPolls < CntValues
  /\ CntStarts \subseteq 0..(CntValues - 1)
  /\ Downloads \in Nat
  /\ Lengths \subseteq Nat
BY DownloadAssumption

LEMMA LengthIsNat == \A l \in Lengths \cup {0} : l \in Nat
<1>1. \A l \in Lengths : l \in Nat
  BY DownloadAssumption, Zenon
<1>2. 0 \in Nat
  OBVIOUS
<1> QED BY <1>1, <1>2

(* The counter of a wait stays below CntValues. *)
LEMMA CountStays ==
  ASSUME NEW c \in 0..(CntValues - 1)
  PROVE  (c + 1) % CntValues \in 0..(CntValues - 1)
BY Constants

(* The bytes before a position, followed by those of a frame that starts    *)
(* there, are the bytes before the end of the frame.                        *)
LEMMA UptoConcat ==
  ASSUME NEW n \in Nat, NEW m \in Nat
  PROVE  /\ Upto(n) \o [k \in 1..m |-> n + k] = Upto(n + m)
         /\ Len(Upto(n)) = n
         /\ Upto(n) \in Seq(Nat)
         /\ [k \in 1..m |-> n + k] \in Seq(Nat)
<1>1. Upto(n) \in Seq(Nat) /\ Len(Upto(n)) = n
  BY DEF Upto
<1>2. [k \in 1..m |-> n + k] \in Seq(Nat) /\ Len([k \in 1..m |-> n + k]) = m
  OBVIOUS
<1>3. Upto(n + m) \in Seq(Nat) /\ Len(Upto(n + m)) = n + m
  BY DEF Upto
<1>4. /\ Upto(n) \o [k \in 1..m |-> n + k] \in Seq(Nat)
      /\ Len(Upto(n) \o [k \in 1..m |-> n + k]) = n + m
      /\ \A k \in 1..(n + m) : (Upto(n) \o [j \in 1..m |-> n + j])[k] = k
  BY <1>1, <1>2, ConcatProperties DEF Upto
<1>5. \A k \in 1..(n + m) : Upto(n + m)[k] = k
  BY DEF Upto
<1>6. Upto(n) \o [k \in 1..m |-> n + k] = Upto(n + m)
  BY <1>3, <1>4, <1>5, SeqEqual
<1> QED BY <1>1, <1>2, <1>6

-----------------------------------------------------------------------------
(* The frames of a download *)

(* A download that has not sent a frame has left no trace. *)
Fresh ==
  /\ \A d \in Ids : d > asked => pc[d] = "none"
  /\ \A d \in Ids : pc[d] \in {"none", "refused"} =>
       sent[d] = 0 /\ ~final[d] /\ lost[d] = 0 /\ Mine(d) = {}

(* The frames of a download on the line continue each other, from where the *)
(* server is to where the program is.                                       *)
Chained(d) ==
  /\ got[d] = Upto(Len(got[d]))
  /\ Mine(d) = {} => Len(got[d]) = sent[d]
  /\ \A k \in Mine(d) :
       /\ (\A j \in Mine(d) : k <= j) => wire[k].from = Len(got[d])
       /\ (\A j \in Mine(d) : j <= k) => wire[k].from + wire[k].len = sent[d]
       /\ \A j \in Mine(d) :
            k < j /\ (\A i \in Mine(d) : i <= k \/ j <= i) =>
              wire[j].from = wire[k].from + wire[k].len

(* A short frame is the last one, and the last one is short. *)
ShortIsLast(d) ==
  /\ \A k \in Mine(d) : wire[k].len < DataLen => final[d] /\ \A j \in Mine(d) : j <= k
  /\ ended[d] => final[d] /\ Mine(d) = {}
  /\ final[d] => /\ sent[d] = length[d] /\ pc[d] # "send"
                 /\ ended[d] \/ \E k \in Mine(d) : wire[k].len < DataLen

FrameInv == TypeOK /\ Fresh /\ \A d \in Ids : Chained(d) /\ ShortIsLast(d)

LEMMA ServeFacts ==
  ASSUME TypeOK, Serve
  PROVE  /\ Len(wire) \in Nat /\ Len(wire) > 0 /\ 1 \in DOMAIN wire
         /\ wire[1] \in Frames /\ Head(wire) = wire[1]
         /\ wire' = Tail(wire) /\ wire' \in Seq(Frames) /\ Len(wire') = Len(wire) - 1
         /\ \A k \in DOMAIN wire' : k + 1 \in DOMAIN wire /\ wire'[k] = wire[k + 1]
         /\ \A k \in DOMAIN wire : k > 1 => k - 1 \in DOMAIN wire' /\ wire'[k - 1] = wire[k]
<1>1. wire \in Seq(Frames) /\ wire # <<>> /\ wire' = Tail(wire)
  BY DEF TypeOK, Serve, Frames
<1>2. wire' \in Seq(Frames) /\ Len(wire') = Len(wire) - 1 /\ Len(wire) \in Nat
      /\ Head(wire) = wire[1] /\ Len(wire) > 0
      /\ \A k \in 1..Len(wire') : wire'[k] = wire[k + 1]
  BY <1>1, HeadTailProperties, EmptySeq
<1>3. DOMAIN wire = 1..Len(wire) /\ DOMAIN wire' = 1..Len(wire')
  BY <1>1, <1>2
<1>4. wire[1] \in Frames
  BY <1>1, <1>2, ElementOfSeq
<1> QED BY <1>1, <1>2, <1>3, <1>4

LEMMA SendFacts ==
  ASSUME TypeOK, NEW d \in Ids, SendFrame(d)
  PROVE  LET len == sent'[d] - sent[d] IN
         /\ len \in 0..DataLen
         /\ len < DataLen <=> final'[d]
         /\ final'[d] => sent'[d] = length[d]
         /\ sent' = [sent EXCEPT ![d] = sent'[d]] /\ sent'[d] \in Nat /\ sent'[d] <= length[d]
         /\ final' = [final EXCEPT ![d] = final'[d]] /\ final'[d] \in BOOLEAN
         /\ wire' = Append(wire, Frame(d, sent[d], len))
         /\ Frame(d, sent[d], len) \in Frames
         /\ wire' \in Seq(Frames) /\ Len(wire) \in Nat
         /\ DOMAIN wire = 1..Len(wire) /\ DOMAIN wire' = 1..(Len(wire) + 1)
         /\ \A k \in DOMAIN wire : wire'[k] = wire[k]
         /\ wire'[Len(wire) + 1] = Frame(d, sent[d], len)
<1> DEFINE last == LastFrame(d)
           n == IF last THEN length[d] - sent[d] ELSE DataLen
<1>1. sent[d] \in Nat /\ length[d] \in Nat /\ sent[d] <= length[d]
  <2>1. sent[d] \in Nat /\ length[d] \in Lengths \cup {0} /\ sent[d] <= length[d]
    BY DEF TypeOK
  <2> QED BY <2>1, LengthIsNat
<1>2. /\ wire' = Append(wire, Frame(d, sent[d], n))
      /\ sent' = [sent EXCEPT ![d] = sent[d] + n]
      /\ final' = [final EXCEPT ![d] = last]
  BY DEF SendFrame
<1>3. n \in 0..DataLen /\ (n < DataLen <=> last) /\ last \in BOOLEAN
      /\ sent[d] + n <= length[d] /\ (last => sent[d] + n = length[d])
  BY <1>1, Constants DEF LastFrame
<1>4. sent'[d] = sent[d] + n /\ final'[d] = last
  BY <1>2 DEF TypeOK
<1>5. sent'[d] - sent[d] = n /\ sent'[d] \in Nat
  BY <1>1, <1>3, <1>4
<1>6. Frame(d, sent[d], n) \in Frames /\ wire \in Seq(Frames)
  BY <1>1, <1>3 DEF Frame, Frames, TypeOK
<1>7. /\ wire' \in Seq(Frames) /\ Len(wire) \in Nat
      /\ DOMAIN wire = 1..Len(wire) /\ DOMAIN wire' = 1..(Len(wire) + 1)
      /\ \A k \in DOMAIN wire : wire'[k] = wire[k]
      /\ wire'[Len(wire) + 1] = Frame(d, sent[d], n)
  BY <1>2, <1>6, AppendProperties
<1> HIDE DEF last, n
<1> QED BY <1>1, <1>2, <1>3, <1>4, <1>5, <1>6, <1>7

LEMMA TypeStep ==
  ASSUME TypeOK, Fresh, [Next]_vars
  PROVE  TypeOK'
<1> USE Constants DEF TypeOK, flags, link
<1>1. CASE Ask
  <2>1. asked + 1 \in Ids /\ asked' = asked + 1 /\ asked' \in 0..Downloads
    BY <1>1 DEF Ask, Ids
  <2>2. pc[asked + 1] = "none" /\ sent[asked + 1] = 0
    BY <2>1 DEF Fresh
  <2>3. /\ pc' \in [Ids -> Waiting \cup {"none", "send", "refused", "done", "abandoned"}]
        /\ length' \in [Ids -> Lengths \cup {0}]
        /\ orderly' \in BOOLEAN
    BY <1>1, <2>1 DEF Ask
  <2>4. \A d \in Ids : length'[d] \in Nat /\ sent[d] <= length'[d]
    <3>1. ASSUME NEW d \in Ids PROVE length'[d] \in Nat /\ sent[d] <= length'[d]
      <4>1. CASE d = asked + 1
        <5>1. length'[d] \in Nat
          BY <2>3, LengthIsNat
        <5>2. sent[d] = 0
          BY <4>1, <2>2
        <5> QED BY <5>1, <5>2
      <4>2. CASE d # asked + 1
        <5>1. length'[d] = length[d]
          BY <4>2, <1>1 DEF Ask
        <5> QED BY <5>1, LengthIsNat
      <4> QED BY <4>1, <4>2
    <3> QED BY <3>1
  <2> QED BY <1>1, <2>1, <2>3, <2>4 DEF Ask
<1>2. CASE Serve
  <2>1. wire' \in Seq(Frames) /\ wire[1] \in Frames /\ Head(wire) = wire[1]
    BY <1>2, ServeFacts
  <2> DEFINE f == Head(wire)
             bytes == [k \in 1..f.len |-> f.from + k]
  <2>2. f.d \in Ids /\ f.from \in Nat /\ f.len \in Nat
    BY <2>1 DEF Frames
  <2>3. got' = [got EXCEPT ![f.d] = got[f.d] \o bytes]
        /\ ended' = [ended EXCEPT ![f.d] = ended[f.d] \/ f.len < DataLen]
    BY <1>2 DEF Serve
  <2>4. bytes \in Seq(Nat)
    BY <2>2, UptoConcat
  <2>5. got[f.d] \o bytes \in Seq(Nat)
    BY <2>2, <2>4
  <2>6. got' \in [Ids -> Seq(Nat)] /\ ended' \in [Ids -> BOOLEAN]
    BY <2>2, <2>3, <2>5
  <2>7. acks' \in Nat /\ lost' \in [Ids -> Nat]
    <3>1. CASE acks' = acks + 1 /\ UNCHANGED lost
      BY <3>1
    <3>2. CASE lost' = [lost EXCEPT ![f.d] = lost[f.d] + 1] /\ UNCHANGED acks
      <4>1. \A e \in Ids : lost[e] + 1 \in Nat
        OBVIOUS
      <4> QED BY <3>2, <2>2, <4>1
    <3> QED BY <1>2, <3>1, <3>2 DEF Serve
  <2> HIDE DEF f, bytes
  <2> QED BY <1>2, <2>1, <2>6, <2>7 DEF Serve, Frames
<1>3. CASE ListenAck
  BY <1>3 DEF ListenAck
<1>4. ASSUME NEW d \in Ids, SendFrame(d) PROVE TypeOK'
  <2>1. /\ sent' \in [Ids -> Nat] /\ \A e \in Ids : sent'[e] <= length[e]
        /\ final' \in [Ids -> BOOLEAN]
    BY <1>4, SendFacts
  <2>2. wire' \in Seq([d : Ids, from : Nat, len : 0..DataLen])
    BY <1>4, SendFacts DEF Frames
  <2>3. /\ cnt' \in [Ids -> 0..(CntValues - 1)] /\ polls' \in [Ids -> 0..WaitPolls]
        /\ orderly' \in BOOLEAN
        /\ pc' \in [Ids -> Waiting \cup {"none", "send", "refused", "done", "abandoned"}]
    BY <1>4 DEF SendFrame, Waiting
  <2> QED BY <1>4, <2>1, <2>2, <2>3 DEF SendFrame
<1>5. ASSUME NEW d \in Ids, Look(d) PROVE TypeOK'
  BY <1>5 DEF Look, Waiting
<1>6. ASSUME NEW d \in Ids, Poll(d) PROVE TypeOK'
  <2>1. cnt' \in [Ids -> 0..(CntValues - 1)]
    BY <1>6, CountStays DEF Poll
  <2>2. polls' \in [Ids -> 0..WaitPolls]
    <3>1. polls[d] \in 0..WaitPolls
      OBVIOUS
    <3>2. polls' = [polls EXCEPT ![d] = IF polls[d] = WaitPolls THEN polls[d] ELSE polls[d] + 1]
      BY <1>6 DEF Poll
    <3>3. polls[d] # WaitPolls => polls[d] + 1 \in 0..WaitPolls
      BY <3>1
    <3> QED BY <3>1, <3>2, <3>3
  <2>3. /\ isFileAckTimeout' \in BOOLEAN /\ orderly' \in BOOLEAN
        /\ pc' \in [Ids -> Waiting \cup {"none", "send", "refused", "done", "abandoned"}]
    BY <1>6 DEF Poll, Waiting
  <2> QED BY <1>6, <2>1, <2>2, <2>3 DEF Poll
<1>7. ASSUME NEW d \in Ids, ClearAck(d) PROVE TypeOK'
  <2>1. 0 \in 0..(CntValues - 1) /\ 0 \in 0..WaitPolls
    OBVIOUS
  <2>2. cnt' \in [Ids -> 0..(CntValues - 1)] /\ polls' \in [Ids -> 0..WaitPolls]
    BY <1>7, <2>1 DEF ClearAck
  <2>3. pc' \in [Ids -> Waiting \cup {"none", "send", "refused", "done", "abandoned"}]
    BY <1>7 DEF ClearAck, Waiting
  <2> QED BY <1>7, <2>2, <2>3 DEF ClearAck
<1>8. ASSUME NEW d \in Ids, Judge(d) PROVE TypeOK'
  BY <1>8 DEF Judge, Waiting
<1>9. CASE UNCHANGED vars
  BY <1>9 DEF vars
<1> QED BY <1>1, <1>2, <1>3, <1>4, <1>5, <1>6, <1>7, <1>8, <1>9
    DEF Next, Processor, Finished

LEMMA MineFrames ==
  ASSUME TypeOK, NEW d \in Ids, NEW k \in Mine(d)
  PROVE  /\ wire[k].from \in Nat /\ wire[k].len \in 0..DataLen /\ wire[k].len \in Nat
         /\ k \in 1..Len(wire)
<1>1. wire \in Seq(Frames) /\ DOMAIN wire = 1..Len(wire)
  BY DEF TypeOK, Frames
<1>2. k \in 1..Len(wire)
  BY <1>1 DEF Mine
<1>3. wire[k] \in Frames
  BY <1>1, <1>2, ElementOfSeq
<1> QED BY <1>2, <1>3 DEF Frames

LEMMA SendMine ==
  ASSUME TypeOK, NEW d \in Ids, SendFrame(d)
  PROVE  /\ Mine(d)' = Mine(d) \cup {Len(wire) + 1}
         /\ \A e \in Ids : e # d => Mine(e)' = Mine(e)
         /\ \A e \in Ids : \A k \in Mine(e) : k \in 1..Len(wire) /\ wire'[k] = wire[k]
<1> DEFINE last == Len(wire) + 1
<1>0. /\ Len(wire) \in Nat
      /\ DOMAIN wire = 1..Len(wire) /\ DOMAIN wire' = 1..(Len(wire) + 1)
      /\ wire'[last] = Frame(d, sent[d], sent'[d] - sent[d])
  BY SendFacts
<1>1. wire'[last].d = d /\ last \in DOMAIN wire' /\ last \notin DOMAIN wire
  BY <1>0 DEF Frame
<1>2. DOMAIN wire' = DOMAIN wire \cup {last} /\ \A k \in DOMAIN wire : wire'[k] = wire[k]
  <2>1. 1..(Len(wire) + 1) = 1..Len(wire) \cup {last}
    BY <1>0
  <2>2. DOMAIN wire' = DOMAIN wire \cup {last}
    BY <2>1, <1>0
  <2> QED BY <2>2, SendFacts
<1>3. DOMAIN wire = 1..Len(wire)
  BY <1>0
<1> HIDE DEF last
<1>4. Mine(d)' = Mine(d) \cup {last}
  BY <1>1, <1>2 DEF Mine
<1>5. \A e \in Ids : e # d => Mine(e)' = Mine(e)
  BY <1>1, <1>2 DEF Mine
<1>6. \A e \in Ids : \A k \in Mine(e) : k \in 1..Len(wire) /\ wire'[k] = wire[k]
  BY <1>2, <1>3 DEF Mine
<1> QED BY <1>4, <1>5, <1>6 DEF last

LEMMA SendKeepsFrames ==
  ASSUME FrameInv, NEW d \in Ids, SendFrame(d)
  PROVE  Fresh' /\ \A e \in Ids : Chained(e)' /\ ShortIsLast(e)'
<1> DEFINE end == Len(wire) + 1
           len == sent'[d] - sent[d]
<1>0. TypeOK /\ Fresh
  BY DEF FrameInv
<1>1. pc[d] = "send" /\ pc' = [pc EXCEPT ![d] = "loop"]
      /\ UNCHANGED <<asked, length, got, ended, lost>>
  BY DEF SendFrame
<1>2. d <= asked
  BY <1>0, <1>1 DEF Fresh, Ids, TypeOK
<1>3. /\ sent' = [sent EXCEPT ![d] = sent'[d]] /\ sent'[d] \in Nat
      /\ final' = [final EXCEPT ![d] = final'[d]]
      /\ len < DataLen <=> final'[d]
      /\ final'[d] => sent'[d] = length[d]
      /\ wire'[end] = Frame(d, sent[d], len)
      /\ sent[d] \in Nat /\ len \in Nat /\ sent[d] + len = sent'[d]
      /\ Len(wire) \in Nat
  BY <1>0, SendFacts DEF TypeOK
<1>4. /\ Mine(d)' = Mine(d) \cup {end}
      /\ \A e \in Ids : e # d => Mine(e)' = Mine(e)
      /\ \A e \in Ids : \A k \in Mine(e) : k \in 1..Len(wire) /\ wire'[k] = wire[k]
  BY <1>0, SendMine
<1>5. wire'[end].from = sent[d] /\ wire'[end].len = len
  BY <1>3 DEF Frame
<1> HIDE DEF end, len
<1>6. ASSUME NEW e \in Ids, e # d PROVE Chained(e)' /\ ShortIsLast(e)'
  <2>1. /\ Mine(e)' = Mine(e) /\ \A k \in Mine(e) : wire'[k] = wire[k]
        /\ sent'[e] = sent[e] /\ final'[e] = final[e] /\ pc'[e] = pc[e]
        /\ got'[e] = got[e] /\ ended'[e] = ended[e] /\ length'[e] = length[e]
    BY <1>0, <1>1, <1>3, <1>4, <1>6 DEF TypeOK
  <2>2. Chained(e) /\ ShortIsLast(e)
    BY DEF FrameInv
  <2>3. Chained(e)'
    BY <2>1, <2>2 DEF Chained
  <2>4. ShortIsLast(e)'
    BY <2>1, <2>2 DEF ShortIsLast
  <2> QED BY <2>3, <2>4
<1>7. ~final[d] /\ ~ended[d] /\ Chained(d)
  BY <1>1 DEF FrameInv, ShortIsLast
<1>8. \A k \in Mine(d) : k < end /\ wire[k].len >= DataLen /\ wire'[k] = wire[k]
  <2>1. \A k \in Mine(d) : wire[k].len \in 0..DataLen
    BY <1>0, MineFrames
  <2>2. \A k \in Mine(d) : ~(wire[k].len < DataLen)
    BY <1>7 DEF FrameInv, ShortIsLast
  <2> QED BY <1>3, <1>4, <2>1, <2>2, Constants DEF end
<1>9. Chained(d)'
  <2>1. got'[d] = got[d] /\ Mine(d)' # {}
    BY <1>1, <1>4
  <2>2. ASSUME NEW k \in Mine(d)', \A j \in Mine(d)' : k <= j
        PROVE  wire'[k].from = Len(got[d])
    <3>1. CASE Mine(d) = {}
      BY <3>1, <1>4, <1>5, <1>7, <2>2 DEF Chained
    <3>2. CASE Mine(d) # {}
      <4>1. k # end
        BY <3>2, <1>3, <1>4, <1>8, <2>2 DEF end
      <4>2. k \in Mine(d) /\ \A j \in Mine(d) : k <= j
        BY <4>1, <1>4, <2>2
      <4> QED BY <4>2, <1>7, <1>8 DEF Chained
    <3> QED BY <3>1, <3>2
  <2>3. ASSUME NEW k \in Mine(d)', \A j \in Mine(d)' : j <= k
        PROVE  wire'[k].from + wire'[k].len = sent'[d]
    <3>1. end <= k
      BY <1>4, <2>3
    <3>2. k = end
      BY <3>1, <1>3, <1>4, <1>8 DEF end
    <3> QED BY <3>2, <1>3, <1>5
  <2>4. ASSUME NEW k \in Mine(d)', NEW j \in Mine(d)', k < j,
               \A i \in Mine(d)' : i <= k \/ j <= i
        PROVE  wire'[j].from = wire'[k].from + wire'[k].len
    <3>1. k \in Mine(d)
      <4>1. ASSUME k = end PROVE FALSE
        BY <4>1, <1>3, <1>4, <1>8, <2>4 DEF end
      <4> QED BY <4>1, <1>4
    <3>2. CASE j \in Mine(d)
      BY <3>1, <3>2, <2>4, <1>4, <1>7, <1>8 DEF Chained
    <3>3. CASE j = end
      <4>1. \A i \in Mine(d) : i <= k
        BY <3>3, <2>4, <1>3, <1>4, <1>8 DEF end
      <4>2. wire[k].from + wire[k].len = sent[d]
        BY <4>1, <3>1, <1>7 DEF Chained
      <4> QED BY <4>2, <3>1, <3>3, <1>5, <1>8
    <3> QED BY <3>2, <3>3, <1>4
  <2>5. got'[d] = Upto(Len(got'[d]))
    BY <1>7, <2>1 DEF Chained
  <2> QED BY <2>1, <2>2, <2>3, <2>4, <2>5 DEF Chained
<1>10. ShortIsLast(d)'
  <2>1. pc'[d] = "loop" /\ ~ended'[d] /\ length'[d] = length[d]
    BY <1>0, <1>1, <1>7 DEF TypeOK
  <2>2. ASSUME NEW k \in Mine(d)', wire'[k].len < DataLen
        PROVE  final'[d] /\ \A j \in Mine(d)' : j <= k
    <3>1. k = end
      <4>1. ASSUME k \in Mine(d) PROVE FALSE
        <5>1. wire[k].len \in Nat
          BY <4>1, <1>0, MineFrames
        <5> QED BY <4>1, <5>1, <1>8, <2>2, Constants
      <4> QED BY <4>1, <1>4
    <3>2. \A j \in Mine(d)' : j <= end
      BY <1>3, <1>4, <1>8 DEF end
    <3> QED BY <3>1, <3>2, <1>3, <1>5, <2>2
  <2>3. final'[d] => wire'[end].len < DataLen /\ end \in Mine(d)'
    BY <1>3, <1>4, <1>5
  <2> QED BY <1>3, <2>1, <2>2, <2>3 DEF ShortIsLast
<1>11. Fresh'
  BY <1>0, <1>1, <1>2, <1>3, <1>4 DEF Fresh, TypeOK, Ids
<1> QED BY <1>6, <1>9, <1>10, <1>11

LEMMA ServeMine ==
  ASSUME TypeOK, Serve
  PROVE  /\ wire[1].d \in Ids /\ 1 \in Mine(wire[1].d)
         /\ \A e \in Ids : e # wire[1].d => 1 \notin Mine(e)
         /\ \A e \in Ids : \A k \in Mine(e)' : k \in Nat /\ k >= 1 /\ k + 1 \in Mine(e) /\ wire'[k] = wire[k + 1]
         /\ \A e \in Ids : \A k \in Mine(e) : k \in Nat /\ k >= 1 /\ (k > 1 => k - 1 \in Mine(e)')
<1>1. /\ 1 \in DOMAIN wire /\ wire[1] \in Frames
      /\ \A k \in DOMAIN wire' : k + 1 \in DOMAIN wire /\ wire'[k] = wire[k + 1]
      /\ \A k \in DOMAIN wire : k > 1 => k - 1 \in DOMAIN wire' /\ wire'[k - 1] = wire[k]
      /\ wire' \in Seq(Frames)
  BY ServeFacts
<1>2. DOMAIN wire' = 1..Len(wire') /\ Len(wire') \in Nat /\ DOMAIN wire = 1..Len(wire) /\ Len(wire) \in Nat
  BY <1>1, ServeFacts, LenProperties DEF TypeOK
<1> QED BY <1>1, <1>2 DEF Mine, Frames

LEMMA ServeKeepsFrames ==
  ASSUME FrameInv, Serve
  PROVE  Fresh' /\ \A e \in Ids : Chained(e)' /\ ShortIsLast(e)'
<1> DEFINE f == wire[1]
           g == f.d
<1>0. TypeOK /\ Fresh
  BY DEF FrameInv
<1>1. /\ got' = [got EXCEPT ![g] = got[g] \o [k \in 1..f.len |-> f.from + k]]
      /\ ended' = [ended EXCEPT ![g] = ended[g] \/ f.len < DataLen]
      /\ UNCHANGED <<asked, pc, length, sent, final>>
      /\ \A e \in Ids : e # g => lost'[e] = lost[e]
  <2>1. Head(wire) = f /\ f.d \in Ids
    BY <1>0, ServeFacts, ServeMine
  <2> QED BY <1>0, <2>1 DEF Serve, TypeOK
<1>2. /\ g \in Ids /\ 1 \in Mine(g)
      /\ \A e \in Ids : e # g => 1 \notin Mine(e)
      /\ \A e \in Ids : \A k \in Mine(e)' : k \in Nat /\ k >= 1 /\ k + 1 \in Mine(e) /\ wire'[k] = wire[k + 1]
      /\ \A e \in Ids : \A k \in Mine(e) : k \in Nat /\ k >= 1 /\ (k > 1 => k - 1 \in Mine(e)')
  BY <1>0, ServeMine
<1>3. \A e \in Ids : Chained(e) /\ ShortIsLast(e)
  BY DEF FrameInv
<1>4. f.from \in Nat /\ f.len \in Nat /\ f.from = Len(got[g])
  <2>1. f.from \in Nat /\ f.len \in Nat
    BY <1>0, <1>2, MineFrames
  <2>2. \A j \in Mine(g) : 1 <= j
    BY <1>2
  <2> QED BY <2>1, <2>2, <1>2, <1>3 DEF Chained
<1>5. got'[g] = Upto(f.from + f.len) /\ Len(got'[g]) = f.from + f.len
  <2>1. got[g] = Upto(f.from)
    BY <1>2, <1>3, <1>4 DEF Chained
  <2>2. got'[g] = got[g] \o [k \in 1..f.len |-> f.from + k]
    BY <1>0, <1>1, <1>2 DEF TypeOK
  <2>3. f.from + f.len \in Nat
    BY <1>4
  <2> HIDE DEF f
  <2>4. /\ Upto(f.from) \o [k \in 1..f.len |-> f.from + k] = Upto(f.from + f.len)
        /\ Len(Upto(f.from + f.len)) = f.from + f.len
    <3>1. \A n, m \in Nat : /\ Upto(n) \o [k \in 1..m |-> n + k] = Upto(n + m)
                            /\ Len(Upto(n)) = n
      BY UptoConcat
    <3> QED BY <3>1, <2>3, <1>4
  <2> QED BY <2>1, <2>2, <2>4
<1>6. \A e \in Ids : /\ e # g => got'[e] = got[e] /\ ended'[e] = ended[e]
                     /\ ended'[g] = (ended[g] \/ f.len < DataLen)
  BY <1>0, <1>1, <1>2 DEF TypeOK
<1> HIDE DEF f, g
<1>7. ASSUME NEW e \in Ids PROVE Chained(e)'
  <2>1. got'[e] = Upto(Len(got'[e]))
    BY <1>3, <1>5, <1>6 DEF Chained
  <2>2. ASSUME Mine(e)' = {} PROVE Len(got'[e]) = sent'[e]
    <3>1. CASE e = g
      <4>1. \A j \in Mine(g) : j <= 1
        BY <1>2, <2>2, <3>1
      <4>2. wire[1].from + wire[1].len = sent[g]
        BY <4>1, <1>2, <1>3 DEF Chained
      <4> QED BY <3>1, <4>2, <1>1, <1>5 DEF f
    <3>2. CASE e # g
      <4>1. Mine(e) = {}
        <5>1. ASSUME NEW k \in Mine(e) PROVE FALSE
          BY <5>1, <1>2, <2>2, <3>2
        <5> QED BY <5>1
      <4> QED BY <3>2, <4>1, <1>1, <1>3, <1>6 DEF Chained
    <3> QED BY <3>1, <3>2
  <2>3. ASSUME NEW k \in Mine(e)', \A j \in Mine(e)' : k <= j
        PROVE  wire'[k].from = Len(got'[e])
    <3>1. k + 1 \in Mine(e) /\ wire'[k] = wire[k + 1] /\ k \in Nat /\ k >= 1
      BY <1>2
    <3>2. \A j \in Mine(e) : j = 1 \/ k + 1 <= j
      BY <1>2, <2>3, <3>1
    <3>3. CASE e = g
      <4>1. \A i \in Mine(g) : i <= 1 \/ k + 1 <= i
        BY <3>2, <3>3, <1>2
      <4>2. wire[k + 1].from = wire[1].from + wire[1].len
        BY <4>1, <3>1, <3>3, <1>2, <1>3 DEF Chained
      <4> QED BY <4>2, <3>1, <3>3, <1>5 DEF f
    <3>4. CASE e # g
      <4>1. \A j \in Mine(e) : k + 1 <= j
        BY <3>2, <3>4, <1>2
      <4> QED BY <4>1, <3>1, <3>4, <1>3, <1>6 DEF Chained
    <3> QED BY <3>3, <3>4
  <2>4. ASSUME NEW k \in Mine(e)', \A j \in Mine(e)' : j <= k
        PROVE  wire'[k].from + wire'[k].len = sent'[e]
    <3>1. k + 1 \in Mine(e) /\ wire'[k] = wire[k + 1] /\ k \in Nat /\ k >= 1
      BY <1>2
    <3>2. \A j \in Mine(e) : j <= k + 1
      BY <1>2, <2>4, <3>1
    <3> QED BY <3>1, <3>2, <1>1, <1>3 DEF Chained
  <2>5. ASSUME NEW k \in Mine(e)', NEW j \in Mine(e)', k < j,
               \A i \in Mine(e)' : i <= k \/ j <= i
        PROVE  wire'[j].from = wire'[k].from + wire'[k].len
    <3>1. /\ k + 1 \in Mine(e) /\ wire'[k] = wire[k + 1] /\ k \in Nat /\ k >= 1
          /\ j + 1 \in Mine(e) /\ wire'[j] = wire[j + 1] /\ j \in Nat
      BY <1>2
    <3>2. \A i \in Mine(e) : i <= k + 1 \/ j + 1 <= i
      BY <1>2, <2>5, <3>1
    <3> QED BY <3>1, <3>2, <2>5, <1>3 DEF Chained
  <2> QED BY <2>1, <2>2, <2>3, <2>4, <2>5 DEF Chained
<1>8. ASSUME NEW e \in Ids PROVE ShortIsLast(e)'
  <2>1. ASSUME NEW k \in Mine(e)', wire'[k].len < DataLen
        PROVE  final'[e] /\ \A j \in Mine(e)' : j <= k
    <3>1. k + 1 \in Mine(e) /\ wire[k + 1].len < DataLen
      BY <1>2, <2>1
    <3>2. final[e] /\ \A j \in Mine(e) : j <= k + 1
      BY <3>1, <1>3 DEF ShortIsLast
    <3> QED BY <3>2, <1>1, <1>2
  <2>2. ASSUME e = g, f.len < DataLen PROVE final'[e] /\ Mine(e)' = {}
    <3>1. final[e] /\ \A j \in Mine(e) : j <= 1
      BY <2>2, <1>2, <1>3 DEF ShortIsLast, f
    <3>2. ASSUME NEW k \in Mine(e)' PROVE FALSE
      BY <3>1, <3>2, <1>2
    <3> QED BY <3>1, <3>2, <1>1
  <2>3. ASSUME ended[e] PROVE final'[e] /\ Mine(e)' = {} /\ e # g
    BY <2>3, <1>1, <1>2, <1>3 DEF ShortIsLast
  <2>4. ended'[e] => final'[e] /\ Mine(e)' = {}
    BY <2>2, <2>3, <1>6
  <2>5. ASSUME final'[e]
        PROVE  /\ sent'[e] = length'[e] /\ pc'[e] # "send"
               /\ ended'[e] \/ \E k \in Mine(e)' : wire'[k].len < DataLen
    <3>1. sent'[e] = length'[e] /\ pc'[e] # "send"
      BY <2>5, <1>1, <1>3 DEF ShortIsLast
    <3>2. CASE ended[e]
      BY <3>1, <3>2, <1>6
    <3>3. CASE ~ended[e]
      <4>1. PICK k \in Mine(e) : wire[k].len < DataLen
        BY <3>3, <2>5, <1>1, <1>3 DEF ShortIsLast
      <4>2. CASE k = 1
        BY <4>1, <4>2, <3>1, <1>2, <1>6 DEF f
      <4>3. CASE k # 1
        <5>1. k - 1 \in Mine(e)' /\ wire'[k - 1] = wire[k]
          BY <4>3, <1>2
        <5> QED BY <3>1, <4>1, <5>1
      <4> QED BY <4>2, <4>3
    <3> QED BY <3>2, <3>3
  <2> QED BY <2>1, <2>4, <2>5 DEF ShortIsLast
<1>9. Fresh'
  <2>1. ASSUME NEW e \in Ids, pc[e] \in {"none", "refused"}
        PROVE  lost'[e] = 0 /\ Mine(e)' = {}
    <3>1. lost[e] = 0 /\ Mine(e) = {}
      BY <2>1, <1>0 DEF Fresh
    <3>2. e # g
      BY <3>1, <1>2
    <3> QED BY <3>1, <3>2, <1>1, <1>2
  <2> QED BY <2>1, <1>0, <1>1 DEF Fresh
<1> QED BY <1>7, <1>8, <1>9

(* A step that leaves the frames alone. *)
LEMMA OtherStepsKeepFrames ==
  ASSUME FrameInv, UNCHANGED <<wire, got, ended, lost, sent, final>>,
         asked' \in Nat, asked' >= asked,
         \A e \in Ids : pc'[e] \in {"none", "refused"} => pc[e] = pc'[e] \/ pc[e] = "none",
         \A e \in Ids : e > asked' => pc'[e] = pc[e],
         \A e \in Ids : final[e] => length'[e] = length[e] /\ pc'[e] # "send"
  PROVE  Fresh' /\ \A e \in Ids : Chained(e)' /\ ShortIsLast(e)'
<1>1. \A e \in Ids : Mine(e)' = Mine(e)
  BY DEF Mine
<1>2. TypeOK /\ Fresh /\ \A e \in Ids : Chained(e) /\ ShortIsLast(e)
  BY DEF FrameInv
<1>3. \A e \in Ids : Chained(e)'
  BY <1>1, <1>2 DEF Chained
<1>4. \A e \in Ids : ShortIsLast(e)'
  BY <1>1, <1>2 DEF ShortIsLast
<1>5. Fresh'
  <2>1. ASSUME NEW e \in Ids, e > asked' PROVE pc'[e] = "none"
    <3>1. e > asked
      BY <2>1, <1>2 DEF TypeOK, Ids
    <3> QED BY <2>1, <3>1, <1>2 DEF Fresh
  <2>2. ASSUME NEW e \in Ids, pc'[e] \in {"none", "refused"}
        PROVE  sent'[e] = 0 /\ ~final'[e] /\ lost'[e] = 0 /\ Mine(e)' = {}
    BY <2>2, <1>1, <1>2 DEF Fresh
  <2> QED BY <2>1, <2>2 DEF Fresh
<1> QED BY <1>3, <1>4, <1>5

LEMMA FrameStep ==
  ASSUME FrameInv, [Next]_vars
  PROVE  FrameInv'
<1>0. TypeOK /\ Fresh /\ TypeOK' /\ \A e \in Ids : ShortIsLast(e)
  BY TypeStep DEF FrameInv
<1>1. asked \in Nat /\ \A e \in Ids : final[e] => pc[e] # "send"
  BY <1>0 DEF TypeOK, ShortIsLast
<1> USE DEF link, flags
<1>2. CASE Ask
  <2>1. asked + 1 \in Ids /\ pc[asked + 1] = "none" /\ ~final[asked + 1]
    BY <1>0, <1>2 DEF Ask, TypeOK, Ids, Fresh
  <2>2. \A e \in Ids : e # asked + 1 => pc'[e] = pc[e] /\ length'[e] = length[e]
    BY <1>0, <1>2 DEF Ask, TypeOK
  <2>3. pc'[asked + 1] \in {"send", "refused"} /\ asked' = asked + 1
    BY <1>0, <1>2, <2>1 DEF Ask, TypeOK
  <2>4. /\ \A e \in Ids : pc'[e] \in {"none", "refused"} => pc[e] = pc'[e] \/ pc[e] = "none"
        /\ \A e \in Ids : e > asked' => pc'[e] = pc[e]
        /\ \A e \in Ids : final[e] => length'[e] = length[e] /\ pc'[e] # "send"
        /\ asked' \in Nat /\ asked' >= asked
    <3>1. \A e \in Ids : e > asked' => e # asked + 1
      BY <1>1, <2>3
    <3> QED BY <1>1, <2>1, <2>2, <2>3, <3>1
  <2>5. UNCHANGED <<wire, got, ended, lost, sent, final>>
    BY <1>2 DEF Ask
  <2> QED BY <1>0, <2>4, <2>5, OtherStepsKeepFrames DEF FrameInv
<1>3. CASE Serve
  BY <1>0, <1>3, ServeKeepsFrames DEF FrameInv
<1>4. CASE ListenAck
  BY <1>0, <1>1, <1>4, OtherStepsKeepFrames DEF FrameInv, ListenAck
<1>5. ASSUME NEW d \in Ids, SendFrame(d) PROVE FrameInv'
  BY <1>0, <1>5, SendKeepsFrames DEF FrameInv
<1>6. ASSUME NEW d \in Ids, Look(d) \/ Poll(d) \/ ClearAck(d) \/ Judge(d) PROVE FrameInv'
  <2>1. UNCHANGED <<asked, wire, got, ended, lost, sent, final, length>>
    BY <1>6 DEF Look, Poll, ClearAck, Judge
  <2>2. /\ pc[d] \in Waiting
        /\ \A e \in Ids : e # d => pc'[e] = pc[e]
        /\ pc'[d] \in Waiting \cup {"abandoned", "done", "send"}
        /\ final[d] => pc'[d] # "send"
    BY <1>0, <1>6 DEF Look, Poll, ClearAck, Judge, Waiting, TypeOK
  <2>3. \A e \in Ids : e > asked' => pc'[e] = pc[e]
    BY <1>0, <2>1, <2>2 DEF Fresh, Waiting
  <2> QED BY <1>0, <1>1, <2>1, <2>2, <2>3, OtherStepsKeepFrames DEF FrameInv, Waiting
<1>7. CASE UNCHANGED vars
  BY <1>0, <1>1, <1>7, OtherStepsKeepFrames DEF FrameInv, vars
<1> QED BY <1>2, <1>3, <1>4, <1>5, <1>6, <1>7 DEF Next, Processor, Finished

LEMMA FrameInvariant == Spec => []FrameInv
<1>1. Init => FrameInv
  <2> SUFFICES ASSUME Init PROVE FrameInv
    OBVIOUS
  <2>1. TypeOK
    <3>1. 0 \in 0..Downloads /\ 0 \in 0..(CntValues - 1) /\ 0 \in 0..WaitPolls /\ 0 \in Nat
      BY Constants
    <3>2. <<>> \in Seq([d : Ids, from : Nat, len : 0..DataLen]) /\ <<>> \in Seq(Nat)
      OBVIOUS
    <3>3. /\ pc \in [Ids -> Waiting \cup {"none", "send", "refused", "done", "abandoned"}]
          /\ length \in [Ids -> Lengths \cup {0}]
          /\ sent \in [Ids -> Nat] /\ \A d \in Ids : sent[d] <= length[d]
      BY DEF Init
    <3>4. /\ final \in [Ids -> BOOLEAN]
          /\ cnt \in [Ids -> 0..(CntValues - 1)]
          /\ polls \in [Ids -> 0..WaitPolls]
          /\ lost \in [Ids -> Nat]
          /\ got \in [Ids -> Seq(Nat)] /\ ended \in [Ids -> BOOLEAN]
      BY <3>1, <3>2 DEF Init
    <3> QED BY <3>1, <3>2, <3>3, <3>4 DEF Init, TypeOK
  <2>2. \A d \in Ids : Mine(d) = {} /\ got[d] = <<>> /\ sent[d] = 0 /\ ~final[d] /\ ~ended[d]
    BY DEF Init, Mine
  <2>3. <<>> = Upto(0) /\ Len(<<>>) = 0
    BY DEF Upto
  <2>4. \A d \in Ids : Chained(d) /\ ShortIsLast(d)
    BY <2>2, <2>3 DEF Chained, ShortIsLast
  <2>5. Fresh
    BY <2>2 DEF Init, Fresh
  <2> QED BY <2>1, <2>4, <2>5 DEF FrameInv
<1> QED BY <1>1, FrameStep, PTL DEF Spec

(* The variables of the download keep their types; no counter, frame or     *)
(* position leaves its range, for every number of downloads and size.       *)
THEOREM DownloadTyped == Spec => []TypeOK
BY FrameInvariant, PTL DEF FrameInv

(* However many downloads run at the same time and whatever acks get lost,  *)
(* the server gets the bytes of each file in order, none twice, and the     *)
(* short frame that completes it last (handleRdFile, uart.c:735-783).       *)
THEOREM FramesStayInOrder == Spec => []FramesInOrder
<1>1. FrameInv => FramesInOrder
  <2> SUFFICES ASSUME FrameInv, NEW d \in Ids
               PROVE  /\ got[d] = Upto(Len(got[d]))
                      /\ Mine(d) = {} => Len(got[d]) = sent[d]
                      /\ ended[d] => Len(got[d]) = length[d]
    BY DEF FramesInOrder
  <2>1. Chained(d) /\ ShortIsLast(d)
    BY DEF FrameInv
  <2> QED BY <2>1 DEF Chained, ShortIsLast
<1> QED BY <1>1, FrameInvariant, PTL

-----------------------------------------------------------------------------
(* One download at a time *)

(* Where the ack of the frame sent last is: the frame, its ack or the flag  *)
(* that it has come, or it is lost.                                         *)
Unanswered(d) ==
  \/ Len(wire) = 1 /\ Mine(d) = {1} /\ acks = 0 /\ ~isFileAckReceived /\ lost[d] = 0
  \/ wire = <<>> /\ acks = 1 /\ ~isFileAckReceived /\ lost[d] = 0

Acked(d) == wire = <<>> /\ acks = 0 /\ isFileAckReceived /\ lost[d] = 0

AckLost(d) == wire = <<>> /\ acks = 0 /\ ~isFileAckReceived /\ lost[d] = 1

Clean == wire = <<>> /\ acks = 0 /\ ~isFileAckReceived

WaitInv(d) ==
  /\ pc[d] = "send" => Clean /\ ~isFileAckTimeout /\ lost[d] = 0
  /\ pc[d] \in {"loop", "sleep"} =>
       /\ ~isFileAckTimeout
       /\ Unanswered(d) \/ Acked(d) \/ AckLost(d)
       /\ polls[d] = 0 => cnt[d] # WaitPolls - 1
       /\ polls[d] > 0 => wire = <<>> /\ acks = 0
  /\ pc[d] = "sleep" /\ polls[d] > 0 => AckLost(d)
  /\ pc[d] = "clear" => IF isFileAckTimeout THEN AckLost(d) ELSE Acked(d)
  /\ pc[d] = "judge" => Clean /\ lost[d] = IF isFileAckTimeout THEN 1 ELSE 0
  /\ pc[d] = "done" => ended[d]
  /\ pc[d] = "abandoned" => lost[d] = 1

OrderlyInv ==
  orderly =>
    /\ \A d, e \in Ids : Running(d) /\ Running(e) => d = e
    /\ (\A d \in Ids : ~Running(d)) => Clean /\ ~isFileAckTimeout
    /\ \A d \in Ids : WaitInv(d)

IInv == FrameInv /\ OrderlyInv

(* When one download runs, and it takes a step or the line does, the others *)
(* have ended and stay so.                                                  *)
LEMMA OnlyOneMoves ==
  ASSUME orderly, OrderlyInv, TypeOK, NEW d \in Ids, Running(d),
         \A e \in Ids : e # d =>
           pc'[e] = pc[e] /\ lost'[e] = lost[e] /\ (ended[e] => ended'[e]),
         WaitInv(d)',
         ~Running(d)' => Clean' /\ ~isFileAckTimeout'
  PROVE  OrderlyInv'
<1>1. \A e \in Ids : WaitInv(e) /\ (Running(e) => e = d)
  BY DEF OrderlyInv
<1>2. \A e \in Ids : Running(e)' => e = d
  BY <1>1 DEF Running
<1>3. ASSUME NEW e \in Ids PROVE WaitInv(e)'
  <2>1. CASE e = d
    BY <2>1
  <2>2. CASE e # d
    <3>1. pc[e] \notin Waiting \cup {"send"} /\ pc'[e] = pc[e] /\ lost'[e] = lost[e]
          /\ (ended[e] => ended'[e])
      BY <2>2, <1>1 DEF Running
    <3>2. /\ pc[e] = "done" => ended[e]
          /\ pc[e] = "abandoned" => lost[e] = 1
      BY <1>1 DEF WaitInv
    <3> QED BY <3>1, <3>2 DEF WaitInv, Waiting
  <2> QED BY <2>1, <2>2
<1> QED BY <1>2, <1>3 DEF OrderlyInv

(* Something on the line is of a download that waits for its ack. *)
LEMMA LineIsOfWaiting ==
  ASSUME orderly, OrderlyInv, wire # <<>> \/ acks # 0
  PROVE  \E d \in Ids : pc[d] \in {"loop", "sleep"} /\ Unanswered(d) /\ Running(d) /\ WaitInv(d)
<1>1. PICK d \in Ids : Running(d)
  BY DEF OrderlyInv, Clean
<1>2. WaitInv(d)
  BY DEF OrderlyInv
<1>3. pc[d] \in {"loop", "sleep"}
  BY <1>1, <1>2 DEF WaitInv, Running, Waiting, Clean, Acked, AckLost
<1>4. Unanswered(d)
  BY <1>2, <1>3 DEF WaitInv, Acked, AckLost
<1> QED BY <1>1, <1>2, <1>3, <1>4

(* A counter that is not about to reach WaitPolls does not reach it. *)
LEMMA CountReaches ==
  ASSUME NEW c \in 0..(CntValues - 1), (c + 1) % CntValues = WaitPolls
  PROVE  c = WaitPolls - 1
BY Constants

LEMMA OrderlyStep ==
  ASSUME FrameInv, OrderlyInv, [Next]_vars
  PROVE  OrderlyInv'
<1>0. TypeOK /\ Fresh /\ FrameInv'
  BY FrameStep DEF FrameInv
<1>1. CASE ~orderly'
  BY <1>1 DEF OrderlyInv
<1> SUFFICES ASSUME orderly' PROVE OrderlyInv'
  BY <1>1
<1> USE DEF flags, link
<1>2. CASE Ask
  <2>1. orderly /\ (\A d \in Ids : ~Running(d)) /\ wire = <<>> /\ acks = 0
    BY <1>2 DEF Ask, AllEnded
  <2>2. Clean /\ ~isFileAckTimeout /\ \A d \in Ids : WaitInv(d)
    BY <2>1 DEF OrderlyInv
  <2>3. asked + 1 \in Ids /\ lost[asked + 1] = 0
    <3>1. asked + 1 \in Ids /\ asked + 1 > asked
      <4>1. asked \in 0..Downloads /\ asked < Downloads
        BY <1>0, <1>2 DEF Ask, TypeOK
      <4> QED BY <4>1, Constants DEF Ids
    <3> QED BY <1>0, <3>1 DEF Fresh
  <2>4. /\ UNCHANGED <<flags, link>> /\ \A d \in Ids : d # asked + 1 => pc'[d] = pc[d]
        /\ pc'[asked + 1] \in {"send", "refused"}
    BY <1>0, <1>2, <2>3 DEF Ask, TypeOK
  <2>5. Clean' /\ ~isFileAckTimeout'
    BY <2>2, <2>4 DEF Clean
  <2>6. ASSUME NEW d \in Ids PROVE WaitInv(d)'
    <3>1. CASE d = asked + 1
      BY <3>1, <2>3, <2>4, <2>5 DEF WaitInv
    <3>2. CASE d # asked + 1
      <4>1. pc[d] \notin Waiting \cup {"send"} /\ pc'[d] = pc[d]
            /\ lost'[d] = lost[d] /\ ended'[d] = ended[d]
        BY <3>2, <2>1, <2>4 DEF Running
      <4>2. /\ pc[d] = "done" => ended[d]
            /\ pc[d] = "abandoned" => lost[d] = 1
        BY <2>2 DEF WaitInv
      <4> QED BY <4>1, <4>2 DEF WaitInv, Waiting
    <3> QED BY <3>1, <3>2
  <2>7. \A d, e \in Ids : Running(d)' /\ Running(e)' => d = e
    BY <2>1, <2>4 DEF Running
  <2> QED BY <2>5, <2>6, <2>7 DEF OrderlyInv
<1>3. CASE Serve
  <2>0. orderly /\ UNCHANGED <<pc, flags, polls, cnt>>
    BY <1>3 DEF Serve
  <2>1. wire # <<>>
    BY <1>3 DEF Serve
  <2>2. PICK d \in Ids : pc[d] \in {"loop", "sleep"} /\ Unanswered(d) /\ Running(d) /\ WaitInv(d)
    BY <2>0, <2>1, LineIsOfWaiting
  <2>3. Len(wire) = 1 /\ Mine(d) = {1} /\ acks = 0 /\ ~isFileAckReceived /\ lost[d] = 0
    BY <2>1, <2>2 DEF Unanswered
  <2>4. wire[1].d = d /\ Head(wire) = wire[1]
    BY <1>0, <1>3, <2>3, ServeFacts DEF Mine
  <2>5. wire' = <<>>
    <3>1. wire' \in Seq(Frames) /\ Len(wire') = 0
      BY <1>0, <1>3, <2>3, ServeFacts
    <3> QED BY <3>1, EmptySeq
  <2>6. \/ acks' = 1 /\ lost' = lost
        \/ acks' = 0 /\ lost' = [lost EXCEPT ![d] = 1]
    BY <1>3, <2>3, <2>4 DEF Serve
  <2>7. Unanswered(d)' \/ AckLost(d)'
    <3>1. CASE acks' = 1 /\ lost' = lost
      BY <3>1, <2>0, <2>3, <2>5 DEF Unanswered
    <3>2. CASE acks' = 0 /\ lost' = [lost EXCEPT ![d] = 1]
      BY <3>2, <1>0, <2>0, <2>3, <2>5 DEF AckLost, TypeOK
    <3> QED BY <2>6, <3>1, <3>2
  <2>8. /\ ~isFileAckTimeout
        /\ polls[d] = 0 => cnt[d] # WaitPolls - 1
        /\ ~(polls[d] > 0)
    BY <2>1, <2>2 DEF WaitInv
  <2>9. WaitInv(d)'
    BY <2>0, <2>2, <2>7, <2>8 DEF WaitInv
  <2>10. \A e \in Ids : e # d =>
           pc'[e] = pc[e] /\ lost'[e] = lost[e] /\ (ended[e] => ended'[e])
    BY <1>0, <1>3, <2>0, <2>4, <2>6 DEF Serve, TypeOK
  <2>11. Running(d)'
    BY <2>0, <2>2 DEF Running
  <2> QED BY <1>0, <2>0, <2>2, <2>9, <2>10, <2>11, OnlyOneMoves
<1>4. CASE ListenAck
  <2>0. /\ orderly /\ UNCHANGED <<pc, isFileAckTimeout, polls, cnt, wire, lost, ended>>
        /\ acks > 0 /\ acks' = acks - 1 /\ isFileAckReceived'
    BY <1>4 DEF ListenAck
  <2>1. acks # 0
    BY <1>0, <2>0 DEF TypeOK
  <2>2. PICK d \in Ids : pc[d] \in {"loop", "sleep"} /\ Unanswered(d) /\ Running(d) /\ WaitInv(d)
    BY <2>0, <2>1, LineIsOfWaiting
  <2>3. wire = <<>> /\ acks = 1 /\ ~isFileAckReceived /\ lost[d] = 0
    BY <2>1, <2>2 DEF Unanswered
  <2>4. Acked(d)'
    BY <2>0, <2>3 DEF Acked
  <2>5. WaitInv(d)'
    BY <2>0, <2>1, <2>2, <2>4 DEF WaitInv
  <2>6. Running(d)'
    BY <2>0, <2>2 DEF Running
  <2> QED BY <1>0, <2>0, <2>2, <2>5, <2>6, OnlyOneMoves
<1>5. ASSUME NEW d \in Ids, SendFrame(d) PROVE OrderlyInv'
  <2>0. /\ pc[d] = "send" /\ pc' = [pc EXCEPT ![d] = "loop"]
        /\ UNCHANGED <<flags, acks, ended, lost>> /\ orderly
        /\ polls' = [polls EXCEPT ![d] = 0]
    BY <1>5 DEF SendFrame
  <2>1. cnt'[d] # WaitPolls - 1 /\ polls'[d] = 0 /\ pc'[d] = "loop"
    BY <1>0, <1>5 DEF SendFrame, TypeOK
  <2>2. WaitInv(d) /\ Running(d)
    BY <2>0 DEF OrderlyInv, Running
  <2>3. wire = <<>> /\ acks = 0 /\ ~isFileAckReceived /\ ~isFileAckTimeout /\ lost[d] = 0
    BY <2>0, <2>2 DEF WaitInv, Clean
  <2>4. Len(wire') = 1 /\ Mine(d)' = {1}
    <3>1. Len(wire) = 0 /\ Mine(d) = {}
      BY <2>3 DEF Mine
    <3>2. Mine(d)' = {1}
      BY <1>0, <1>5, <3>1, SendMine
    <3>3. wire' \in Seq(Frames) /\ DOMAIN wire' = 1..1
      BY <1>0, <1>5, <3>1, SendFacts
    <3>4. Len(wire') = 1
      BY <3>3, LenProperties
    <3> QED BY <3>2, <3>4
  <2>5. Unanswered(d)'
    BY <2>0, <2>3, <2>4 DEF Unanswered
  <2>6. WaitInv(d)'
    BY <2>0, <2>1, <2>3, <2>5 DEF WaitInv
  <2>7. Running(d)' /\ \A e \in Ids : e # d => pc'[e] = pc[e]
    BY <1>0, <2>0, <2>1 DEF Running, Waiting, TypeOK
  <2> QED BY <1>0, <2>0, <2>2, <2>6, <2>7, OnlyOneMoves
<1>6. ASSUME NEW d \in Ids, Look(d) PROVE OrderlyInv'
  <2>0. /\ pc[d] = "loop" /\ UNCHANGED <<flags, link, polls, cnt>> /\ orderly
        /\ pc'[d] = IF isFileAckReceived THEN "clear" ELSE "sleep"
        /\ \A e \in Ids : e # d => pc'[e] = pc[e]
    BY <1>0, <1>6 DEF Look, TypeOK
  <2>1. WaitInv(d) /\ Running(d) /\ Running(d)'
    BY <2>0 DEF OrderlyInv, Running, Waiting
  <2>2. CASE isFileAckReceived
    <3>1. Acked(d) /\ ~isFileAckTimeout
      BY <2>0, <2>1, <2>2 DEF WaitInv, Unanswered, AckLost
    <3>2. WaitInv(d)'
      BY <2>0, <2>2, <3>1 DEF WaitInv, Acked
    <3> QED BY <1>0, <2>0, <2>1, <3>2, OnlyOneMoves
  <2>3. CASE ~isFileAckReceived
    <3>1. ~isFileAckTimeout /\ (Unanswered(d) \/ AckLost(d))
      BY <2>0, <2>1, <2>3 DEF WaitInv, Acked
    <3>2. polls[d] > 0 => AckLost(d)
      BY <2>0, <2>1, <3>1 DEF WaitInv, Unanswered
    <3>3. /\ polls[d] = 0 => cnt[d] # WaitPolls - 1
          /\ polls[d] > 0 => wire = <<>> /\ acks = 0
      BY <2>0, <2>1 DEF WaitInv
    <3>4. Mine(d)' = Mine(d)
      BY <2>0 DEF Mine
    <3>5. WaitInv(d)'
      BY <2>0, <2>3, <3>1, <3>2, <3>3, <3>4 DEF WaitInv, Unanswered, AckLost
    <3> QED BY <1>0, <2>0, <2>1, <3>5, OnlyOneMoves
  <2> QED BY <2>2, <2>3
<1>7. ASSUME NEW d \in Ids, Poll(d) PROVE OrderlyInv'
  <2>0. /\ pc[d] = "sleep" /\ UNCHANGED <<isFileAckReceived, link>>
        /\ orderly /\ wire = <<>> /\ acks = 0
        /\ cnt'[d] = (cnt[d] + 1) % CntValues
        /\ isFileAckTimeout' = (cnt'[d] = WaitPolls)
        /\ pc'[d] = IF cnt'[d] = WaitPolls THEN "clear" ELSE "loop"
        /\ \A e \in Ids : e # d => pc'[e] = pc[e]
    BY <1>0, <1>7 DEF Poll, TypeOK
  <2>1. WaitInv(d) /\ Running(d) /\ Running(d)'
    BY <2>0 DEF OrderlyInv, Running, Waiting
  <2>2. polls[d] \in Nat /\ polls'[d] \in Nat /\ polls'[d] > 0
    <3>1. polls[d] \in 0..WaitPolls
      BY <1>0 DEF TypeOK
    <3>2. polls'[d] = IF polls[d] = WaitPolls THEN polls[d] ELSE polls[d] + 1
      BY <1>0, <1>7 DEF Poll, TypeOK
    <3> QED BY <3>1, <3>2, Constants
  <2>3. Acked(d) \/ AckLost(d)
    BY <2>0, <2>1 DEF WaitInv, Unanswered
  <2>4. CASE cnt'[d] = WaitPolls
    <3>1. cnt[d] = WaitPolls - 1
      BY <1>0, <2>0, <2>4, CountReaches DEF TypeOK
    <3>2. polls[d] > 0
      BY <2>0, <2>1, <2>2, <3>1 DEF WaitInv
    <3>3. AckLost(d)
      BY <2>0, <2>1, <3>2 DEF WaitInv
    <3>4. WaitInv(d)'
      BY <2>0, <2>4, <3>3 DEF WaitInv, AckLost
    <3> QED BY <1>0, <2>0, <2>1, <3>4, OnlyOneMoves
  <2>5. CASE cnt'[d] # WaitPolls
    <3>1. ~isFileAckTimeout' /\ pc'[d] = "loop"
      BY <2>0, <2>5
    <3>2. Acked(d)' \/ AckLost(d)'
      BY <2>0, <2>3 DEF Acked, AckLost
    <3>3. WaitInv(d)'
      BY <2>0, <2>2, <3>1, <3>2 DEF WaitInv
    <3> QED BY <1>0, <2>0, <2>1, <3>3, OnlyOneMoves
  <2> QED BY <2>4, <2>5
<1>8. ASSUME NEW d \in Ids, ClearAck(d) PROVE OrderlyInv'
  <2>0. /\ pc[d] = "clear" /\ ~isFileAckReceived' /\ orderly
        /\ UNCHANGED <<isFileAckTimeout, link>>
        /\ pc'[d] = "judge"
        /\ \A e \in Ids : e # d => pc'[e] = pc[e]
    BY <1>0, <1>8 DEF ClearAck, TypeOK
  <2>1. WaitInv(d) /\ Running(d) /\ Running(d)'
    BY <2>0 DEF OrderlyInv, Running, Waiting
  <2>2. IF isFileAckTimeout THEN AckLost(d) ELSE Acked(d)
    BY <2>0, <2>1 DEF WaitInv
  <2>3. WaitInv(d)'
    BY <2>0, <2>2 DEF WaitInv, Clean, Acked, AckLost
  <2> QED BY <1>0, <2>0, <2>1, <2>3, OnlyOneMoves
<1>9. ASSUME NEW d \in Ids, Judge(d) PROVE OrderlyInv'
  <2>0. /\ pc[d] = "judge" /\ ~isFileAckTimeout' /\ orderly
        /\ UNCHANGED <<isFileAckReceived, link, final>>
        /\ pc'[d] = IF isFileAckTimeout THEN "abandoned" ELSE IF final[d] THEN "done" ELSE "send"
        /\ \A e \in Ids : e # d => pc'[e] = pc[e]
    BY <1>0, <1>9 DEF Judge, TypeOK
  <2>1. WaitInv(d) /\ Running(d)
    BY <2>0 DEF OrderlyInv, Running, Waiting
  <2>2. Clean /\ lost[d] = IF isFileAckTimeout THEN 1 ELSE 0
    BY <2>0, <2>1 DEF WaitInv
  <2>3. final[d] => ended[d]
    <3>1. Mine(d) = {}
      BY <2>2 DEF Clean, Mine
    <3> QED BY <3>1 DEF FrameInv, ShortIsLast
  <2>4. Clean'
    BY <2>0, <2>2 DEF Clean
  <2>5. WaitInv(d)'
    BY <2>0, <2>2, <2>3, <2>4 DEF WaitInv
  <2> QED BY <1>0, <2>0, <2>1, <2>4, <2>5, OnlyOneMoves
<1>10. CASE UNCHANGED vars
  <2>1. /\ \A d \in Ids : WaitInv(d)' = WaitInv(d) /\ Running(d)' = Running(d)
        /\ Clean' = Clean /\ UNCHANGED <<isFileAckTimeout, orderly>>
    BY <1>10 DEF vars, WaitInv, Clean, Unanswered, Acked, AckLost, Running, Mine
  <2> QED BY <2>1 DEF OrderlyInv
<1> QED BY <1>2, <1>3, <1>4, <1>5, <1>6, <1>7, <1>8, <1>9, <1>10
    DEF Next, Processor, Finished

LEMMA DownloadInvariant == Spec => []IInv
<1>1. Init => OrderlyInv
  BY DEF Init, OrderlyInv, Running, Waiting, Clean, WaitInv
<1>2. FrameInv /\ OrderlyInv /\ [Next]_vars => OrderlyInv'
  BY OrderlyStep
<1> QED BY <1>1, <1>2, FrameInvariant, PTL DEF Spec, IInv

(* With one download at a time and acks that come within a poll, a frame is *)
(* sent only when nothing of an earlier one is under way: no ack and no     *)
(* flag is left over from the last wait (waitFileAckFromServer,             *)
(* uart.c:666-684).                                                         *)
THEOREM SendsOneAtATime == Spec => []StopAndWait
<1>1. IInv => StopAndWait
  BY DEF IInv, OrderlyInv, WaitInv, StopAndWait, Clean
<1> QED BY <1>1, DownloadInvariant, PTL

(* Then also the flags tell the truth: a download that is done has told the *)
(* server so, and one is abandoned only for the one ack that got lost.      *)
THEOREM EndsTruthfully == Spec => []EndsForCause
<1>1. IInv => EndsForCause
  BY DEF IInv, OrderlyInv, WaitInv, EndsForCause
<1> QED BY <1>1, DownloadInvariant, PTL
=============================================================================
