-------------------------- MODULE FileUploadProofs --------------------------
(***************************************************************************)
(* Proofs about FileUpload: however the threads interleave, each frame is  *)
(* acked once and at most one file is written for an upload; and when each *)
(* frame is handled before the next comes, the uploads arrive in the files *)
(* of their names, and the end of the buffer is only passed by one that is *)
(* too large or comes behind a refused one.                                *)
(***************************************************************************)
EXTENDS FileUpload, SequenceTheorems, FiniteSetTheorems, TLAPS

-----------------------------------------------------------------------------
(* What the threads still have to do *)

(* The threads in a set of states: those that will send an ack, put the NUL *)
(* at the end of a file, and write a file.                                  *)
At(Q) == {n \in Threads : procs[n] \in Q}
ToReply == {t \in ThreadType : t.pc = "reply"}
ToEnd == {t \in ThreadType :
            \/ t.pc \in {"reply", "copy", "advance"} /\ Len(t.bytes) < DataLen
            \/ t.pc = "terminate"}
ToWrite == ToEnd \cup {t \in ThreadType : t.pc = "write"}

(* The last upload, and how much of it has been sent.                       *)
Current == uploads[Len(uploads)].bytes
Sent == Len(Current) - Len(left)
LeftInv ==
  /\ uploads = <<>> => ~underway
  /\ ~underway => left = <<>>
  /\ uploads # <<>> => /\ Len(left) <= Len(Current)
                       /\ \A i \in 1..Len(left) : left[i] = Current[Sent + i]

Written == [name : Nat, bytes : {Text(m) : m \in [0..(Size - 1) -> Nat]}]

ThreadInv ==
  /\ written \in Seq(Written)
  /\ \A n \in Threads : procs[n].of <= Len(uploads) /\ Len(procs[n].bytes) <= DataLen
  /\ acks = Cardinality(At(ToReply))
  /\ Len(written) + Cardinality(At(ToWrite)) + (IF underway THEN 1 ELSE 0) <= Len(uploads)

-----------------------------------------------------------------------------
(* Each frame comes when the one before has been handled *)

(* The uploads that are finished: written, or refused.                      *)
Writing == {"reply", "copy", "advance", "terminate", "write"}
Done == IF underway \/ \E n \in Threads : procs[n].pc \in Writing
        THEN Len(uploads) - 1 ELSE Len(uploads)

Holds(m) == m <= Size /\ \A i \in 1..m : file_data[i - 1] = Current[i]

(* What a thread finds, and what it has done by the time it is at pc.       *)
Stage(t) ==
  LET first == Sent - Len(t.bytes)
      fresh == ~BehindRefused(Len(uploads)) IN
  /\ t.of = Len(uploads) /\ uploads # <<>>
  /\ t.pc = "name" <=> g_filename # Len(uploads)
  /\ t.pc = "name" => underway /\ Sent = 0 /\ (fresh => pt_FileData = 0)
  /\ t.pc \in {"reply", "copy", "advance"} =>
       /\ underway <=> Len(t.bytes) = DataLen
       /\ first >= 0 /\ \A i \in 1..Len(t.bytes) : t.bytes[i] = Current[first + i]
       /\ fresh => pt_FileData = first /\ Holds(IF t.pc = "advance" THEN Sent ELSE first)
       /\ t.pc = "advance" => t.base = pt_FileData
  /\ t.pc \in {"terminate", "write", "reset"} => ~underway
  /\ t.pc = "terminate" /\ fresh => pt_FileData = Sent /\ Holds(Sent)
  /\ t.pc = "write" /\ fresh => Holds(Sent) /\ Sent + 1 < Size /\ file_data[Sent + 1] = NUL
  /\ t.pc = "reset" => uploads[Len(uploads)].good

Rest ==
  /\ g_filename = Len(uploads)
  /\ uploads = <<>> => pt_FileData = 0
  /\ uploads # <<>> =>
       IF underway THEN ~BehindRefused(Len(uploads)) => pt_FileData = Sent /\ Holds(Sent)
       ELSE uploads[Len(uploads)].good => pt_FileData = 0

(* A file has the bytes of its upload, and at most one more.                *)
Keeps(f) ==
  LET bytes == uploads[f.name].bytes IN
  ~BehindRefused(f.name) =>
    /\ Len(f.bytes) \in {Len(bytes), Len(bytes) + 1}
    /\ SubSeq(f.bytes, 1, Len(bytes)) = bytes

Kept ==
  /\ \A i \in DOMAIN written :
       written[i].name \in 1..Done /\ uploads[written[i].name].good /\ Keeps(written[i])
  /\ \A i, j \in DOMAIN written : i < j => written[i].name < written[j].name
  /\ \A k \in 1..Done : uploads[k].good => \E i \in DOMAIN written : written[i].name = k

(* Only the thread of the frame that came last can be at work.              *)
Alone == \A n \in Threads : procs[n].pc # "idle" => n = Len(procs) /\ Stage(procs[n])

(* The end of the buffer is not passed but for one of two reasons.          *)
Excused ==
  overrun => uploads # <<>> /\ (BehindRefused(Len(uploads)) \/ ~Fits(Len(uploads)))

CalmInv == calm => Alone /\ (Quiet => Rest) /\ Kept /\ Excused

IInv == TypeOK /\ LeftInv /\ ThreadInv /\ CalmInv

-----------------------------------------------------------------------------
(* Threads *)

Becomes(n, t) == procs' = [procs EXCEPT ![n] = t]
Starts(t) == procs' = Append(procs, t)

LEMMA Facts ==
  ASSUME TypeOK
  PROVE  /\ Len(procs) \in Nat /\ Threads = 1..Len(procs) /\ IsFiniteSet(Threads)
         /\ procs \in [1..Len(procs) -> ThreadType]
         /\ Len(uploads) \in Nat /\ DOMAIN uploads = 1..Len(uploads)
         /\ uploads # <<>> <=> Len(uploads) > 0
         /\ \A k \in 1..Len(uploads) :
              /\ uploads[k].bytes \in Seq(Nat \ {NUL}) /\ uploads[k].bytes \in Files
              /\ uploads[k].good \in BOOLEAN
              /\ Len(uploads[k].bytes) \in Nat
         /\ Len(left) \in Nat
<1>1. /\ Len(procs) \in Nat /\ Threads = 1..Len(procs) /\ procs \in [1..Len(procs) -> ThreadType]
      /\ Len(uploads) \in Nat /\ DOMAIN uploads = 1..Len(uploads)
      /\ uploads \in [1..Len(uploads) -> [bytes : Files, good : BOOLEAN]] /\ Len(left) \in Nat
  BY LenProperties DEF TypeOK, Threads
<1>2. uploads # <<>> <=> Len(uploads) > 0
  BY <1>1, EmptySeq DEF TypeOK
<1>3. ASSUME NEW k \in 1..Len(uploads)
      PROVE  /\ uploads[k].bytes \in Seq(Nat \ {NUL}) /\ uploads[k].bytes \in Files
             /\ uploads[k].good \in BOOLEAN /\ Len(uploads[k].bytes) \in Nat
  <2>1. uploads[k].bytes \in Files /\ uploads[k].good \in BOOLEAN
    BY <1>1
  <2>2. uploads[k].bytes \in Seq(Nat \ {NUL})
    BY <2>1, UploadAssumption
  <2> QED BY <2>1, <2>2, LenProperties
<1>4. IsFiniteSet(Threads)
  BY <1>1, FS_Interval
<1> QED BY <1>1, <1>2, <1>3, <1>4

LEMMA AtFinite ==
  ASSUME TypeOK, NEW Q
  PROVE  IsFiniteSet(At(Q)) /\ Cardinality(At(Q)) \in Nat
<1>1. IsFiniteSet(Threads) /\ At(Q) \subseteq Threads
  BY Facts DEF At
<1> QED BY <1>1, FS_Subset, FS_CardinalityType

LEMMA ThreadBecomes ==
  ASSUME TypeOK, NEW n \in Threads, NEW t \in ThreadType, Becomes(n, t)
  PROVE  /\ procs' \in Seq(ThreadType) /\ Len(procs') = Len(procs) /\ Threads' = Threads
         /\ procs'[n] = t
         /\ \A o \in Threads : o # n => procs'[o] = procs[o]
<1>1. procs \in Seq(ThreadType) /\ n \in 1..Len(procs) /\ Threads = 1..Len(procs)
  BY Facts DEF TypeOK
<1>2. /\ procs' \in Seq(ThreadType) /\ Len(procs') = Len(procs)
      /\ \A o \in 1..Len(procs) : procs'[o] = IF o = n THEN t ELSE procs[o]
  BY <1>1, ExceptSeq DEF Becomes
<1>3. Threads' = 1..Len(procs')
  BY <1>2, LenProperties DEF Threads
<1> QED BY <1>1, <1>2, <1>3

LEMMA ThreadStarts ==
  ASSUME TypeOK, NEW t \in ThreadType, Starts(t)
  PROVE  /\ procs' \in Seq(ThreadType) /\ Len(procs') = Len(procs) + 1
         /\ Threads' = Threads \cup {Len(procs) + 1} /\ Len(procs) + 1 \notin Threads
         /\ procs'[Len(procs) + 1] = t
         /\ \A o \in Threads : procs'[o] = procs[o]
<1>1. procs \in Seq(ThreadType) /\ Threads = 1..Len(procs) /\ Len(procs) \in Nat
  BY Facts DEF TypeOK
<1>2. /\ procs' \in Seq(ThreadType) /\ Len(procs') = Len(procs) + 1
      /\ \A o \in 1..Len(procs) : procs'[o] = procs[o]
      /\ procs'[Len(procs) + 1] = t
  BY <1>1, AppendProperties DEF Starts
<1>3. Threads' = 1..(Len(procs) + 1)
  BY <1>2, LenProperties DEF Threads
<1> QED BY <1>1, <1>2, <1>3

One(t, Q) == IF t \in Q THEN 1 ELSE 0

LEMMA AtBecomes ==
  ASSUME TypeOK, NEW n \in Threads, NEW t \in ThreadType, Becomes(n, t), NEW Q
  PROVE  /\ Cardinality(At(Q)') = Cardinality(At(Q)) - One(procs[n], Q) + One(t, Q)
         /\ Cardinality(At(Q)') \in Nat
<1>0. IsFiniteSet(At(Q)) /\ Cardinality(At(Q)) \in Nat
  BY AtFinite
<1>1. Threads' = Threads /\ procs'[n] = t /\ \A o \in Threads : o # n => procs'[o] = procs[o]
  BY ThreadBecomes
<1>2. CASE (procs[n] \in Q) = (t \in Q)
  <2>1. At(Q)' = At(Q)
    BY <1>1, <1>2 DEF At
  <2> QED BY <1>0, <1>2, <2>1 DEF One
<1>3. CASE procs[n] \in Q /\ t \notin Q
  <2>1. At(Q)' = At(Q) \ {n} /\ n \in At(Q)
    BY <1>1, <1>3 DEF At
  <2>2. Cardinality(At(Q)') = Cardinality(At(Q)) - 1
    BY <1>0, <2>1, FS_RemoveElement
  <2>3. Cardinality(At(Q)') \in Nat
    BY <1>0, <2>1, FS_RemoveElement, FS_CardinalityType
  <2> QED BY <1>0, <1>3, <2>2, <2>3 DEF One
<1>4. CASE procs[n] \notin Q /\ t \in Q
  <2>1. At(Q)' = At(Q) \cup {n} /\ n \notin At(Q)
    BY <1>1, <1>4 DEF At
  <2>2. Cardinality(At(Q)') = Cardinality(At(Q)) + 1
    BY <1>0, <2>1, FS_AddElement
  <2> QED BY <1>0, <1>4, <2>2 DEF One
<1> QED BY <1>2, <1>3, <1>4

LEMMA AtStarts ==
  ASSUME TypeOK, NEW t \in ThreadType, Starts(t), NEW Q
  PROVE  Cardinality(At(Q)') = Cardinality(At(Q)) + One(t, Q)
<1>0. IsFiniteSet(At(Q)) /\ Cardinality(At(Q)) \in Nat
  BY AtFinite
<1>1. /\ Threads' = Threads \cup {Len(procs) + 1} /\ Len(procs) + 1 \notin Threads
      /\ procs'[Len(procs) + 1] = t /\ \A o \in Threads : procs'[o] = procs[o]
  BY ThreadStarts
<1>2. CASE t \notin Q
  <2>1. At(Q)' = At(Q)
    BY <1>1, <1>2 DEF At
  <2> QED BY <1>0, <1>2, <2>1 DEF One
<1>3. CASE t \in Q
  <2>1. At(Q)' = At(Q) \cup {Len(procs) + 1} /\ Len(procs) + 1 \notin At(Q)
    BY <1>1, <1>3 DEF At
  <2>2. Cardinality(At(Q)') = Cardinality(At(Q)) + 1
    BY <1>0, <2>1, FS_AddElement
  <2> QED BY <1>0, <1>3, <2>2 DEF One
<1> QED BY <1>2, <1>3

-----------------------------------------------------------------------------
(* What the server does *)

LEMMA SendNameFacts ==
  ASSUME TypeOK, LeftInv, SendName
  PROVE  /\ uploads' \in Seq([bytes : Files, good : BOOLEAN])
         /\ Len(uploads') = Len(uploads) + 1 /\ Len(uploads') <= MaxUploads
         /\ \A k \in 1..Len(uploads) : uploads'[k] = uploads[k]
         /\ ~underway /\ underway' = TRUE /\ left' = Current' /\ left' \in Seq(Nat \ {NUL})
         /\ Current' \in Files /\ Len(Current') \in Nat /\ Sent' = 0
         /\ Starts(Thread("name", Len(uploads) + 1, <<>>))
         /\ Thread("name", Len(uploads) + 1, <<>>) \in ThreadType
         /\ LeftInv'
<1>0. Len(uploads) \in Nat
  BY Facts
<1>1. PICK f \in Files, good \in BOOLEAN :
        uploads' = Append(uploads, [bytes |-> f, good |-> good]) /\ underway' = TRUE /\ left' = f
  BY DEF SendName
<1> DEFINE u == [bytes |-> f, good |-> good]
<1>2. u \in [bytes : Files, good : BOOLEAN] /\ u.bytes = f
  BY <1>1
<1> HIDE DEF u
<1>3. /\ uploads' \in Seq([bytes : Files, good : BOOLEAN]) /\ Len(uploads') = Len(uploads) + 1
      /\ \A k \in 1..Len(uploads) : uploads'[k] = uploads[k]
      /\ uploads'[Len(uploads) + 1] = u
  BY <1>1, <1>2, AppendProperties DEF TypeOK, u
<1>4. Current' = f /\ left' = f
  BY <1>1, <1>2, <1>3 DEF Current
<1>5. f \in Seq(Nat \ {NUL}) /\ Len(f) \in Nat
  BY UploadAssumption, LenProperties
<1>6. Sent' = 0
  BY <1>4, <1>5 DEF Sent
<1>7. Len(uploads') <= MaxUploads /\ ~underway /\ Starts(Thread("name", Len(uploads) + 1, <<>>))
  BY <1>0, <1>3, UploadAssumption DEF SendName, Starts
<1>8. Thread("name", Len(uploads) + 1, <<>>) \in ThreadType
  <2>1. <<>> \in Seq(Nat \ {NUL})
    BY EmptySeq
  <2> QED BY <1>0, <2>1 DEF Thread, ThreadType, PCs
<1>9. uploads' # <<>>
  BY <1>0, <1>3, EmptySeq
<1>10. LeftInv'
  <2>1. Sent' + 0 = 0 /\ \A i \in 1..Len(left') : left'[i] = Current'[Sent' + i]
    BY <1>4, <1>5, <1>6
  <2> QED BY <1>1, <1>4, <1>5, <1>9, <2>1 DEF LeftInv
<1> QED BY <1>1, <1>3, <1>4, <1>5, <1>6, <1>7, <1>8, <1>10

LEMMA SendDataFacts ==
  ASSUME TypeOK, LeftInv, SendData
  PROVE  \E b \in Seq(Nat \ {NUL}) :
           /\ Len(b) \in 0..DataLen /\ Len(b) <= Len(left)
           /\ \A i \in 1..Len(b) : b[i] = left[i]
           /\ left' \in Seq(Nat \ {NUL}) /\ Len(left') = Len(left) - Len(b)
           /\ \A i \in 1..Len(left') : left'[i] = left[Len(b) + i]
           /\ underway /\ underway' = (Len(b) = DataLen) /\ (Len(b) < DataLen => left' = <<>>)
           /\ uploads' = uploads /\ uploads # <<>> /\ Sent' = Sent + Len(b) /\ Sent \in Nat
           /\ Starts(Thread("reply", Len(uploads), b))
           /\ Thread("reply", Len(uploads), b) \in ThreadType
<1>0. /\ left \in Seq(Nat \ {NUL}) /\ Len(left) \in Nat /\ DataLen \in Nat \ {0} /\ Len(uploads) \in Nat
      /\ underway /\ uploads # <<>> /\ uploads' = uploads
  BY Facts, UploadAssumption DEF TypeOK, SendData, LeftInv
<1> DEFINE len == IF Len(left) < DataLen THEN Len(left) ELSE DataLen
           b == SubSeq(left, 1, len)
<1>1. /\ Starts(Thread("reply", Len(uploads), b)) /\ left' = SubSeq(left, len + 1, Len(left))
      /\ underway' = ~(Len(left) < DataLen)
  BY DEF SendData, Starts
<1>2. len \in Nat /\ len <= DataLen /\ len <= Len(left) /\ (len < DataLen <=> Len(left) < DataLen)
      /\ (len < DataLen => len = Len(left))
  BY <1>0
<1> HIDE DEF len
<1>3. \A i \in 1..Len(left) : left[i] \in Nat \ {NUL}
  BY <1>0, ElementOfSeq
<1>4. /\ b \in Seq(Nat \ {NUL}) /\ Len(b) = len /\ \A i \in 1..len : b[i] = left[i]
  <2>1. \A i \in 1..len : left[i] \in Nat \ {NUL}
    BY <1>0, <1>2, <1>3
  <2>2. /\ b \in Seq(Nat \ {NUL}) /\ Len(b) = IF 1 <= len THEN len - 1 + 1 ELSE 0
        /\ \A i \in 1..(len - 1 + 1) : b[i] = left[1 + i - 1]
    BY <1>2, <2>1, SubSeqProperties
  <2> QED BY <1>2, <2>2
<1>5. /\ left' \in Seq(Nat \ {NUL}) /\ Len(left') = Len(left) - len
      /\ \A i \in 1..(Len(left) - len) : left'[i] = left[len + i]
  <2>1. \A i \in (len + 1)..Len(left) : left[i] \in Nat \ {NUL}
    BY <1>0, <1>2, <1>3
  <2>2. /\ left' \in Seq(Nat \ {NUL})
        /\ Len(left') = IF len + 1 <= Len(left) THEN Len(left) - (len + 1) + 1 ELSE 0
        /\ \A i \in 1..(Len(left) - (len + 1) + 1) : left'[i] = left[(len + 1) + i - 1]
    BY <1>0, <1>1, <1>2, <2>1, SubSeqProperties
  <2> QED BY <1>0, <1>2, <2>2
<1> HIDE DEF b
<1>6. len < DataLen => left' = <<>>
  <2>1. len < DataLen => Len(left') = 0
    BY <1>0, <1>2, <1>5
  <2> QED BY <1>5, <2>1, EmptySeq
<1>7. Sent' = Sent + len /\ Sent \in Nat
  <2>1. Current' = Current /\ Len(Current) \in Nat /\ Len(left) <= Len(Current)
    BY <1>0, Facts DEF Current, LeftInv
  <2> QED BY <1>0, <1>2, <1>5, <2>1 DEF Sent
<1>8. Thread("reply", Len(uploads), b) \in ThreadType
  BY <1>0, <1>4 DEF Thread, ThreadType, PCs
<1> b \in Seq(Nat \ {NUL})
  BY <1>4
<1> WITNESS b \in Seq(Nat \ {NUL})
<1> QED BY <1>0, <1>1, <1>2, <1>4, <1>5, <1>6, <1>7, <1>8
-----------------------------------------------------------------------------
(* What a thread does *)

(* A step of thread n to the state t, which acks and writes at most once.   *)
Pays(n, t) ==
  /\ Becomes(n, t) /\ UNCHANGED <<server, overrun, calm>>
  /\ Len(t.bytes) <= DataLen /\ t.of <= Len(uploads)
  /\ pt_FileData' \in Nat
  /\ t.pc # "reply" /\ acks' = acks - One(procs[n], ToReply)
  /\ written' \in Seq(Written)
  /\ Len(written') + One(t, ToWrite) <= Len(written) + One(procs[n], ToWrite)
  /\ g_filename' \in 0..Len(uploads) /\ file_data' \in [0..(Size - 1) -> Nat]

LEMMA Progress ==
  ASSUME TypeOK, LeftInv, ThreadInv,
         NEW n \in Threads, NEW t \in ThreadType, Pays(n, t)
  PROVE  TypeOK' /\ LeftInv' /\ ThreadInv'
<1>1. /\ procs' \in Seq(ThreadType) /\ Threads' = Threads
      /\ procs'[n] = t /\ \A o \in Threads : o # n => procs'[o] = procs[o]
  BY ThreadBecomes DEF Pays
<1>2. UNCHANGED <<uploads, underway, left, overrun, calm>> /\ LeftInv'
  BY DEF Pays, server, Sent, Current, LeftInv
<1>3. /\ procs[n] \in ThreadType /\ Len(uploads) \in Nat /\ Len(procs[n].bytes) <= DataLen
  BY Facts DEF ThreadInv
<1>4. /\ Cardinality(At(ToReply)') = Cardinality(At(ToReply)) - One(procs[n], ToReply) + One(t, ToReply)
      /\ Cardinality(At(ToWrite)') = Cardinality(At(ToWrite)) - One(procs[n], ToWrite) + One(t, ToWrite)
      /\ Cardinality(At(ToReply)') \in Nat /\ Cardinality(At(ToWrite)') \in Nat
  BY AtBecomes DEF Pays
<1>5. Cardinality(At(ToReply)) \in Nat /\ Cardinality(At(ToWrite)) \in Nat
  BY AtFinite
<1>8. /\ One(procs[n], ToReply) \in Nat /\ One(t, ToReply) \in Nat
      /\ One(procs[n], ToWrite) \in Nat /\ One(t, ToWrite) \in Nat
  BY DEF One
<1>12. acks' = Cardinality(At(ToReply)') /\ acks' \in {0, 1}
  <2>1. acks = Cardinality(At(ToReply)) /\ acks \in {0, 1}
    BY DEF ThreadInv, TypeOK
  <2>2. One(t, ToReply) = 0
    BY DEF Pays, One, ToReply
  <2>3. acks' = acks - One(procs[n], ToReply)
    BY DEF Pays
  <2> QED BY <1>4, <1>5, <1>8, <2>1, <2>2, <2>3
<1>13. /\ Len(written') \in Nat /\ Len(written) \in Nat
       /\ Len(written') + Cardinality(At(ToWrite)') + (IF underway' THEN 1 ELSE 0) <= Len(uploads')
  <2>1. Len(written') \in Nat /\ Len(written) \in Nat
    BY LenProperties DEF ThreadInv, Pays
  <2>2. Len(written) + Cardinality(At(ToWrite)) + (IF underway THEN 1 ELSE 0) <= Len(uploads)
    BY DEF ThreadInv
  <2>3. Len(written') + Cardinality(At(ToWrite)') <= Len(written) + Cardinality(At(ToWrite))
    <3>1. Len(written') + One(t, ToWrite) <= Len(written) + One(procs[n], ToWrite)
      BY DEF Pays
    <3>2. Cardinality(At(ToWrite)')
            = Cardinality(At(ToWrite)) - One(procs[n], ToWrite) + One(t, ToWrite)
      BY <1>4
    <3>3. /\ Cardinality(At(ToWrite)) \in Nat
          /\ One(procs[n], ToWrite) \in Nat /\ One(t, ToWrite) \in Nat
      BY <1>5, <1>8
    <3> QED BY <2>1, <3>1, <3>2, <3>3
  <2> QED BY <1>2, <1>3, <1>4, <1>5, <2>1, <2>2, <2>3
<1>14. ThreadInv'
  BY <1>1, <1>2, <1>12, <1>13 DEF ThreadInv, Pays
<1>16. TypeOK'
  <2>4. Len(written') <= Len(uploads')
    BY <1>2, <1>3, <1>4, <1>13
  <2> QED BY <1>1, <1>2, <1>12, <2>4 DEF TypeOK, Pays
<1> QED BY <1>2, <1>14, <1>16

(* What is known of a thread whose step it is.                              *)
LEMMA Paying ==
  ASSUME TypeOK, LeftInv, ThreadInv, NEW n \in Threads
  PROVE  /\ procs[n] \in ThreadType /\ procs[n].bytes \in Seq(Nat \ {NUL})
         /\ procs[n].of \in Nat /\ procs[n].base \in Nat
         /\ Len(procs[n].bytes) \in Nat /\ Len(procs[n].bytes) <= DataLen
         /\ procs[n].of <= Len(uploads)
         /\ Idle \in ThreadType /\ Len(Idle.bytes) = 0 /\ Idle.of = 0 /\ Idle.pc = "idle"
         /\ \A pc \in PCs : /\ [procs[n] EXCEPT !.pc = pc] \in ThreadType
                            /\ [procs[n] EXCEPT !.pc = pc].pc = pc
                            /\ [procs[n] EXCEPT !.pc = pc].bytes = procs[n].bytes
                            /\ [procs[n] EXCEPT !.pc = pc].of = procs[n].of
         /\ written \in Seq(Written) /\ Len(written) \in Nat
         /\ Len(uploads) \in Nat /\ DataLen \in Nat \ {0}
<1>1. procs[n] \in ThreadType /\ Len(uploads) \in Nat /\ DataLen \in Nat \ {0}
  BY Facts, UploadAssumption
<1>2. Idle \in ThreadType /\ Len(Idle.bytes) = 0 /\ Idle.of = 0 /\ Idle.pc = "idle"
  <2>1. <<>> \in Seq(Nat \ {NUL}) /\ Len(<<>>) = 0
    BY EmptySeq
  <2> QED BY <2>1 DEF Idle, Thread, ThreadType, PCs
<1>3. ASSUME NEW pc \in PCs
      PROVE  /\ [procs[n] EXCEPT !.pc = pc] \in ThreadType
             /\ [procs[n] EXCEPT !.pc = pc].pc = pc
             /\ [procs[n] EXCEPT !.pc = pc].bytes = procs[n].bytes
             /\ [procs[n] EXCEPT !.pc = pc].of = procs[n].of
  BY <1>1 DEF ThreadType
<1>4. Len(procs[n].bytes) <= DataLen /\ procs[n].of <= Len(uploads)
  BY DEF ThreadInv
<1>5. procs[n].bytes \in Seq(Nat \ {NUL}) /\ procs[n].of \in Nat /\ procs[n].base \in Nat
  BY <1>1 DEF ThreadType
<1>6. Len(procs[n].bytes) \in Nat
  BY <1>5, LenProperties
<1>7. written \in Seq(Written) /\ Len(written) \in Nat
  BY LenProperties DEF ThreadInv
<1> QED BY <1>1, <1>2, <1>3, <1>4, <1>5, <1>6, <1>7

LEMMA Ones ==
  ASSUME NEW t \in ThreadType
  PROVE  /\ One(t, ToReply) = IF t.pc = "reply" THEN 1 ELSE 0
         /\ One(t, ToEnd) = IF \/ t.pc = "terminate"
                               \/ t.pc \in {"reply", "copy", "advance"} /\ Len(t.bytes) < DataLen
                            THEN 1 ELSE 0
         /\ One(t, ToWrite) = IF t.pc = "write" THEN 1 ELSE One(t, ToEnd)
BY DEF One, ToReply, ToEnd, ToWrite

LEMMA HandleStep ==
  ASSUME TypeOK, LeftInv, ThreadInv, NEW n \in Threads, Handle(n)
  PROVE  TypeOK' /\ LeftInv' /\ ThreadInv'
<1> DEFINE s == procs[n]
           To(pc) == [s EXCEPT !.pc = pc]
<1>0. /\ s \in ThreadType /\ s.bytes \in Seq(Nat \ {NUL}) /\ s.of \in Nat /\ s.base \in Nat
      /\ Len(s.bytes) \in Nat /\ Len(s.bytes) <= DataLen /\ s.of <= Len(uploads)
      /\ Idle \in ThreadType /\ Len(Idle.bytes) = 0 /\ Idle.of = 0 /\ Idle.pc = "idle"
      /\ \A pc \in PCs : /\ To(pc) \in ThreadType /\ To(pc).pc = pc /\ To(pc).bytes = s.bytes
                         /\ To(pc).of = s.of
      /\ written \in Seq(Written) /\ Len(written) \in Nat
      /\ Len(uploads) \in Nat /\ DataLen \in Nat \ {0}
  BY Paying
<1>1. /\ pt_FileData \in Nat
      /\ g_filename \in 0..Len(uploads) /\ file_data \in [0..(Size - 1) -> Nat]
  BY DEF TypeOK
<1>2. /\ One(s, ToReply) = IF s.pc = "reply" THEN 1 ELSE 0
      /\ One(s, ToEnd) = IF \/ s.pc = "terminate"
                            \/ s.pc \in {"reply", "copy", "advance"} /\ Len(s.bytes) < DataLen
                         THEN 1 ELSE 0
      /\ One(s, ToWrite) = IF s.pc = "write" THEN 1 ELSE One(s, ToEnd)
  BY <1>0, Ones
<1>3. One(Idle, ToReply) = 0 /\ One(Idle, ToEnd) = 0 /\ One(Idle, ToWrite) = 0
  BY <1>0, Ones
<1>4. CASE SetName(n)
  <2>1. Becomes(n, Idle) /\ s.pc = "name" /\ g_filename' = s.of
        /\ UNCHANGED <<server, acks, file_data, pt_FileData, written, overrun, calm>>
    BY <1>4 DEF SetName, Goto, Becomes
  <2>2. One(s, ToEnd) = 0 /\ One(s, ToReply) = 0 /\ One(s, ToWrite) = 0
    BY <1>2, <2>1
  <2>4. acks \in Int /\ acks' = acks - 0
    BY <2>1 DEF TypeOK
  <2>5. Pays(n, Idle)
    BY <1>0, <1>1, <1>3, <2>1, <2>2, <2>4 DEF Pays
  <2> QED BY <1>0, <2>5, Progress
<1>5. CASE Reply(n)
  <2> DEFINE t == To("copy")
  <2>1. Becomes(n, t) /\ s.pc = "reply" /\ acks' = acks - 1
        /\ UNCHANGED <<server, memory, written, overrun, calm>>
    BY <1>5 DEF Reply, Goto, Becomes
  <2>2. t \in ThreadType /\ t.pc = "copy" /\ t.bytes = s.bytes /\ t.of = s.of
    BY <1>0 DEF PCs
  <2> HIDE DEF t
  <2>3. /\ One(s, ToEnd) = One(t, ToEnd) /\ One(s, ToReply) = 1
        /\ One(s, ToWrite) = One(t, ToWrite)
        /\ One(t, ToEnd) \in Int /\ One(t, ToWrite) \in Int
    BY <1>0, <1>2, <2>1, <2>2, Ones
  <2>5. Pays(n, t)
    BY <1>0, <1>1, <2>1, <2>2, <2>3 DEF Pays, memory
  <2> QED BY <2>2, <2>5, Progress
<1>6. CASE Copy(n)
  <2> DEFINE t == [s EXCEPT !.pc = "advance", !.base = pt_FileData]
  <2>1. Becomes(n, t) /\ s.pc = "copy"
        /\ UNCHANGED <<server, acks, g_filename, pt_FileData, written, overrun, calm>>
    BY <1>6 DEF Copy, Becomes
  <2>2. t \in ThreadType /\ t.pc = "advance" /\ t.bytes = s.bytes /\ t.of = s.of /\ t.base = pt_FileData
    BY <1>0, <1>1 DEF PCs, ThreadType
  <2> HIDE DEF t
  <2>3. /\ One(s, ToEnd) = One(t, ToEnd) /\ One(s, ToReply) = 0
        /\ One(s, ToWrite) = One(t, ToWrite)
        /\ One(t, ToEnd) \in Int /\ One(t, ToWrite) \in Int
    BY <1>0, <1>2, <2>1, <2>2, Ones
  <2>5. file_data' \in [0..(Size - 1) -> Nat]
    <3>1. \A j \in 1..Len(s.bytes) : s.bytes[j] \in Nat
      BY <1>0, ElementOfSeq
    <3>2. \A i \in 0..(Size - 1) : i \in pt_FileData..(pt_FileData + Len(s.bytes) - 1)
            => i - pt_FileData + 1 \in 1..Len(s.bytes)
      <4>1. Size \in Nat /\ Len(s.bytes) \in Nat /\ pt_FileData \in Nat
        BY <1>0, <1>1, UploadAssumption
      <4> HIDE DEF s
      <4> QED BY <4>1
    <3>3. file_data' = [i \in 0..(Size - 1) |->
            IF i \in pt_FileData..(pt_FileData + Len(s.bytes) - 1)
            THEN s.bytes[i - pt_FileData + 1] ELSE file_data[i]]
      BY <1>1, <1>6 DEF Copy
    <3> QED BY <1>1, <3>1, <3>2, <3>3
  <2>6. acks \in Int /\ acks' = acks - 0
    BY <2>1 DEF TypeOK
  <2>7. Pays(n, t)
    BY <1>0, <1>1, <2>1, <2>2, <2>3, <2>5, <2>6 DEF Pays
  <2> QED BY <2>2, <2>7, Progress
<1>7. CASE Advance(n)
  <2> DEFINE t == IF Len(s.bytes) < DataLen THEN To("terminate") ELSE Idle
  <2>1. /\ Becomes(n, t) /\ s.pc = "advance"
        /\ \E from \in {s.base, pt_FileData} : pt_FileData' = from + Len(s.bytes)
        /\ UNCHANGED <<server, acks, g_filename, file_data, written, overrun, calm>>
    BY <1>7 DEF Advance, Goto, Becomes
  <2>2. /\ t \in ThreadType /\ t.pc = (IF Len(s.bytes) < DataLen THEN "terminate" ELSE "idle")
        /\ Len(t.bytes) <= DataLen /\ t.of <= Len(uploads)
    BY <1>0 DEF PCs
  <2> HIDE DEF t
  <2>3. /\ One(s, ToEnd) = One(t, ToEnd)
        /\ One(s, ToReply) = 0 /\ One(s, ToWrite) = One(t, ToWrite)
        /\ One(t, ToEnd) \in Int /\ One(t, ToWrite) \in Int
    <3>2. One(s, ToEnd) = (IF Len(s.bytes) < DataLen THEN 1 ELSE 0) /\ One(s, ToReply) = 0
      BY <1>2, <2>1
    <3>3. /\ t.pc = "terminate" => One(t, ToEnd) = 1 /\ One(t, ToWrite) = 1
          /\ t.pc = "idle" => One(t, ToEnd) = 0 /\ One(t, ToWrite) = 0
      BY <2>2 DEF One, ToEnd, ToWrite
    <3>4. One(t, ToEnd) = (IF Len(s.bytes) < DataLen THEN 1 ELSE 0) /\ One(t, ToWrite) = One(t, ToEnd)
      BY <2>2, <3>3
    <3>5. One(s, ToWrite) = One(s, ToEnd)
      BY <1>2, <2>1
    <3> QED BY <3>2, <3>4, <3>5
  <2>5. pt_FileData' \in Nat
    <3>1. PICK from \in {s.base, pt_FileData} : pt_FileData' = from + Len(s.bytes)
      BY <2>1
    <3>2. from \in Nat /\ Len(s.bytes) \in Nat
      BY <1>0, <1>1
    <3> HIDE DEF s
    <3> QED BY <3>1, <3>2
  <2>6. acks \in Int /\ acks' = acks - 0
    BY <2>1 DEF TypeOK
  <2>7. /\ Becomes(n, t) /\ UNCHANGED <<server, overrun, calm, written>>
        /\ g_filename' \in 0..Len(uploads) /\ file_data' \in [0..(Size - 1) -> Nat]
        /\ t.pc # "advance" /\ t.pc # "reply"
    BY <1>1, <2>1, <2>2
  <2>8. Len(written') + One(t, ToWrite) <= Len(written) + One(s, ToWrite)
    BY <1>0, <2>3, <2>7
  <2>9. Pays(n, t)
    BY <1>0, <2>2, <2>3, <2>5, <2>6, <2>7, <2>8 DEF Pays
  <2> QED BY <2>2, <2>9, Progress
<1>8. CASE Terminate(n)
  <2> DEFINE t == To("write")
  <2>1. /\ Becomes(n, t) /\ s.pc = "terminate" /\ pt_FileData' = pt_FileData + 1
        /\ file_data' = [file_data EXCEPT ![pt_FileData + 1] = NUL]
        /\ UNCHANGED <<server, acks, g_filename, written, overrun, calm>>
    BY <1>8 DEF Terminate, Goto, Becomes
  <2>2. t \in ThreadType /\ t.pc = "write" /\ t.bytes = s.bytes /\ t.of = s.of
    BY <1>0 DEF PCs
  <2> HIDE DEF t
  <2>3. /\ One(s, ToEnd) = 1 /\ One(t, ToEnd) = 0
        /\ One(s, ToReply) = 0 /\ One(s, ToWrite) = 1 /\ One(t, ToWrite) = 1
    BY <1>0, <1>2, <2>1, <2>2, Ones
  <2>5. pt_FileData' \in Nat
    BY <1>1, <2>1
  <2>6. acks \in Int /\ acks' = acks - 0
    BY <2>1 DEF TypeOK
  <2>7. file_data' \in [0..(Size - 1) -> Nat]
    BY <1>1, <2>1 DEF NUL
  <2>8. Pays(n, t)
    BY <1>0, <1>1, <2>1, <2>2, <2>3, <2>5, <2>6, <2>7 DEF Pays
  <2> QED BY <2>2, <2>8, Progress
<1>9. CASE Write(n)
  <2>1. s.pc = "write" /\ UNCHANGED <<server, acks, memory, overrun, calm>>
    BY <1>9 DEF Write
  <2>2. PICK t \in {To("reset"), Idle} :
          /\ Becomes(n, t)
          /\ \/ written' = written
             \/ written' = Append(written, [name |-> g_filename, bytes |-> Text(file_data)])
    <3>1. CASE Writable
      BY <1>9, <3>1 DEF Write, Goto, Becomes
    <3>2. CASE ~Writable
      BY <1>9, <3>2 DEF Write, Goto, Becomes
    <3> QED BY <3>1, <3>2
  <2>3. /\ t \in ThreadType /\ t.pc \in {"reset", "idle"}
        /\ Len(t.bytes) <= DataLen /\ t.of <= Len(uploads)
    <3>1. "reset" \in PCs
      BY DEF PCs
    <3>2. /\ To("reset") \in ThreadType /\ To("reset").pc = "reset"
          /\ Len(To("reset").bytes) <= DataLen /\ To("reset").of <= Len(uploads)
      BY <1>0, <3>1
    <3>3. Idle.of <= Len(uploads)
      BY <1>0
    <3> HIDE DEF To
    <3> QED BY <1>0, <2>2, <3>2, <3>3
  <2>4. /\ One(s, ToEnd) = 0 /\ One(t, ToEnd) = 0
        /\ One(s, ToReply) = 0 /\ One(s, ToWrite) = 1 /\ One(t, ToWrite) = 0
    BY <1>0, <1>2, <2>1, <2>3, Ones
  <2>6. acks \in Int /\ acks' = acks - 0
    BY <2>1 DEF TypeOK
  <2>7. written' \in Seq(Written) /\ Len(written') <= Len(written) + 1
    <3>1. [name |-> g_filename, bytes |-> Text(file_data)] \in Written
      BY <1>0, <1>1 DEF Written
    <3>2. CASE written' = written
      BY <1>0, <3>2
    <3>3. CASE written' = Append(written, [name |-> g_filename, bytes |-> Text(file_data)])
      <4>1. written \in Seq(Written) /\ Len(written) \in Nat
        BY <1>0
      <4> QED BY <3>1, <3>3, <4>1, AppendProperties
    <3> QED BY <2>2, <3>2, <3>3
  <2>8. Len(written') \in Nat
    BY <2>7, LenProperties
  <2>9. Pays(n, t)
    BY <1>0, <1>1, <2>1, <2>2, <2>3, <2>4, <2>6, <2>7, <2>8 DEF Pays, memory
  <2> QED BY <2>3, <2>9, Progress
<1>10. CASE Reset(n)
  <2>1. Becomes(n, Idle) /\ s.pc = "reset" /\ pt_FileData' = 0
        /\ UNCHANGED <<server, acks, g_filename, file_data, written, overrun, calm>>
    BY <1>10 DEF Reset, Goto, Becomes
  <2>2. One(s, ToEnd) = 0 /\ One(s, ToReply) = 0 /\ One(s, ToWrite) = 0
    BY <1>2, <2>1
  <2>4. acks \in Int /\ acks' = acks - 0
    BY <2>1 DEF TypeOK
  <2>5. Pays(n, Idle)
    BY <1>0, <1>1, <1>3, <2>1, <2>2, <2>4 DEF Pays
  <2> QED BY <1>0, <2>5, Progress
<1>11. CASE Overrun(n)
  BY <1>11 DEF Overrun, server, memory, TypeOK, LeftInv, ThreadInv, Sent, Current, Threads, At
<1> QED BY <1>4, <1>5, <1>6, <1>7, <1>8, <1>9, <1>10, <1>11 DEF Handle

-----------------------------------------------------------------------------
(* A frame comes *)

LEMMA SendNameStep ==
  ASSUME TypeOK, LeftInv, ThreadInv, SendName
  PROVE  TypeOK' /\ LeftInv' /\ ThreadInv'
<1> DEFINE t == Thread("name", Len(uploads) + 1, <<>>)
<1>1. /\ uploads' \in Seq([bytes : Files, good : BOOLEAN])
      /\ Len(uploads') = Len(uploads) + 1 /\ Len(uploads') <= MaxUploads
      /\ ~underway /\ underway' = TRUE /\ left' \in Seq(Nat \ {NUL})
      /\ Starts(t) /\ t \in ThreadType
      /\ LeftInv'
  BY SendNameFacts
<1>2. /\ UNCHANGED <<acks, g_filename, file_data, pt_FileData, written, overrun>>
      /\ calm' \in BOOLEAN
  BY DEF SendName, memory, TypeOK
<1>3. t.pc = "name" /\ t.of = Len(uploads) + 1 /\ Len(t.bytes) = 0
  BY EmptySeq DEF Thread
<1> HIDE DEF t
<1>4. /\ Len(uploads) \in Nat /\ DataLen \in Nat
      /\ Threads = 1..Len(procs)
  BY Facts, UploadAssumption
<1>5. /\ procs' \in Seq(ThreadType) /\ Threads' = Threads \cup {Len(procs) + 1}
      /\ procs'[Len(procs) + 1] = t /\ \A o \in Threads : procs'[o] = procs[o]
  BY <1>1, ThreadStarts
<1>6. One(t, ToReply) = 0 /\ One(t, ToWrite) = 0
  BY <1>1, <1>3, Ones
<1>7. Cardinality(At(ToReply)) \in Nat /\ Cardinality(At(ToWrite)) \in Nat
  BY AtFinite
<1>8. /\ Cardinality(At(ToReply)') = Cardinality(At(ToReply)) + One(t, ToReply)
      /\ Cardinality(At(ToWrite)') = Cardinality(At(ToWrite)) + One(t, ToWrite)
  BY <1>1, AtStarts
<1>9. /\ Cardinality(At(ToReply)') = Cardinality(At(ToReply))
      /\ Cardinality(At(ToWrite)') = Cardinality(At(ToWrite))
  BY <1>6, <1>7, <1>8
<1>12. ThreadInv'
  <2>1. ASSUME NEW o \in Threads' PROVE procs'[o].of <= Len(uploads') /\ Len(procs'[o].bytes) <= DataLen
    <3>1. CASE o = Len(procs) + 1
      BY <1>1, <1>3, <1>4, <1>5, <3>1
    <3>2. CASE o \in Threads
      <4>1. procs[o] \in ThreadType
        BY <3>2, Facts
      <4>2. procs[o].of \in Nat /\ procs[o].of <= Len(uploads) /\ Len(procs[o].bytes) <= DataLen
        BY <3>2, <4>1 DEF ThreadInv, ThreadType
      <4> QED BY <1>1, <1>4, <1>5, <3>2, <4>2
    <3> QED BY <1>5, <3>1, <3>2
  <2>2. Len(written') + Cardinality(At(ToWrite)') + 1 <= Len(uploads')
    <3>1. Len(written) \in Nat
      BY LenProperties DEF ThreadInv
    <3>2. Len(written) + Cardinality(At(ToWrite)) + 0 <= Len(uploads)
      BY <1>1 DEF ThreadInv
    <3> QED BY <1>1, <1>2, <1>4, <1>7, <1>9, <3>1, <3>2
  <2>3. acks' = Cardinality(At(ToReply)') /\ written' \in Seq(Written)
    BY <1>2, <1>9 DEF ThreadInv
  <2> QED BY <1>1, <2>1, <2>2, <2>3 DEF ThreadInv
<1>14. TypeOK'
  <2>1. Len(written) <= Len(uploads') /\ g_filename \in 0..Len(uploads')
    BY <1>1, <1>4, LenProperties DEF TypeOK, ThreadInv
  <2> QED BY <1>1, <1>2, <1>5, <2>1 DEF TypeOK
<1> QED BY <1>1, <1>12, <1>14

LEMMA SendDataStep ==
  ASSUME TypeOK, LeftInv, ThreadInv, SendData
  PROVE  TypeOK' /\ LeftInv' /\ ThreadInv'
<1>1. PICK b \in Seq(Nat \ {NUL}) :
           /\ Len(b) \in 0..DataLen /\ Len(b) <= Len(left)
           /\ \A i \in 1..Len(b) : b[i] = left[i]
           /\ left' \in Seq(Nat \ {NUL}) /\ Len(left') = Len(left) - Len(b)
           /\ \A i \in 1..Len(left') : left'[i] = left[Len(b) + i]
           /\ underway /\ underway' = (Len(b) = DataLen) /\ (Len(b) < DataLen => left' = <<>>)
           /\ uploads' = uploads /\ uploads # <<>> /\ Sent' = Sent + Len(b) /\ Sent \in Nat
           /\ Starts(Thread("reply", Len(uploads), b))
           /\ Thread("reply", Len(uploads), b) \in ThreadType
  BY SendDataFacts
<1> DEFINE t == Thread("reply", Len(uploads), b)
           short == IF Len(b) < DataLen THEN 1 ELSE 0
<1>2. /\ UNCHANGED <<g_filename, file_data, pt_FileData, written, overrun>>
      /\ calm' \in BOOLEAN /\ acks = 0 /\ acks' = 1
  BY DEF SendData, MaySend, memory, TypeOK
<1>3. t.pc = "reply" /\ t.of = Len(uploads) /\ t.bytes = b /\ Starts(t) /\ t \in ThreadType
  BY <1>1 DEF Thread
<1> HIDE DEF t
<1>4. /\ Len(uploads) \in Nat /\ DataLen \in Nat \ {0} /\ Len(b) \in Nat
      /\ Threads = 1..Len(procs) /\ Len(left) \in Nat /\ Len(b) <= DataLen
  BY <1>1, Facts, UploadAssumption
<1>5. /\ procs' \in Seq(ThreadType) /\ Threads' = Threads \cup {Len(procs) + 1}
      /\ procs'[Len(procs) + 1] = t /\ \A o \in Threads : procs'[o] = procs[o]
  BY <1>3, ThreadStarts
<1>6. One(t, ToReply) = 1 /\ One(t, ToWrite) = short
  BY <1>3, Ones
<1>7. Cardinality(At(ToReply)) \in Nat /\ Cardinality(At(ToWrite)) \in Nat
  BY AtFinite
<1> DEFINE more == IF underway' THEN 1 ELSE 0
<1>8. short \in Nat /\ more \in Nat /\ short + more = 1 /\ (~underway' => left' = <<>>)
  <2>1. CASE Len(b) = DataLen
    <3>1. underway'
      BY <1>1, <2>1
    <3> QED BY <1>4, <2>1, <3>1
  <2>2. CASE Len(b) # DataLen
    <3>1. ~underway'
      BY <1>1, <2>2
    <3>2. Len(b) < DataLen
      BY <1>4, <2>2
    <3> QED BY <1>1, <3>1, <3>2
  <2> QED BY <2>1, <2>2
<1> HIDE DEF short, more
<1>10. /\ Cardinality(At(ToReply)') = Cardinality(At(ToReply)) + 1
      /\ Cardinality(At(ToWrite)') = Cardinality(At(ToWrite)) + short
  BY <1>3, <1>6, AtStarts
<1>13. LeftInv'
  <2>1. /\ Current' = Current /\ Len(Current) \in Nat /\ Len(left) <= Len(Current)
        /\ Sent = Len(Current) - Len(left)
        /\ \A i \in 1..Len(left) : left[i] = Current[Sent + i]
    BY <1>1, Facts DEF Current, LeftInv, Sent
  <2>2. ASSUME NEW i \in 1..Len(left') PROVE left'[i] = Current'[Sent' + i]
    <3>1. left'[i] = left[Len(b) + i] /\ Len(b) + i \in 1..Len(left)
      BY <1>1, <1>4
    <3>2. left[Len(b) + i] = Current[Sent + (Len(b) + i)]
      BY <2>1, <3>1
    <3>3. Sent + (Len(b) + i) = Sent' + i
      BY <1>1, <1>4
    <3> QED BY <2>1, <3>1, <3>2, <3>3
  <2>3. Len(left') <= Len(Current')
    BY <1>1, <1>4, <2>1
  <2>4. ~underway' => left' = <<>>
    BY <1>1, <1>8
  <2> QED BY <1>1, <2>2, <2>3, <2>4 DEF LeftInv
<1>14. ThreadInv'
  <2>1. ASSUME NEW o \in Threads' PROVE procs'[o].of <= Len(uploads') /\ Len(procs'[o].bytes) <= DataLen
    <3>1. CASE o = Len(procs) + 1
      <4>1. procs'[o] = t /\ uploads' = uploads
        BY <1>1, <1>5, <3>1
      <4> QED BY <1>3, <1>4, <4>1
    <3>2. CASE o \in Threads
      BY <1>1, <1>5, <3>2 DEF ThreadInv
    <3> QED BY <1>5, <3>1, <3>2
  <2>2. Len(written') + Cardinality(At(ToWrite)') + more <= Len(uploads')
    <3>1. Len(written) \in Nat
      BY LenProperties DEF ThreadInv
    <3>2. Len(written) + Cardinality(At(ToWrite)) + 1 <= Len(uploads)
      BY <1>1 DEF ThreadInv
    <3>4. Len(written') = Len(written) /\ Len(uploads') = Len(uploads)
      BY <1>1, <1>2
    <3>3. /\ Cardinality(At(ToWrite)') = Cardinality(At(ToWrite)) + short
          /\ Cardinality(At(ToWrite)) \in Nat /\ short \in Nat /\ more \in Nat /\ short + more = 1
          /\ Len(uploads) \in Nat
      BY <1>4, <1>7, <1>10, <1>8
    <3> QED BY <3>1, <3>2, <3>3, <3>4
  <2>3. acks' = Cardinality(At(ToReply)') /\ written' \in Seq(Written)
    <3>1. acks = Cardinality(At(ToReply)) /\ written \in Seq(Written)
      BY DEF ThreadInv
    <3> QED BY <1>2, <1>7, <1>10, <3>1
  <2> QED BY <2>1, <2>2, <2>3 DEF ThreadInv, more
<1>16. TypeOK'
  <2>1. Len(uploads') <= MaxUploads /\ underway' \in BOOLEAN
        /\ Len(written) <= Len(uploads') /\ g_filename \in 0..Len(uploads')
    BY <1>1 DEF TypeOK
  <2> QED BY <1>1, <1>2, <1>5, <2>1 DEF TypeOK
<1> QED BY <1>13, <1>14, <1>16

LEMMA InitTyped ==
  ASSUME Init
  PROVE  TypeOK /\ LeftInv /\ ThreadInv
<1>1. /\ uploads = <<>> /\ underway = FALSE /\ left = <<>> /\ procs = <<>> /\ acks = 0
      /\ g_filename = 0 /\ file_data = [i \in 0..(Size - 1) |-> NUL] /\ pt_FileData = 0
      /\ written = <<>> /\ overrun = FALSE /\ calm = TRUE
  BY DEF Init
<1>2. /\ Len(uploads) = 0 /\ Len(left) = 0 /\ Len(procs) = 0 /\ Len(written) = 0
      /\ uploads \in Seq([bytes : Files, good : BOOLEAN]) /\ left \in Seq(Nat \ {NUL})
      /\ procs \in Seq(ThreadType) /\ written \in Seq(Written)
  BY <1>1, EmptySeq
<1>3. Threads = {}
  BY <1>2, LenProperties DEF Threads
<1>4. TypeOK
  <2>1. Size \in Nat \ {0} /\ MaxUploads \in Nat \ {0}
    BY UploadAssumption
  <2>2. file_data \in [0..(Size - 1) -> Nat] /\ pt_FileData \in Nat
    BY <1>1, <2>1 DEF NUL
  <2>3. /\ Len(uploads) <= MaxUploads /\ acks \in {0, 1} /\ g_filename \in 0..Len(uploads)
        /\ Len(written) <= Len(uploads)
    <3>1. acks = 0 /\ g_filename = 0 /\ Len(uploads) = 0 /\ Len(written) = 0
      BY <1>1, <1>2
    <3> QED BY <2>1, <3>1
  <2>4. underway \in BOOLEAN /\ overrun \in BOOLEAN /\ calm \in BOOLEAN
    BY <1>1
  <2> QED BY <1>2, <2>2, <2>3, <2>4 DEF TypeOK
<1>5. At(ToReply) = {} /\ At(ToWrite) = {}
  BY <1>3 DEF At
<1>6. Cardinality({}) = 0
  BY FS_EmptySet
<1>7. ThreadInv
  BY <1>1, <1>2, <1>3, <1>5, <1>6 DEF ThreadInv
<1>9. LeftInv
  BY <1>1 DEF LeftInv
<1> QED BY <1>4, <1>7, <1>9

LEMMA TypedStep ==
  ASSUME TypeOK, LeftInv, ThreadInv, [Next]_vars
  PROVE  TypeOK' /\ LeftInv' /\ ThreadInv'
<1>1. CASE SendName
  BY <1>1, SendNameStep
<1>2. CASE SendData
  BY <1>2, SendDataStep
<1>3. ASSUME NEW n \in Threads, Handle(n) PROVE TypeOK' /\ LeftInv' /\ ThreadInv'
  BY <1>3, HandleStep
<1>4. CASE UNCHANGED vars
  BY <1>4 DEF vars, server, memory, TypeOK, LeftInv, ThreadInv, Sent,
              Current, Threads, At
<1> QED BY <1>1, <1>2, <1>3, <1>4 DEF Next, Finished

(* The values of the variables, whatever is sent and however the threads    *)
(* that handle the frames interleave: no data frame is acked twice, and no  *)
(* more files are written than uploads have come (uart.c:862-885).          *)
THEOREM UploadTyped == Spec => []TypeOK
<1> DEFINE Inv == TypeOK /\ LeftInv /\ ThreadInv
<1>1. Init => Inv
  BY InitTyped
<1>2. Inv /\ [Next]_vars => Inv'
  BY TypedStep
<1> QED BY <1>1, <1>2, PTL DEF Spec

-----------------------------------------------------------------------------
(* A frame comes when the one before has been handled *)

(* The upload in front of one that has come is the same after more have.    *)
LEMMA KeptStays ==
  ASSUME TypeOK, Kept, written' = written, Done' = Done, Done \in Nat, Done <= Len(uploads),
         \A k \in 1..Len(uploads) : uploads'[k] = uploads[k]
  PROVE  Kept'
<1>1. Len(uploads) \in Nat
  BY Facts
<1>2. ASSUME NEW i \in DOMAIN written
      PROVE  /\ written[i].name \in 1..Done /\ uploads'[written[i].name].good
             /\ Keeps(written[i])'
  <2>1. /\ written[i].name \in 1..Done /\ written[i].name \in 1..Len(uploads)
        /\ uploads[written[i].name].good /\ Keeps(written[i])
    BY <1>1 DEF Kept
  <2>2. /\ uploads'[written[i].name] = uploads[written[i].name]
        /\ written[i].name > 1 => uploads'[written[i].name - 1] = uploads[written[i].name - 1]
    BY <1>1, <2>1
  <2>3. Keeps(written[i])'
    BY <2>1, <2>2 DEF Keeps, BehindRefused
  <2> QED BY <2>1, <2>2, <2>3
<1>3. \A k \in 1..Done : uploads'[k].good => \E i \in DOMAIN written : written[i].name = k
  BY <1>1 DEF Kept
<1> QED BY <1>2, <1>3 DEF Kept

LEMMA CalmSendName ==
  ASSUME TypeOK, LeftInv, CalmInv, SendName, calm'
  PROVE  Alone' /\ ~Quiet' /\ Kept' /\ Excused'
<1>0. Excused'
  BY DEF SendName, MaySend, Excused
<1>1. calm /\ Quiet
  BY DEF SendName
<1>2. Rest /\ Kept
  BY <1>1 DEF CalmInv
<1> DEFINE t == Thread("name", Len(uploads) + 1, <<>>)
<1>3. /\ Len(uploads') = Len(uploads) + 1 /\ \A k \in 1..Len(uploads) : uploads'[k] = uploads[k]
      /\ ~underway /\ underway' = TRUE /\ Sent' = 0 /\ Starts(t) /\ t \in ThreadType
  BY SendNameFacts
<1>4. t.pc = "name" /\ t.of = Len(uploads) + 1
  BY DEF Thread
<1> HIDE DEF t
<1>5. /\ Len(procs') = Len(procs) + 1 /\ Threads' = Threads \cup {Len(procs) + 1}
      /\ procs'[Len(procs) + 1] = t /\ \A o \in Threads : procs'[o] = procs[o]
  BY <1>3, ThreadStarts
<1>6. \A o \in Threads : procs[o].pc = "idle"
  BY <1>1 DEF Quiet, Busy
<1>7. Len(uploads) \in Nat /\ uploads' # <<>> /\ uploads # <<>> <=> Len(uploads) > 0
  BY <1>3, Facts, EmptySeq
<1>8. UNCHANGED <<g_filename, pt_FileData, written>>
  BY DEF SendName, memory
<1>9. ~BehindRefused(Len(uploads))' => pt_FileData' = 0
  <2>1. CASE uploads = <<>>
    BY <1>2, <1>8, <2>1 DEF Rest
  <2>2. CASE uploads # <<>>
    <3>1. ASSUME ~BehindRefused(Len(uploads))' PROVE uploads[Len(uploads)].good
      <4>1. Len(uploads) \in 1..Len(uploads) /\ Len(uploads') > 1 /\ Len(uploads') - 1 = Len(uploads)
        BY <1>3, <1>7, <2>2
      <4>2. uploads'[Len(uploads') - 1].good
        BY <3>1, <4>1 DEF BehindRefused
      <4> QED BY <1>3, <4>1, <4>2
    <3> QED BY <1>2, <1>3, <1>8, <2>2, <3>1 DEF Rest
  <2> QED BY <2>1, <2>2
<1>10. g_filename' # Len(uploads')
  BY <1>2, <1>3, <1>7, <1>8 DEF Rest
<1>11. ASSUME NEW o \in Threads', procs'[o].pc # "idle" PROVE o = Len(procs') /\ Stage(procs[o])'
  <2>1. o = Len(procs') /\ procs'[o] = t
    BY <1>5, <1>6, <1>11
  <2>2. Stage(procs[o])'
    BY <1>3, <1>4, <1>7, <1>9, <1>10, <2>1 DEF Stage
  <2> QED BY <2>1, <2>2
<1>12. ~Quiet'
  BY <1>4, <1>5 DEF Quiet, Busy
<1>13. Done = Len(uploads) /\ Done' = Len(uploads)
  <2>1. Done = Len(uploads)
    BY <1>3, <1>6 DEF Done, Writing
  <2>2. Done' = Len(uploads') - 1
    BY <1>3 DEF Done
  <2> QED BY <1>3, <1>7, <2>1, <2>2
<1>14. Kept'
  BY <1>2, <1>3, <1>7, <1>8, <1>13, KeptStays
<1> QED BY <1>0, <1>11, <1>12, <1>14 DEF Alone

LEMMA CalmSendData ==
  ASSUME TypeOK, LeftInv, CalmInv, SendData, calm'
  PROVE  Alone' /\ ~Quiet' /\ Kept' /\ Excused'
<1>0. Excused'
  BY DEF SendData, MaySend, Excused
<1>1. calm /\ Quiet
  BY DEF SendData
<1>2. Rest /\ Kept
  BY <1>1 DEF CalmInv
<1>3. PICK b \in Seq(Nat \ {NUL}) :
           /\ Len(b) \in 0..DataLen /\ Len(b) <= Len(left)
           /\ \A i \in 1..Len(b) : b[i] = left[i]
           /\ left' \in Seq(Nat \ {NUL}) /\ Len(left') = Len(left) - Len(b)
           /\ \A i \in 1..Len(left') : left'[i] = left[Len(b) + i]
           /\ underway /\ underway' = (Len(b) = DataLen) /\ (Len(b) < DataLen => left' = <<>>)
           /\ uploads' = uploads /\ uploads # <<>> /\ Sent' = Sent + Len(b) /\ Sent \in Nat
           /\ Starts(Thread("reply", Len(uploads), b))
           /\ Thread("reply", Len(uploads), b) \in ThreadType
  BY SendDataFacts
<1> DEFINE t == Thread("reply", Len(uploads), b)
<1>4. t.pc = "reply" /\ t.of = Len(uploads) /\ t.bytes = b /\ Starts(t) /\ t \in ThreadType
  BY <1>3 DEF Thread
<1> HIDE DEF t
<1>5. /\ Len(procs') = Len(procs) + 1 /\ Threads' = Threads \cup {Len(procs) + 1}
      /\ procs'[Len(procs) + 1] = t /\ \A o \in Threads : procs'[o] = procs[o]
  BY <1>4, ThreadStarts
<1>6. \A o \in Threads : procs[o].pc = "idle"
  BY <1>1 DEF Quiet, Busy
<1>7. /\ Len(uploads) \in Nat /\ Len(uploads) > 0 /\ Len(b) \in Nat /\ Sent \in Nat
      /\ Sent' = Sent + Len(b) /\ Current' = Current /\ uploads' = uploads /\ uploads # <<>>
  BY <1>3, Facts DEF Current
<1>8. UNCHANGED <<g_filename, pt_FileData, file_data, written>>
  BY DEF SendData, memory
<1>9. /\ g_filename = Len(uploads)
      /\ ~BehindRefused(Len(uploads)) => pt_FileData = Sent /\ Holds(Sent)
  BY <1>2, <1>3 DEF Rest
<1>10. Sent' - Len(b) = Sent /\ \A i \in 1..Len(b) : b[i] = Current[Sent + i]
  <2>1. \A i \in 1..Len(b) : i \in 1..Len(left)
    BY <1>3, <1>7, Facts
  <2>2. \A i \in 1..Len(left) : left[i] = Current[Sent + i]
    BY <1>7 DEF LeftInv
  <2> QED BY <1>3, <1>7, <2>1, <2>2
<1>11. ASSUME NEW o \in Threads', procs'[o].pc # "idle" PROVE o = Len(procs') /\ Stage(procs[o])'
  <2>1. o = Len(procs') /\ procs'[o] = t
    BY <1>5, <1>6, <1>11
  <2>2. ~BehindRefused(Len(uploads))' => 
           /\ pt_FileData' = Sent /\ Sent <= Size
           /\ \A i \in 1..Sent : file_data'[i - 1] = Current'[i]
    <3>1. BehindRefused(Len(uploads))' <=> BehindRefused(Len(uploads))
      BY <1>7 DEF BehindRefused
    <3> QED BY <1>7, <1>8, <1>9, <3>1 DEF Holds
  <2>3. Stage(procs[o])'
    <3>1. Len(uploads') = Len(uploads) /\ g_filename' = Len(uploads') /\ uploads' # <<>>
      BY <1>7, <1>8, <1>9
    <3>2. underway' <=> Len(b) = DataLen
      BY <1>3
    <3>3. /\ t.of = Len(uploads') /\ t.pc = "reply" /\ t.bytes = b /\ Sent' - Len(b) = Sent /\ Sent >= 0
          /\ \A i \in 1..Len(b) : b[i] = Current'[Sent + i]
      BY <1>4, <1>7, <1>10, <3>1
    <3>4. procs'[o] = t
      BY <2>1
    <3> QED BY <2>2, <3>1, <3>2, <3>3, <3>4 DEF Stage, Holds
  <2> QED BY <2>1, <2>3
<1>12. ~Quiet'
  BY <1>4, <1>5 DEF Quiet, Busy
<1>13. Done = Len(uploads) - 1 /\ Done' = Len(uploads) - 1
  <2>1. Done = Len(uploads) - 1
    BY <1>3 DEF Done
  <2>2. Done' = Len(uploads') - 1
    BY <1>4, <1>5 DEF Done, Writing
  <2> QED BY <1>7, <2>1, <2>2
<1>14. Kept'
  BY <1>2, <1>7, <1>8, <1>13, KeptStays
<1> QED BY <1>0, <1>11, <1>12, <1>14 DEF Alone

-----------------------------------------------------------------------------
(* The frame is handled *)

(* What fputs writes when the bytes of s are in the buffer, the byte behind *)
(* them is any, and the NUL is behind that one.                             *)
LEMMA TextIs ==
  ASSUME NEW m \in [0..(Size - 1) -> Nat], NEW s \in Seq(Nat \ {NUL}),
         Len(s) + 1 \in 0..(Size - 1), m[Len(s) + 1] = NUL,
         \A i \in 1..Len(s) : m[i - 1] = s[i]
  PROVE  Len(Text(m)) \in {Len(s), Len(s) + 1} /\ SubSeq(Text(m), 1, Len(s)) = s
<1> DEFINE First(i) == m[i] = NUL /\ \A j \in 0..(i - 1) : m[j] # NUL
<1>1. Len(s) \in Nat /\ Size \in Nat /\ DOMAIN m = 0..(Size - 1)
  BY LenProperties, UploadAssumption
<1>2. \A j \in 0..(Len(s) - 1) : m[j] # NUL
  <2> SUFFICES ASSUME NEW j \in 0..(Len(s) - 1) PROVE m[j] # NUL
    OBVIOUS
  <2>1. j + 1 \in 1..Len(s) /\ (j + 1) - 1 = j
    BY <1>1
  <2>2. s[j + 1] \in Nat \ {NUL}
    BY <2>1, ElementOfSeq
  <2> QED BY <2>1, <2>2
<1>3. \E i \in DOMAIN m : First(i)
  <2>1. CASE m[Len(s)] = NUL
    <3>1. Len(s) \in DOMAIN m /\ First(Len(s))
      BY <1>1, <1>2, <2>1
    <3> QED BY <3>1
  <2>2. CASE m[Len(s)] # NUL
    <3>1. \A j \in 0..((Len(s) + 1) - 1) : j = Len(s) \/ j \in 0..(Len(s) - 1)
      BY <1>1
    <3>2. Len(s) + 1 \in DOMAIN m /\ First(Len(s) + 1)
      BY <1>1, <1>2, <2>2, <3>1
    <3> QED BY <3>2
  <2> QED BY <2>1, <2>2
<1> DEFINE n == CHOOSE i \in DOMAIN m : First(i)
<1>4. n \in DOMAIN m /\ First(n)
  BY <1>3
<1>5. Text(m) = [i \in 1..n |-> m[i - 1]]
  BY DEF Text
<1> HIDE DEF n
<1>6. n \in {Len(s), Len(s) + 1}
  <2>1. n \in Nat /\ m[n] = NUL /\ \A j \in 0..(n - 1) : m[j] # NUL
    BY <1>1, <1>4
  <2>2. ~(n < Len(s))
    BY <1>1, <1>2, <2>1
  <2>3. ~(n > Len(s) + 1)
    <3> SUFFICES ASSUME n > Len(s) + 1 PROVE FALSE
      OBVIOUS
    <3>1. Len(s) + 1 \in 0..(n - 1)
      BY <1>1, <2>1
    <3> QED BY <2>1, <3>1
  <2> QED BY <1>1, <2>1, <2>2, <2>3
<1>7. n \in Nat /\ Len(s) <= n /\ \A i \in 1..n : i - 1 \in DOMAIN m
  BY <1>1, <1>4, <1>6
<1>8. Text(m) \in Seq(Nat) /\ Len(Text(m)) = n
  <2>1. \A i \in 1..n : m[i - 1] \in Nat
    BY <1>7
  <2>2. Text(m) \in [1..n -> Nat]
    BY <1>5, <2>1
  <2> QED BY <1>7, <2>2, SeqDef, LenProperties
<1>9. \A i \in 1..Len(s) : Text(m)[i] = s[i] /\ s[i] \in Nat
  <2> SUFFICES ASSUME NEW i \in 1..Len(s) PROVE Text(m)[i] = s[i] /\ s[i] \in Nat
    OBVIOUS
  <2>1. i \in 1..n
    BY <1>1, <1>7
  <2>2. Text(m)[i] = m[i - 1]
    BY <1>5, <2>1
  <2>3. s[i] \in Nat \ {NUL}
    BY ElementOfSeq
  <2> QED BY <2>2, <2>3
<1>10. SubSeq(Text(m), 1, Len(s)) = s
  <2> DEFINE p == SubSeq(Text(m), 1, Len(s))
  <2>1. \A i \in 1..Len(s) : Text(m)[i] \in Nat
    BY <1>9
  <2>2. /\ p \in Seq(Nat) /\ Len(p) = IF 1 <= Len(s) THEN Len(s) - 1 + 1 ELSE 0
        /\ \A i \in 1..(Len(s) - 1 + 1) : p[i] = Text(m)[1 + i - 1]
    <3>1. 1 \in Int /\ Len(s) \in Int
      BY <1>1
    <3> HIDE DEF n
    <3> QED BY <2>1, <3>1, SubSeqProperties
  <2> HIDE DEF p
  <2>3. Len(p) = Len(s) /\ \A i \in 1..Len(p) : p[i] = s[i]
    BY <1>1, <1>9, <2>2
  <2>4. s \in Seq(Nat)
    BY <1>1, <1>9
  <2> QED BY <2>2, <2>3, <2>4, SeqEqual DEF p
<1> QED BY <1>6, <1>8, <1>10

(* The only thread at work goes on to the state t. *)
Turn(n, t) ==
  /\ Becomes(n, t) /\ UNCHANGED server
  /\ Alone /\ Kept /\ procs[n].pc # "idle"

LEMMA TurnFacts ==
  ASSUME TypeOK, NEW n \in Threads, NEW t \in ThreadType, Turn(n, t)
  PROVE  /\ procs'[n] = t /\ Stage(procs[n])
         /\ Len(uploads) \in Nat /\ Len(uploads) > 0 /\ uploads # <<>>
         /\ UNCHANGED <<uploads, underway, left>> /\ Sent' = Sent /\ Current' = Current
         /\ Done = IF underway \/ procs[n].pc \in Writing THEN Len(uploads) - 1 ELSE Len(uploads)
         /\ Done' = IF underway \/ t.pc \in Writing THEN Len(uploads) - 1 ELSE Len(uploads)
         /\ written' = written /\ Done' = Done => Kept'
         /\ t.pc = "idle" => Alone'
         /\ t.pc # "idle" => ~Quiet' /\ (Stage(procs[n])' => Alone')
<1>1. /\ procs'[n] = t /\ Len(procs') = Len(procs) /\ Threads' = Threads
      /\ \A o \in Threads : o # n => procs'[o] = procs[o]
  BY ThreadBecomes DEF Turn
<1>2. n = Len(procs) /\ Stage(procs[n]) /\ procs[n].pc # "idle"
  BY DEF Turn, Alone
<1>3. \A o \in Threads : o # n => procs[o].pc = "idle"
  BY <1>2 DEF Turn, Alone
<1>4. Len(uploads) \in Nat /\ Len(uploads) > 0 /\ uploads # <<>>
  BY <1>2, Facts DEF Stage
<1>5. UNCHANGED <<uploads, underway, left>> /\ Sent' = Sent /\ Current' = Current
  BY DEF Turn, server, Sent, Current
<1>6. "idle" \notin Writing
  BY DEF Writing
<1>7. Done = IF underway \/ procs[n].pc \in Writing THEN Len(uploads) - 1 ELSE Len(uploads)
  <2>1. (\E o \in Threads : procs[o].pc \in Writing) <=> procs[n].pc \in Writing
    BY <1>3, <1>6
  <2> QED BY <2>1 DEF Done
<1>8. Done' = IF underway \/ t.pc \in Writing THEN Len(uploads) - 1 ELSE Len(uploads)
  <2>1. (\E o \in Threads' : procs'[o].pc \in Writing) <=> t.pc \in Writing
    BY <1>1, <1>3, <1>6
  <2>2. Done' = IF underway' \/ (\E o \in Threads' : procs'[o].pc \in Writing)
                THEN Len(uploads') - 1 ELSE Len(uploads')
    BY DEF Done
  <2> QED BY <1>5, <2>1, <2>2
<1>9. ASSUME written' = written, Done' = Done PROVE Kept'
  <2>1. Done \in Nat /\ Done <= Len(uploads)
    BY <1>4, <1>7
  <2> QED BY <1>5, <1>9, <2>1, KeptStays DEF Turn
<1>10. ASSUME t.pc = "idle" PROVE Alone'
  BY <1>1, <1>3, <1>10 DEF Alone
<1>11. ASSUME t.pc # "idle" PROVE ~Quiet'
  BY <1>1, <1>11 DEF Quiet, Busy
<1>12. ASSUME Stage(procs[n])' PROVE Alone'
  <2> SUFFICES ASSUME NEW o \in Threads', procs'[o].pc # "idle"
               PROVE  o = Len(procs') /\ Stage(procs[o])'
    BY DEF Alone
  <2>1. o = n
    BY <1>1, <1>3
  <2> QED BY <1>1, <1>2, <1>12, <2>1
<1> QED BY <1>1, <1>2, <1>4, <1>5, <1>7, <1>8, <1>9, <1>10, <1>11, <1>12

LEMMA SentType ==
  ASSUME TypeOK, LeftInv, uploads # <<>>
  PROVE  /\ Len(Current) \in Nat /\ Current \in Seq(Nat \ {NUL})
         /\ Sent \in Nat /\ Sent <= Len(Current)
         /\ ~underway => Sent = Len(Current)
<1>1. /\ Len(Current) \in Nat /\ Current \in Seq(Nat \ {NUL}) /\ Len(left) \in Nat
      /\ Current \in Files
  BY Facts DEF Current
<1>2. Len(left) <= Len(Current) /\ (~underway => Len(left) = 0)
  BY EmptySeq DEF LeftInv
<1> QED BY <1>1, <1>2 DEF Sent

LEMMA HandleCalm ==
  ASSUME TypeOK, LeftInv, ThreadInv, TypeOK', CalmInv, calm', NEW n \in Threads, Handle(n),
         ~Overrun(n)
  PROVE  Alone' /\ (Quiet' => Rest') /\ Kept'
<1> DEFINE s == procs[n]
           k == Len(uploads)
           fresh == ~BehindRefused(k)
           first == Sent - Len(s.bytes)
           To(pc) == [s EXCEPT !.pc = pc]
<1>0. Alone /\ Kept
  <2>1. calm
    BY DEF Handle, SetName, Reply, Copy, Advance, Terminate, Write, Reset
  <2> QED BY <2>1 DEF CalmInv
<1>1. /\ s \in ThreadType /\ s.bytes \in Seq(Nat \ {NUL}) /\ Len(s.bytes) \in Nat
      /\ Len(s.bytes) <= DataLen /\ DataLen \in Nat
      /\ Idle \in ThreadType /\ Idle.pc = "idle"
      /\ \A pc \in PCs : /\ To(pc) \in ThreadType /\ To(pc).pc = pc /\ To(pc).bytes = s.bytes
                         /\ To(pc).of = s.of
  BY Paying
<1>2. s.pc # "idle"
  BY DEF Handle, SetName, Reply, Copy, Advance, Terminate, Write, Reset
<1>3. /\ pt_FileData \in Nat /\ file_data \in [0..(Size - 1) -> Nat]
      /\ pt_FileData' \in Nat /\ Size \in Nat /\ Size > 0
  BY UploadAssumption DEF TypeOK
<1>4. Stage(s) /\ uploads # <<>> /\ k \in Nat /\ k > 0
  BY <1>0, <1>2, Facts DEF Alone, Stage
<1>5. /\ Len(Current) \in Nat /\ Current \in Seq(Nat \ {NUL}) /\ Sent \in Nat
      /\ ~underway => Sent = Len(Current)
  BY <1>4, SentType
<1>6. UNCHANGED <<uploads, left, underway>>
      /\ Sent' = Sent /\ Current' = Current /\ (BehindRefused(k)' <=> BehindRefused(k))
  BY DEF Handle, SetName, Reply, Copy, Advance, Terminate, Write, Reset, server,
         Sent, Current, BehindRefused
<1>7. CASE SetName(n)
  <2>1. Turn(n, Idle) /\ s.pc = "name" /\ g_filename' = s.of
        /\ UNCHANGED <<file_data, pt_FileData, written>>
    BY <1>0, <1>2, <1>7 DEF SetName, Goto, Becomes, Turn
  <2>2. underway /\ Sent = 0 /\ s.of = k /\ (fresh => pt_FileData = 0)
    BY <1>4, <2>1 DEF Stage
  <2>3. Alone' /\ Kept'
    <3>1. Alone' /\ (Done' = Done => Kept')
      BY <1>1, <2>1, TurnFacts
    <3>2. Done' = Done
      BY <1>1, <2>1, <2>2, TurnFacts
    <3> QED BY <3>1, <3>2
  <2>4. Rest'
    BY <1>3, <1>4, <1>6, <2>1, <2>2 DEF Rest, Holds
  <2> QED BY <2>3, <2>4
<1>8. CASE Reply(n)
  <2> DEFINE t == To("copy")
  <2>1. Turn(n, t) /\ s.pc = "reply" /\ UNCHANGED <<g_filename, file_data, pt_FileData, written>>
    BY <1>0, <1>2, <1>8 DEF Reply, Goto, Becomes, Turn, memory
  <2>2. t \in ThreadType /\ t.pc = "copy" /\ t.bytes = s.bytes /\ t.of = s.of
    BY <1>1 DEF PCs
  <2> HIDE DEF t
  <2>3. /\ procs'[n] = t /\ ~Quiet' /\ (Stage(procs[n])' => Alone')
        /\ (Done' = Done => Kept')
    BY <2>1, <2>2, TurnFacts
  <2>4. Done' = Done
    BY <2>1, <2>2, TurnFacts DEF Writing
  <2>5. Stage(procs[n])'
    BY <1>4, <1>6, <2>1, <2>2, <2>3 DEF Stage, Holds
  <2> QED BY <2>3, <2>4, <2>5
<1>9. CASE Copy(n)
  <2> DEFINE t == [s EXCEPT !.pc = "advance", !.base = pt_FileData]
  <2>1. Turn(n, t) /\ s.pc = "copy" /\ UNCHANGED <<g_filename, pt_FileData, written>>
        /\ file_data' = [i \in 0..(Size - 1) |->
              IF i \in pt_FileData..(pt_FileData + Len(s.bytes) - 1)
              THEN s.bytes[i - pt_FileData + 1] ELSE file_data[i]]
    BY <1>0, <1>2, <1>3, <1>9 DEF Copy, Becomes, Turn
  <2>2. t \in ThreadType /\ t.pc = "advance" /\ t.bytes = s.bytes /\ t.of = s.of /\ t.base = pt_FileData
    BY <1>1, <1>3 DEF PCs, ThreadType
  <2> HIDE DEF t
  <2>3. /\ procs'[n] = t /\ ~Quiet' /\ (Stage(procs[n])' => Alone')
        /\ (Done' = Done => Kept')
    BY <2>1, <2>2, TurnFacts
  <2>4. Done' = Done
    BY <2>1, <2>2, TurnFacts DEF Writing
  <2>5. /\ s.of = k /\ g_filename = k /\ (underway <=> Len(s.bytes) = DataLen)
        /\ first >= 0 /\ \A i \in 1..Len(s.bytes) : s.bytes[i] = Current[first + i]
        /\ fresh => pt_FileData = first /\ Holds(first)
    BY <1>4, <2>1 DEF Stage
  <2>8. ASSUME fresh PROVE Sent <= Size
    <3>1. CASE s.bytes = <<>>
      <4>1. Len(s.bytes) = 0
        BY <3>1, EmptySeq
      <4>2. first <= Size
        BY <2>5, <2>8 DEF Holds
      <4> QED BY <1>5, <4>1, <4>2
    <3>2. CASE s.bytes # <<>>
      <4>1. pt_FileData + Len(s.bytes) <= Size
        BY <1>1, <1>3, <1>9, <2>1, <3>2 DEF Copy, Outside
      <4>2. pt_FileData = first
        BY <2>5, <2>8
      <4> QED BY <1>1, <1>3, <1>5, <4>1, <4>2
    <3> QED BY <3>1, <3>2
  <2>6. ASSUME fresh PROVE \A i \in 1..Sent : file_data'[i - 1] = Current[i]
    <3> SUFFICES ASSUME NEW i \in 1..Sent PROVE file_data'[i - 1] = Current[i]
      OBVIOUS
    <3>1. pt_FileData + Len(s.bytes) = Sent /\ pt_FileData = first
      BY <1>1, <1>5, <2>5, <2>6
    <3>2. pt_FileData \in Nat /\ Len(s.bytes) \in Nat /\ i \in Nat /\ i >= 1 /\ i <= Sent /\ Sent \in Nat
      BY <1>1, <1>3, <1>5
    <3>3. i - 1 \in 0..(Size - 1)
      BY <1>3, <1>5, <2>6, <2>8, <3>2
    <3>4. CASE i - 1 < pt_FileData
      <4>1. i \in 1..first /\ i - 1 \notin pt_FileData..(pt_FileData + Len(s.bytes) - 1)
        <5> HIDE DEF s, first
        <5> QED BY <3>1, <3>2, <3>4
      <4>2. file_data'[i - 1] = file_data[i - 1]
        BY <2>1, <3>3, <4>1
      <4>3. file_data[i - 1] = Current[i]
        BY <2>5, <2>6, <4>1 DEF Holds
      <4> QED BY <4>2, <4>3
    <3>5. CASE i - 1 >= pt_FileData
      <4>1. i - pt_FileData \in 1..Len(s.bytes) /\ (i - 1) - pt_FileData + 1 = i - pt_FileData
            /\ i - 1 \in pt_FileData..(pt_FileData + Len(s.bytes) - 1)
        <5> HIDE DEF s, first
        <5> QED BY <3>1, <3>2, <3>5
      <4>2. file_data'[i - 1] = s.bytes[i - pt_FileData]
        BY <2>1, <3>3, <4>1
      <4>3. s.bytes[i - pt_FileData] = Current[first + (i - pt_FileData)]
        BY <2>5, <4>1
      <4>4. first + (i - pt_FileData) = i
        BY <1>3, <3>1
      <4> QED BY <4>2, <4>3, <4>4
    <3> QED BY <1>3, <1>5, <3>4, <3>5
  <2>7. Stage(procs[n])'
    BY <1>4, <1>6, <2>1, <2>2, <2>3, <2>5, <2>6, <2>8 DEF Stage, Holds
  <2> QED BY <2>3, <2>4, <2>7
<1>10. CASE Advance(n)
  <2> DEFINE t == IF Len(s.bytes) < DataLen THEN To("terminate") ELSE Idle
  <2>1. Turn(n, t) /\ s.pc = "advance" /\ UNCHANGED <<g_filename, file_data, written>>
        /\ \E from \in {s.base, pt_FileData} : pt_FileData' = from + Len(s.bytes)
    BY <1>0, <1>2, <1>10 DEF Advance, Goto, Becomes, Turn
  <2>2. /\ t \in ThreadType
        /\ IF Len(s.bytes) < DataLen THEN t.pc = "terminate" /\ t.of = s.of ELSE t.pc = "idle"
    BY <1>1 DEF PCs
  <2> HIDE DEF t
  <2>3. /\ s.of = k /\ g_filename = k /\ (underway <=> Len(s.bytes) = DataLen)
        /\ s.base = pt_FileData
        /\ fresh => pt_FileData = first /\ Holds(Sent)
    BY <1>4, <2>1 DEF Stage
  <2>4. pt_FileData' = pt_FileData + Len(s.bytes) /\ (fresh => pt_FileData' = Sent /\ Holds(Sent))
    <3>1. pt_FileData' = pt_FileData + Len(s.bytes)
      BY <2>1, <2>3
    <3>2. fresh => pt_FileData' = Sent
      BY <1>1, <1>5, <2>3, <3>1
    <3> QED BY <2>3, <3>1, <3>2
  <2>5. procs'[n] = t /\ (Done' = Done => Kept')
    BY <2>1, <2>2, TurnFacts
  <2>6. CASE Len(s.bytes) < DataLen
    <3>1. ~underway /\ t.pc = "terminate" /\ t.of = k
      BY <1>1, <2>2, <2>3, <2>6
    <3>2. ~Quiet' /\ (Stage(procs[n])' => Alone')
      BY <2>1, <2>2, <3>1, TurnFacts
    <3>3. Done' = Done
      BY <2>1, <2>2, <3>1, TurnFacts DEF Writing
    <3>4. Stage(procs[n])'
      BY <1>4, <1>6, <2>1, <2>3, <2>4, <2>5, <3>1 DEF Stage, Holds
    <3> QED BY <2>5, <3>2, <3>3, <3>4
  <2>7. CASE ~(Len(s.bytes) < DataLen)
    <3>1. underway /\ t.pc = "idle"
      BY <1>1, <2>2, <2>3, <2>7
    <3>2. Alone'
      BY <2>1, <2>2, <3>1, TurnFacts
    <3>3. Done' = Done
      BY <2>1, <2>2, <3>1, TurnFacts
    <3>4. Rest'
      BY <1>4, <1>6, <2>1, <2>3, <2>4, <3>1 DEF Rest, Holds
    <3> QED BY <2>5, <3>2, <3>3, <3>4
  <2> QED BY <2>6, <2>7
<1>11. CASE Terminate(n)
  <2> DEFINE t == To("write")
  <2>1. Turn(n, t) /\ s.pc = "terminate" /\ UNCHANGED <<g_filename, written>>
        /\ pt_FileData' = pt_FileData + 1
        /\ file_data' = [file_data EXCEPT ![pt_FileData + 1] = NUL]
    BY <1>0, <1>2, <1>11 DEF Terminate, Goto, Becomes, Turn
  <2>2. t \in ThreadType /\ t.pc = "write" /\ t.of = s.of
    BY <1>1 DEF PCs
  <2> HIDE DEF t
  <2>3. /\ procs'[n] = t /\ ~Quiet' /\ (Stage(procs[n])' => Alone')
        /\ (Done' = Done => Kept')
    BY <2>1, <2>2, TurnFacts
  <2>4. Done' = Done
    BY <2>1, <2>2, TurnFacts DEF Writing
  <2>5. /\ s.of = k /\ g_filename = k /\ ~underway
        /\ fresh => pt_FileData = Sent /\ Holds(Sent)
    BY <1>4, <2>1 DEF Stage
  <2>6. ASSUME fresh
        PROVE  /\ \A i \in 1..Sent : file_data'[i - 1] = Current[i]
               /\ Sent <= Size /\ Sent + 1 < Size /\ file_data'[Sent + 1] = NUL
    <3>0. ~(pt_FileData + 1 >= Size)
      BY <1>11, <2>1 DEF Terminate, Outside
    <3>1. Sent + 1 \in 0..(Size - 1) /\ pt_FileData + 1 = Sent + 1
      BY <1>3, <1>5, <2>5, <2>6, <3>0
    <3>2. ASSUME NEW i \in 1..Sent PROVE file_data'[i - 1] = Current[i]
      <4>1. i - 1 \in 0..(Size - 1) /\ i - 1 # Sent + 1
        BY <1>3, <1>5, <3>1
      <4>2. file_data[i - 1] = Current[i]
        BY <2>5, <2>6 DEF Holds
      <4> QED BY <1>3, <2>1, <3>1, <4>1, <4>2
    <3>3. file_data'[Sent + 1] = NUL
      BY <1>3, <2>1, <3>1
    <3> QED BY <1>3, <1>5, <3>1, <3>2, <3>3
  <2>7. Stage(procs[n])'
    BY <1>4, <1>6, <2>1, <2>2, <2>3, <2>5, <2>6 DEF Stage, Holds
  <2> QED BY <2>3, <2>4, <2>7
<1>12. CASE Write(n)
  <2>1. s.pc = "write" /\ UNCHANGED <<server, g_filename, file_data, pt_FileData>>
    BY <1>12 DEF Write, memory
  <2>2. /\ s.of = k /\ g_filename = k /\ ~underway
        /\ fresh => Holds(Sent) /\ Sent + 1 < Size /\ file_data[Sent + 1] = NUL
    BY <1>4, <2>1 DEF Stage
  <2>3. CASE uploads[k].good
    <3> DEFINE t == To("reset")
               new == [name |-> k, bytes |-> Text(file_data)]
    <3>1. Turn(n, t) /\ written' = Append(written, new)
      BY <1>0, <1>2, <1>4, <1>12, <2>1, <2>2, <2>3 DEF Write, Writable, Goto, Becomes, Turn
    <3>2. t \in ThreadType /\ t.pc = "reset" /\ t.of = s.of
      BY <1>1 DEF PCs
    <3> HIDE DEF t
    <3>3. /\ procs'[n] = t /\ ~Quiet' /\ (Stage(procs[n])' => Alone')
      BY <3>1, <3>2, TurnFacts
    <3>4. Done = k - 1 /\ Done' = k
      BY <2>1, <2>2, <3>1, <3>2, TurnFacts DEF Writing
    <3>5. Stage(procs[n])'
      BY <1>4, <1>6, <2>1, <2>2, <2>3, <3>2, <3>3 DEF Stage
    <3>6. Keeps(new)
      <4> SUFFICES ASSUME fresh
                   PROVE  /\ Len(Text(file_data)) \in {Len(Current), Len(Current) + 1}
                          /\ SubSeq(Text(file_data), 1, Len(Current)) = Current
        BY DEF Keeps, Current
      <4>1. /\ Len(Current) + 1 \in 0..(Size - 1) /\ file_data[Len(Current) + 1] = NUL
            /\ \A i \in 1..Len(Current) : file_data[i - 1] = Current[i]
        BY <1>3, <1>5, <2>2 DEF Holds
      <4> QED BY <1>3, <1>5, <4>1, TextIs
    <3>7. Kept'
      <4>1. /\ Len(written) \in Nat /\ DOMAIN written = 1..Len(written)
            /\ written \in Seq(Written) /\ new \in Written
        BY <1>3, <1>4, LenProperties DEF ThreadInv, Written
      <4>2. /\ new.name = k /\ uploads' = uploads
        BY <1>6
      <4> HIDE DEF new
      <4>3. /\ Len(written') = Len(written) + 1 /\ DOMAIN written' = 1..(Len(written) + 1)
            /\ \A i \in 1..Len(written) : written'[i] = written[i]
            /\ written'[Len(written) + 1] = new
        BY <3>1, <4>1, AppendProperties, LenProperties
      <4>4. \A i \in 1..Len(written) :
              /\ written[i].name \in 1..(k - 1) /\ uploads[written[i].name].good /\ Keeps(written[i])
        BY <1>0, <3>4, <4>1 DEF Kept
      <4>5. ASSUME NEW i \in DOMAIN written'
            PROVE  /\ written'[i].name \in 1..k /\ uploads'[written'[i].name].good
                   /\ Keeps(written[i])'
        <5>1. CASE i \in 1..Len(written)
          <6>1. written'[i] = written[i] /\ written[i].name \in 1..k
            BY <1>4, <4>3, <4>4, <5>1
          <6> QED BY <4>2, <4>4, <5>1, <6>1 DEF Keeps, BehindRefused
        <5>2. CASE i = Len(written) + 1
          <6>1. written'[i] = new
            BY <4>3, <5>2
          <6> QED BY <1>4, <2>3, <3>6, <4>2, <6>1 DEF Keeps, BehindRefused
        <5> QED BY <4>1, <4>3, <5>1, <5>2
      <4>6. ASSUME NEW i \in DOMAIN written', NEW j \in DOMAIN written', i < j
            PROVE  written'[i].name < written'[j].name
        <5>1. i \in 1..Len(written) /\ written'[i] = written[i]
          BY <4>1, <4>3, <4>6
        <5>2. CASE j \in 1..Len(written)
          <6>1. written[i].name < written[j].name
            BY <1>0, <4>1, <4>6, <5>1, <5>2 DEF Kept
          <6> QED BY <4>3, <5>1, <5>2, <6>1
        <5>3. CASE j = Len(written) + 1
          <6>1. written'[j] = new /\ written[i].name \in 1..(k - 1)
            BY <4>3, <4>4, <5>1, <5>3
          <6> QED BY <1>4, <4>2, <5>1, <6>1
        <5> QED BY <4>1, <4>3, <5>2, <5>3
      <4>7. ASSUME NEW u \in 1..k, uploads'[u].good
            PROVE  \E i \in DOMAIN written' : written'[i].name = u
        <5>1. CASE u \in 1..(k - 1)
          <6>1. PICK i \in DOMAIN written : written[i].name = u
            BY <1>0, <3>4, <4>2, <4>7, <5>1 DEF Kept
          <6>2. i \in DOMAIN written' /\ written'[i] = written[i]
            BY <4>1, <4>3
          <6> QED BY <6>1, <6>2
        <5>2. CASE u = k
          <6>1. Len(written) + 1 \in DOMAIN written'
            BY <4>1, <4>3
          <6> QED BY <4>2, <4>3, <5>2, <6>1
        <5> QED BY <1>4, <5>1, <5>2
      <4> QED BY <3>4, <4>5, <4>6, <4>7 DEF Kept
    <3> QED BY <3>3, <3>5, <3>7
  <2>4. CASE ~uploads[k].good
    <3>1. Turn(n, Idle) /\ written' = written
      BY <1>0, <1>2, <1>12, <2>1, <2>2, <2>4 DEF Write, Writable, Goto, Becomes, Turn
    <3>2. Alone'
      BY <1>1, <3>1, TurnFacts
    <3>3. Done = k - 1 /\ Done' = k
      BY <1>1, <2>1, <2>2, <3>1, TurnFacts DEF Writing
    <3>4. Rest'
      BY <1>4, <1>6, <2>1, <2>2, <2>4 DEF Rest
    <3>5. Kept'
      <4>1. ASSUME NEW i \in DOMAIN written
            PROVE  /\ written[i].name \in 1..k /\ uploads'[written[i].name].good /\ Keeps(written[i])'
        <5>1. written[i].name \in 1..(k - 1) /\ uploads[written[i].name].good /\ Keeps(written[i])
          BY <1>0, <3>3 DEF Kept
        <5> QED BY <1>4, <1>6, <3>1, <5>1 DEF Keeps, BehindRefused
      <4>2. ASSUME NEW u \in 1..k, uploads'[u].good
            PROVE  \E i \in DOMAIN written : written[i].name = u
        <5>1. u \in 1..(k - 1)
          BY <1>4, <1>6, <2>4, <4>2
        <5> QED BY <1>0, <1>6, <3>3, <4>2, <5>1 DEF Kept
      <4> QED BY <1>0, <3>1, <3>3, <4>1, <4>2 DEF Kept
    <3> QED BY <3>2, <3>4, <3>5
  <2> QED BY <2>3, <2>4
<1>13. CASE Reset(n)
  <2>1. Turn(n, Idle) /\ s.pc = "reset" /\ pt_FileData' = 0
        /\ UNCHANGED <<g_filename, file_data, written>>
    BY <1>0, <1>2, <1>13 DEF Reset, Goto, Becomes, Turn
  <2>2. ~underway /\ g_filename = k
    BY <1>4, <2>1 DEF Stage
  <2>3. Alone' /\ (Done' = Done => Kept')
    BY <1>1, <2>1, TurnFacts
  <2>4. Done' = Done
    BY <1>1, <2>1, <2>2, TurnFacts DEF Writing
  <2>5. Rest'
    BY <1>4, <1>6, <2>1, <2>2 DEF Rest
  <2> QED BY <2>3, <2>4, <2>5
<1> QED BY <1>7, <1>8, <1>9, <1>10, <1>11, <1>12, <1>13 DEF Handle

LEMMA CalmStays ==
  ASSUME TypeOK, Alone, Quiet => Rest, Kept,
         UNCHANGED <<uploads, underway, left, procs, g_filename, file_data, pt_FileData, written>>
  PROVE  Alone' /\ (Quiet' => Rest') /\ Kept'
<1>1. /\ Threads' = Threads /\ Sent' = Sent /\ Current' = Current
      /\ (Quiet' <=> Quiet) /\ (BehindRefused(Len(uploads))' <=> BehindRefused(Len(uploads)))
  BY DEF Threads, Sent, Current, Quiet, Busy, BehindRefused
<1>2. ASSUME NEW n \in Threads, procs[n].pc # "idle" PROVE n = Len(procs) /\ Stage(procs[n])'
  <2>1. n = Len(procs) /\ Stage(procs[n])
    BY <1>2 DEF Alone
  <2> QED BY <1>1, <2>1 DEF Stage, Holds
<1>3. Quiet' => Rest'
  BY <1>1 DEF Rest, Holds
<1>4. Kept'
  BY DEF Kept, Done, Threads, Keeps, BehindRefused
<1> QED BY <1>1, <1>2, <1>3, <1>4 DEF Alone

(* The access that would be outside the buffer. *)
LEMMA OverrunCalm ==
  ASSUME TypeOK, LeftInv, ThreadInv, CalmInv, calm', NEW n \in Threads, Overrun(n)
  PROVE  CalmInv'
<1> DEFINE s == procs[n]
           k == Len(uploads)
           fresh == ~BehindRefused(k)
<1>1. calm /\ UNCHANGED <<uploads, underway, left, procs, g_filename, file_data, pt_FileData, written>>
  BY DEF Overrun, server, memory
<1>2. Alone /\ (Quiet => Rest) /\ Kept
  BY <1>1 DEF CalmInv
<1>3. s.pc # "idle" /\ Stage(s) /\ uploads # <<>> /\ k \in Nat /\ k > 0
  BY <1>2, Facts DEF Overrun, Outside, Alone, Stage
<1>4. /\ Len(s.bytes) \in Nat /\ pt_FileData \in Nat /\ Size \in Nat
      /\ Len(Current) \in Nat /\ Sent \in Nat /\ Sent <= Len(Current)
      /\ ~underway => Sent = Len(Current)
      /\ DOMAIN file_data = 0..(Size - 1)
  BY <1>3, Paying, SentType, UploadAssumption DEF TypeOK
<1>5. ASSUME fresh PROVE Len(Current) + 2 > Size
  <2>1. CASE s.pc = "copy" /\ pt_FileData + Len(s.bytes) > Size
    <3>1. pt_FileData = Sent - Len(s.bytes)
      BY <1>3, <1>5, <2>1 DEF Stage
    <3> QED BY <1>4, <2>1, <3>1
  <2>2. CASE s.pc = "terminate" /\ pt_FileData + 1 >= Size
    <3>1. pt_FileData = Sent /\ ~underway
      BY <1>3, <1>5, <2>2 DEF Stage
    <3> QED BY <1>4, <2>2, <3>1
  <2>3. CASE s.pc = "write" /\ \A i \in DOMAIN file_data : file_data[i] # NUL
    <3>1. Sent + 1 < Size /\ file_data[Sent + 1] = NUL
      BY <1>3, <1>5, <2>3 DEF Stage
    <3> QED BY <1>4, <2>3, <3>1
  <2> QED BY <2>1, <2>2, <2>3 DEF Overrun, Outside
<1>6. Excused'
  <2>1. uploads' = uploads /\ (BehindRefused(k)' <=> BehindRefused(k)) /\ (Fits(k)' <=> Fits(k))
    BY <1>1 DEF BehindRefused, Fits
  <2>2. fresh => ~Fits(k)
    BY <1>4, <1>5 DEF Fits, Current
  <2> QED BY <1>3, <2>1, <2>2 DEF Excused
<1>7. Alone' /\ (Quiet' => Rest') /\ Kept'
  BY <1>1, <1>2, CalmStays
<1> QED BY <1>6, <1>7 DEF CalmInv

LEMMA InitCalm == Init => Alone /\ Rest /\ Kept /\ Excused
<1> SUFFICES ASSUME Init PROVE Alone /\ Rest /\ Kept /\ Excused
  OBVIOUS
<1>1. /\ uploads = <<>> /\ procs = <<>> /\ g_filename = 0 /\ pt_FileData = 0 /\ written = <<>>
      /\ Len(uploads) = 0 /\ DOMAIN written = {} /\ Threads = {}
  BY EmptySeq, LenProperties DEF Init, Threads
<1>2. Done = 0
  BY <1>1 DEF Done, Init
<1>3. Excused
  BY DEF Init, Excused
<1> QED BY <1>1, <1>2, <1>3 DEF Alone, Rest, Kept

LEMMA CalmStep ==
  ASSUME TypeOK, LeftInv, ThreadInv, TypeOK', CalmInv, [Next]_vars, calm'
  PROVE  Alone' /\ (Quiet' => Rest') /\ Kept' /\ Excused'
<1>1. CASE SendName
  BY <1>1, CalmSendName
<1>2. CASE SendData
  BY <1>2, CalmSendData
<1>3. ASSUME NEW n \in Threads, Handle(n) PROVE Alone' /\ (Quiet' => Rest') /\ Kept' /\ Excused'
  <2>1. CASE Overrun(n)
    BY <2>1, OverrunCalm DEF CalmInv
  <2>2. CASE ~Overrun(n)
    <3>1. ~overrun'
      BY <1>3, <2>2 DEF Handle, SetName, Reply, Copy, Advance, Terminate, Write, Reset
    <3> QED BY <1>3, <2>2, <3>1, HandleCalm DEF Excused
  <2> QED BY <2>1, <2>2
<1>4. CASE UNCHANGED vars
  <2>1. UNCHANGED <<uploads, underway, left, procs, g_filename, file_data, pt_FileData, written>>
        /\ calm /\ overrun' = overrun
    BY <1>4 DEF vars, server, memory
  <2>2. Excused'
    BY <2>1 DEF CalmInv, Excused, BehindRefused, Fits
  <2> QED BY <2>1, <2>2, CalmStays DEF CalmInv
<1> QED BY <1>1, <1>2, <1>3, <1>4 DEF Next, Finished

LEMMA Inductive ==
  /\ Init => IInv
  /\ IInv /\ [Next]_vars => IInv'
<1>1. Init => IInv
  BY InitTyped, InitCalm DEF IInv, CalmInv
<1>2. ASSUME IInv, [Next]_vars PROVE IInv'
  <2>1. TypeOK' /\ LeftInv' /\ ThreadInv'
    BY <1>2, TypedStep DEF IInv
  <2>2. CalmInv'
    BY <1>2, <2>1, CalmStep DEF IInv, CalmInv
  <2> QED BY <2>1, <2>2 DEF IInv
<1> QED BY <1>1, <1>2

(* Between frames that are handled one at a time the pointer is where the   *)
(* bytes of the current upload end, and these are in the buffer; the upload *)
(* behind a refused one is the exception (uart.c:866, 885).  Only such an   *)
(* upload, or one too large for file_data, goes past its end, whatever is   *)
(* sent.                                                                    *)
THEOREM BufferStaysInStep == Spec => []BufferFollows
<1>1. ASSUME IInv PROVE BufferFollows
  <2>0. ASSUME calm, uploads # <<>>, overrun
        PROVE  BehindRefused(Len(uploads)) \/ ~Fits(Len(uploads))
    BY <1>1, <2>0 DEF IInv, CalmInv, Excused
  <2> SUFFICES ASSUME calm, Quiet, uploads # <<>>
               PROVE  IF ~underway THEN uploads[Len(uploads)].good => pt_FileData = 0
                      ELSE ~BehindRefused(Len(uploads)) =>
                             /\ pt_FileData = Sent
                             /\ \A i \in 1..pt_FileData : file_data[i - 1] = Current[i]
    BY <2>0 DEF BufferFollows, Sent, Current
  <2>1. Rest
    BY <1>1 DEF IInv, CalmInv
  <2> QED BY <2>1 DEF Rest, Holds
<1> QED BY <1>1, Inductive, PTL DEF Spec

(* When the frames are handled one at a time, each upload with a good name  *)
(* is written to one file, in the order they came, and nothing else is:     *)
(* its bytes, and at most one more (uart.c:870-885).                        *)
THEOREM UploadsAreKept == Spec => []UploadKept
<1>1. ASSUME IInv PROVE UploadKept
  <2> SUFFICES ASSUME calm
               PROVE  /\ \A i \in DOMAIN written : Keeps(written[i])
                      /\ \A i, j \in DOMAIN written : i < j => written[i].name < written[j].name
                      /\ Quiet /\ ~underway =>
                           {written[i].name : i \in DOMAIN written}
                             = {k \in DOMAIN uploads : uploads[k].good}
    BY DEF UploadKept, Keeps
  <2>1. Kept
    BY <1>1 DEF IInv, CalmInv
  <2>2. ASSUME Quiet, ~underway
        PROVE  {written[i].name : i \in DOMAIN written} = {k \in DOMAIN uploads : uploads[k].good}
    <3>1. DOMAIN uploads = 1..Len(uploads)
      BY <1>1, Facts DEF IInv
    <3>2. Done = Len(uploads)
      BY <2>2 DEF Done, Writing, Quiet, Busy
    <3> QED BY <2>1, <3>1, <3>2 DEF Kept
  <2> QED BY <2>1, <2>2 DEF Kept
<1> QED BY <1>1, Inductive, PTL DEF Spec

=============================================================================
