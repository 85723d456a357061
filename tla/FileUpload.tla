----------------------------- MODULE FileUpload -----------------------------
(***************************************************************************)
(* Receiving a file from the server over the serial link (the cases        *)
(* FRAME_TYPE_WR_FILE and FRAME_TYPE_FILE of handle() in src/uart/uart.c). *)
(* A name frame is followed by the file in frames of DataLen bytes; one    *)
(* that is shorter ends it.  Every frame is handled by a thread of its     *)
(* own, and all of them share g_filename, the static buffer file_data and  *)
(* the static pointer pt_FileData into it.  Nothing keeps the pointer      *)
(* within the buffer: what a thread does to the memory behind it has no    *)
(* meaning in C, and the model stops there, with overrun set.              *)
(***************************************************************************)
EXTENDS Naturals, Sequences, FiniteSets

CONSTANTS
  Files,      \* external: the contents the server may send, sequences of bytes
  MaxUploads,
  Overlap,    \* bound: threads still at work when a frame is sent
  DataLen,    \* FRAME_DATA_LEN
  Size        \* bytes of file_data (4096)

NUL == 0

ASSUME UploadAssumption ==
  /\ Files \subseteq Seq(Nat \ {NUL})
  /\ {MaxUploads, DataLen, Size} \subseteq Nat \ {0} /\ Overlap \in Nat

VARIABLES
  uploads,     \* external: what the server has sent: [bytes, good]; a name is
               \* good if its suffix is .cfg, .dat or .log
  underway,    \* external: frames of the last one are still to be sent ...
  left,        \* external: ... with these bytes
  procs,       \* the processor threads, one per frame
  acks,        \* acks sent, minus data frames sent
  g_filename,  \* the upload whose name frame was handled last, 0 at first
  file_data, pt_FileData,
  written,     \* the files written: [name, bytes]
  overrun,     \* a thread has gone past the end of file_data
  calm         \* history: each frame came when the one before had been handled

server == <<uploads, underway, left>>
memory == <<g_filename, file_data, pt_FileData>>
vars == <<server, procs, acks, memory, written, overrun, calm>>

Threads == DOMAIN procs
Busy == {n \in Threads : procs[n].pc # "idle"}
Quiet == Busy = {}
Thread(pc, of, bytes) == [pc |-> pc, of |-> of, bytes |-> bytes, base |-> 0]
Idle == Thread("idle", 0, <<>>)
Goto(n, pc) == procs' = [procs EXCEPT ![n] = IF pc = "idle" THEN Idle ELSE [@ EXCEPT !.pc = pc]]

Init ==
  /\ uploads = <<>> /\ underway = FALSE /\ left = <<>>
  /\ procs = <<>>
  /\ acks = 0
  /\ g_filename = 0
  /\ file_data = [i \in 0..(Size - 1) |-> NUL] /\ pt_FileData = 0
  /\ written = <<>> /\ overrun = FALSE
  /\ calm = TRUE

-----------------------------------------------------------------------------
(* External: the server.  It waits for the ack of a frame; the next one may *)
(* still come before the frame has been handled, which goes on behind it.   *)

MaySend == ~overrun /\ acks = 0 /\ Cardinality(Busy) <= Overlap

SendName ==
  /\ ~underway /\ MaySend
  /\ Len(uploads) < MaxUploads
  /\ \E f \in Files, good \in BOOLEAN :
       /\ uploads' = Append(uploads, [bytes |-> f, good |-> good])
       /\ underway' = TRUE /\ left' = f
  /\ procs' = Append(procs, Thread("name", Len(uploads) + 1, <<>>))
  /\ calm' = (calm /\ Quiet)
  /\ UNCHANGED <<acks, memory, written, overrun>>

SendData ==
  /\ underway /\ MaySend
  /\ LET short == Len(left) < DataLen
         len == IF short THEN Len(left) ELSE DataLen IN
       /\ procs' = Append(procs, Thread("reply", Len(uploads), SubSeq(left, 1, len)))
       /\ left' = SubSeq(left, len + 1, Len(left))
       /\ underway' = ~short
  /\ acks' = acks + 1
  /\ calm' = (calm /\ Quiet)
  /\ UNCHANGED <<uploads, memory, written, overrun>>

-----------------------------------------------------------------------------
(* handle(), one thread per frame *)

Writable == g_filename # 0 /\ uploads[g_filename].good

(* The access that comes next would be behind file_data: the copy, the NUL, *)
(* or the reading of fputs, which goes on to a NUL.                         *)
Outside(n) ==
  \/ procs[n].pc = "copy" /\ procs[n].bytes # <<>> /\ pt_FileData + Len(procs[n].bytes) > Size
  \/ procs[n].pc = "terminate" /\ pt_FileData + 1 >= Size
  \/ procs[n].pc = "write" /\ Writable /\ \A i \in DOMAIN file_data : file_data[i] # NUL

Overrun(n) ==
  /\ Outside(n)
  /\ overrun' = TRUE
  /\ UNCHANGED <<server, procs, acks, memory, written, calm>>

(* Seeded fault: the frame with the name is acked, too. *)
SetNameAcked(n) ==
  /\ procs[n].pc = "name"
  /\ g_filename' = procs[n].of
  /\ acks' = acks - 1
  /\ Goto(n, "idle")
  /\ UNCHANGED <<server, file_data, pt_FileData, written, overrun, calm>>

(* FRAME_TYPE_WR_FILE *)
SetName(n) ==
  /\ procs[n].pc = "name"
  /\ g_filename' = procs[n].of
  /\ Goto(n, "idle")
  /\ UNCHANGED <<server, acks, file_data, pt_FileData, written, overrun, calm>>

(* FRAME_TYPE_FILE: replyFileAck goes out before the data is copied. *)
Reply(n) ==
  /\ procs[n].pc = "reply"
  /\ acks' = acks - 1
  /\ Goto(n, "copy")
  /\ UNCHANGED <<server, memory, written, overrun, calm>>

(* Seeded fault: the copy goes one byte too far along. *)
CopyOffByOne(n) ==
  /\ procs[n].pc = "copy" /\ ~Outside(n)
  /\ file_data' = [i \in DOMAIN file_data |->
       IF i \in pt_FileData + 1 .. pt_FileData + Len(procs[n].bytes)
       THEN procs[n].bytes[i - pt_FileData] ELSE file_data[i]]
  /\ procs' = [procs EXCEPT ![n].pc = "advance", ![n].base = pt_FileData]
  /\ UNCHANGED <<server, acks, g_filename, pt_FileData, written, overrun, calm>>

(* memcpy(pt_FileData, data, data_len) *)
Copy(n) ==
  /\ procs[n].pc = "copy" /\ ~Outside(n)
  /\ file_data' = [i \in DOMAIN file_data |->
       IF i \in pt_FileData .. pt_FileData + Len(procs[n].bytes) - 1
       THEN procs[n].bytes[i - pt_FileData + 1] ELSE file_data[i]]
  /\ procs' = [procs EXCEPT ![n].pc = "advance", ![n].base = pt_FileData]
  /\ UNCHANGED <<server, acks, g_filename, pt_FileData, written, overrun, calm>>

(* pt_FileData += data_len: from the value loaded for the memcpy or from a  *)
(* later one, as other threads may write it.                                *)
Advance(n) ==
  /\ procs[n].pc = "advance"
  /\ \E from \in {procs[n].base, pt_FileData} : pt_FileData' = from + Len(procs[n].bytes)
  /\ Goto(n, IF Len(procs[n].bytes) < DataLen THEN "terminate" ELSE "idle")
  /\ UNCHANGED <<server, acks, g_filename, file_data, written, overrun, calm>>

(* The NUL goes behind the byte that follows the data. *)
Terminate(n) ==
  /\ procs[n].pc = "terminate" /\ ~Outside(n)
  /\ pt_FileData' = pt_FileData + 1
  /\ file_data' = [file_data EXCEPT ![pt_FileData + 1] = NUL]
  /\ Goto(n, "write")
  /\ UNCHANGED <<server, acks, g_filename, written, overrun, calm>>

(* What fputs writes of file_data: the bytes before the first NUL. *)
Text(m) ==
  LET n == CHOOSE i \in DOMAIN m : m[i] = NUL /\ \A j \in 0..(i - 1) : m[j] # NUL
  IN [i \in 1..n |-> m[i - 1]]

(* Seeded fault: a long file is not written. *)
WriteShortOnly(n) ==
  /\ procs[n].pc = "write" /\ ~Outside(n)
  /\ IF Writable
     THEN /\ written' = IF pt_FileData > DataLen THEN written ELSE
               Append(written, [name |-> g_filename, bytes |-> Text(file_data)])
          /\ Goto(n, "reset")
     ELSE Goto(n, "idle") /\ UNCHANGED written
  /\ UNCHANGED <<server, acks, memory, overrun, calm>>

(* data2file; a name with another suffix returns before the reset.          *)
Write(n) ==
  /\ procs[n].pc = "write" /\ ~Outside(n)
  /\ IF Writable
     THEN /\ written' = Append(written, [name |-> g_filename, bytes |-> Text(file_data)])
          /\ Goto(n, "reset")
     ELSE Goto(n, "idle") /\ UNCHANGED written
  /\ UNCHANGED <<server, acks, memory, overrun, calm>>

Reset(n) ==
  /\ procs[n].pc = "reset"
  /\ pt_FileData' = 0
  /\ Goto(n, "idle")
  /\ UNCHANGED <<server, acks, g_filename, file_data, written, overrun, calm>>

Handle(n) ==
  /\ ~overrun
  /\ \/ SetName(n) \/ Reply(n) \/ Copy(n) \/ Advance(n)
     \/ Terminate(n) \/ Write(n) \/ Reset(n) \/ Overrun(n)

Finished ==
  /\ overrun \/ (Len(uploads) = MaxUploads /\ ~underway /\ Quiet)
  /\ UNCHANGED vars

Next == SendName \/ SendData \/ (\E n \in Threads : Handle(n)) \/ Finished

Spec == Init /\ [][Next]_vars

-----------------------------------------------------------------------------
(* Properties *)

PCs == {"name", "reply", "copy", "advance", "terminate", "write", "reset", "idle"}
ThreadType == [pc : PCs, of : Nat, bytes : Seq(Nat \ {NUL}), base : Nat]

(* The values of the variables: an ack for each data frame, and at most one *)
(* file for each upload, however the threads interleave.  The pointer may   *)
(* be anywhere (uart.c:866).                                                *)
TypeOK ==
  /\ uploads \in Seq([bytes : Files, good : BOOLEAN]) /\ Len(uploads) <= MaxUploads
  /\ underway \in BOOLEAN /\ left \in Seq(Nat \ {NUL})
  /\ procs \in Seq(ThreadType)
  /\ acks \in {0, 1}
  /\ g_filename \in 0..Len(uploads)
  /\ file_data \in [0..(Size - 1) -> Nat]
  /\ pt_FileData \in Nat
  /\ Len(written) <= Len(uploads)
  /\ overrun \in BOOLEAN /\ calm \in BOOLEAN

(* What upload k finds in the buffer: the bytes of a refused one before it, *)
(* after which the pointer has not been reset (uart.c:885).                 *)
BehindRefused(k) == k > 1 /\ ~uploads[k - 1].good

(* An upload that fits into file_data with the NUL behind it (uart.c:842).  *)
Fits(k) == Len(uploads[k].bytes) + 2 <= Size

(* Between frames the pointer is where the bytes that have come of the      *)
(* current upload end, and before them in the buffer are exactly these      *)
(* bytes, if each frame has come when the one before had been handled: a    *)
(* refused upload spoils the next one, and after that no more.  Nothing goes*)
(* past the end of the buffer but in such a spoilt upload or in one that is *)
(* too large by itself (uart.c:864-871 check neither).                      *)
BufferFollows ==
  calm /\ uploads # <<>> =>
    LET k == Len(uploads) IN
    IF overrun THEN BehindRefused(k) \/ ~Fits(k)
    ELSE IF ~Quiet THEN TRUE
    ELSE IF ~underway THEN uploads[k].good => pt_FileData = 0
    ELSE ~BehindRefused(k) =>
         /\ pt_FileData = Len(uploads[k].bytes) - Len(left)
         /\ \A i \in 1..pt_FileData : file_data[i - 1] = uploads[k].bytes[i]

(* Nothing of an upload is lost and nothing is written twice: when they     *)
(* have been handled, the uploads with good names are the files written,    *)
(* and what is written is the bytes of this upload, followed by at most one *)
(* byte of an older, longer one (the NUL of uart.c:870).                    *)
UploadKept ==
  calm =>
    /\ \A i \in DOMAIN written :
         LET f == written[i]
             sentBytes == uploads[f.name].bytes IN
         ~BehindRefused(f.name) =>
           /\ Len(f.bytes) \in {Len(sentBytes), Len(sentBytes) + 1}
           /\ SubSeq(f.bytes, 1, Len(sentBytes)) = sentBytes
    /\ \A i, j \in DOMAIN written : i < j => written[i].name < written[j].name
    /\ Quiet /\ ~underway =>
         {written[i].name : i \in DOMAIN written} = {k \in DOMAIN uploads : uploads[k].good}

(* "the files the server sends must be limited in size, no more than 4K"    *)
(* (uart.c:842): if they are, no thread goes past the end of the buffer.    *)
NeverOverruns == (\A k \in DOMAIN uploads : Fits(k)) => ~overrun

(* "receive the file frames the server sends; the name is in g_filename"    *)
(* (uart.c:859): the file of that name has the bytes sent under it.         *)
FileHoldsUpload ==
  \A k \in DOMAIN written : written[k].bytes = uploads[written[k].name].bytes

(* The same where the NUL alone, a refused name alone, or a frame that came *)
(* early alone can be the reason.                                           *)
FileEndsWithUpload == calm /\ (\A k \in DOMAIN uploads : uploads[k].good) => FileHoldsUpload
FileSurvivesRefusal == calm /\ Len(written) = 1 => FileHoldsUpload
FileSurvivesHaste ==
  (\A k \in DOMAIN uploads : uploads[k].good) /\ Len(uploads) = 1 => FileHoldsUpload
=============================================================================
