---------------------------- MODULE FileDownload ----------------------------
(***************************************************************************)
(* Sending a file to the server over the serial link (handleRdFile and     *)
(* waitFileAckFromServer in src/uart/uart.c): one frame at a time, each    *)
(* answered by an ack.  Every download runs in a processor thread of its   *)
(* own; the listener thread passes acks on through isFileAckReceived and   *)
(* a wait that gives up tells so through isFileAckTimeout: both are        *)
(* globals that all downloads share.                                       *)
(***************************************************************************)
EXTENDS Integers, Sequences, FiniteSets

CONSTANTS
  Downloads,  \* RD_FILE requests the server makes
  Lengths,    \* bytes of a file up to its first NUL
  DataLen,    \* FRAME_DATA_LEN
  WaitPolls,  \* the polls of 200 ms after which a wait gives up
  CntValues,  \* cnt counts modulo this (2^32 in the build)
  CntStarts   \* what the stack slot of cnt may hold: it is never initialized

ASSUME DownloadAssumption ==
  /\ Downloads \in Nat \ {0}
  /\ Lengths \subseteq Nat
  /\ DataLen \in Nat \ {0}
  /\ WaitPolls \in Nat \ {0} /\ CntValues \in Nat /\ WaitPolls < CntValues
  /\ CntStarts # {} /\ CntStarts \subseteq 0..(CntValues - 1)

VARIABLES
  asked,             \* requests made
  pc,                \* pc[d]: where the processor of request d is
  length,            \* length[d]: the bytes of its file
  sent,              \* sent[d]: bytes already put into frames
  final,             \* final[d]: its last frame has been sent
  cnt,               \* cnt[d]: the uninitialized counter of its current wait
  isFileAckReceived, \* shared
  isFileAckTimeout,  \* shared
  wire,              \* frames on their way to the server
  acks,              \* acks on their way to the listener
  got,               \* external: got[d]: the bytes of d the server has
  ended,             \* external: ended[d]: it has seen a short frame of d
  lost,              \* lost[d]: frames of d whose ack got lost
  polls,             \* polls[d]: polls of the current wait
  orderly            \* history: no download overlapped another, every ack that
                     \* came, came within a poll, and no wait had a single poll

flags == <<isFileAckReceived, isFileAckTimeout>>
link == <<wire, acks, got, ended, lost>>
vars == <<asked, pc, length, sent, final, cnt, flags, link, polls, orderly>>

Ids == 1..Downloads
Waiting == {"loop", "sleep", "clear", "judge"}
Running(d) == pc[d] \in Waiting \cup {"send"}

(* Seeded fault: every frame starts at the beginning of the file. *)
FrameFromStart(d, from, len) == [d |-> d, from |-> 0, len |-> len]

(* A frame of download d: the bytes after the first `from`. *)
Frame(d, from, len) == [d |-> d, from |-> from, len |-> len]

Init ==
  /\ asked = 0
  /\ pc = [d \in Ids |-> "none"]
  /\ length = [d \in Ids |-> 0] /\ sent = [d \in Ids |-> 0]
  /\ final = [d \in Ids |-> FALSE]
  /\ cnt = [d \in Ids |-> 0]
  /\ isFileAckReceived = FALSE /\ isFileAckTimeout = FALSE
  /\ wire = <<>> /\ acks = 0
  /\ got = [d \in Ids |-> <<>>] /\ ended = [d \in Ids |-> FALSE]
  /\ lost = [d \in Ids |-> 0]
  /\ polls = [d \in Ids |-> 0]
  /\ orderly = TRUE

-----------------------------------------------------------------------------
(* The server and the line *)

AllEnded == (\A d \in Ids : ~Running(d)) /\ wire = <<>> /\ acks = 0

(* External: the server asks for a file, perhaps before the last download   *)
(* has ended.  A name with a suffix that is not known, or a file that is    *)
(* not there, ends the handler without an answer.                           *)
Ask ==
  /\ asked < Downloads
  /\ asked' = asked + 1
  /\ orderly' = (orderly /\ AllEnded)
  /\ \/ /\ pc' = [pc EXCEPT ![asked + 1] = "send"]
        /\ \E l \in Lengths : length' = [length EXCEPT ![asked + 1] = l]
     \/ pc' = [pc EXCEPT ![asked + 1] = "refused"] /\ UNCHANGED length
  /\ UNCHANGED <<sent, final, cnt, flags, link, polls>>

(* External: the server takes a frame and acks it, or something gets lost.  *)
(* A frame shorter than DataLen tells it that the file is complete.         *)
Serve ==
  /\ wire # <<>>
  /\ LET f == Head(wire) IN
       /\ got' = [got EXCEPT ![f.d] = @ \o [k \in 1..f.len |-> f.from + k]]
       /\ ended' = [ended EXCEPT ![f.d] = @ \/ f.len < DataLen]
       /\ \/ acks' = acks + 1 /\ UNCHANGED lost
          \/ lost' = [lost EXCEPT ![f.d] = @ + 1] /\ UNCHANGED acks
  /\ wire' = Tail(wire)
  /\ UNCHANGED <<asked, pc, length, orderly, sent, final, cnt, flags, polls>>

(* UARTMsgListener: an ack. *)
ListenAck ==
  /\ acks > 0
  /\ acks' = acks - 1
  /\ isFileAckReceived' = TRUE
  /\ UNCHANGED <<asked, pc, length, orderly, sent, final, cnt, isFileAckTimeout, wire, got, ended, lost, polls>>

-----------------------------------------------------------------------------
(* handleRdFile *)

(* Seeded fault: a frame that takes a file to its end, full or not, is not  *)
(* the last.                                                                *)
LastFrameEmpty(d) == length[d] = sent[d]

(* Whether the final frame is sent: fewer than DataLen bytes are left. *)
LastFrame(d) == length[d] - sent[d] < DataLen

SendFrame(d) ==
  /\ pc[d] = "send"
  /\ LET last == LastFrame(d)
         len == IF last THEN length[d] - sent[d] ELSE DataLen IN
       /\ wire' = Append(wire, Frame(d, sent[d], len))
       /\ sent' = [sent EXCEPT ![d] = @ + len]
       /\ final' = [final EXCEPT ![d] = last]
  /\ \E c \in CntStarts :   \* int cnt;
       /\ cnt' = [cnt EXCEPT ![d] = c]
       /\ orderly' = (orderly /\ c # WaitPolls - 1)
  /\ polls' = [polls EXCEPT ![d] = 0]
  /\ pc' = [pc EXCEPT ![d] = "loop"]
  /\ UNCHANGED <<asked, length, flags, acks, got, ended, lost>>

(* waitFileAckFromServer: the loop condition ... *)
Look(d) ==
  /\ pc[d] = "loop"
  /\ pc' = [pc EXCEPT ![d] = IF isFileAckReceived THEN "clear" ELSE "sleep"]
  /\ UNCHANGED <<asked, length, orderly, sent, final, cnt, flags, link, polls>>

(* Seeded fault: the loop never gives up. *)
PollForever(d) ==
  /\ pc[d] = "sleep"
  /\ cnt' = [cnt EXCEPT ![d] = (@ + 1) % CntValues]
  /\ isFileAckTimeout' = FALSE
  /\ pc' = [pc EXCEPT ![d] = "loop"]
  /\ UNCHANGED <<asked, length, orderly, sent, final, isFileAckReceived, link, polls>>

(* ... and the poll.  polls stops counting at WaitPolls.                    *)
Poll(d) ==
  /\ pc[d] = "sleep"
  /\ orderly' = (orderly /\ wire = <<>> /\ acks = 0)
  /\ cnt' = [cnt EXCEPT ![d] = (@ + 1) % CntValues]
  /\ polls' = [polls EXCEPT ![d] = IF @ = WaitPolls THEN @ ELSE @ + 1]
  /\ isFileAckTimeout' = (cnt'[d] = WaitPolls)
  /\ pc' = [pc EXCEPT ![d] = IF cnt'[d] = WaitPolls THEN "clear" ELSE "loop"]
  /\ UNCHANGED <<asked, length, sent, final, isFileAckReceived, link>>

(* Seeded fault: the flag is left set when the wait ends. *)
ClearNothing(d) ==
  /\ pc[d] = "clear"
  /\ pc' = [pc EXCEPT ![d] = "judge"]
  /\ UNCHANGED <<asked, length, orderly, sent, final, cnt, flags, link, polls>>

(* The wait returns; its counter is gone. *)
ClearAck(d) ==
  /\ pc[d] = "clear"
  /\ isFileAckReceived' = FALSE
  /\ cnt' = [cnt EXCEPT ![d] = 0] /\ polls' = [polls EXCEPT ![d] = 0]
  /\ pc' = [pc EXCEPT ![d] = "judge"]
  /\ UNCHANGED <<asked, length, orderly, sent, final, isFileAckTimeout, link>>

(* Seeded fault: the timeout flag is not reset for the next download. *)
JudgeKeepsTimeout(d) ==
  /\ pc[d] = "judge"
  /\ pc' = [pc EXCEPT ![d] = IF isFileAckTimeout THEN "abandoned"
                             ELSE IF final[d] THEN "done" ELSE "send"]
  /\ UNCHANGED <<asked, length, orderly, sent, final, cnt, flags, link, polls>>

(* A timeout abandons the download and resets the flag.                     *)
Judge(d) ==
  /\ pc[d] = "judge"
  /\ pc' = [pc EXCEPT ![d] = IF isFileAckTimeout THEN "abandoned"
                             ELSE IF final[d] THEN "done" ELSE "send"]
  /\ isFileAckTimeout' = FALSE
  /\ UNCHANGED <<asked, length, orderly, sent, final, cnt, isFileAckReceived, link, polls>>

Processor(d) == SendFrame(d) \/ Look(d) \/ Poll(d) \/ ClearAck(d) \/ Judge(d)

(* The run has ended: nothing more will happen. *)
Finished ==
  /\ asked = Downloads /\ AllEnded
  /\ UNCHANGED vars

Next == Ask \/ Serve \/ ListenAck \/ (\E d \in Ids : Processor(d)) \/ Finished

Spec == Init /\ [][Next]_vars

FairSpec ==
  /\ Spec
  /\ WF_vars(Serve) /\ WF_vars(ListenAck)
  /\ \A d \in Ids : WF_vars(Processor(d))

-----------------------------------------------------------------------------
(* Properties *)

TypeOK ==
  /\ asked \in 0..Downloads
  /\ pc \in [Ids -> Waiting \cup {"none", "send", "refused", "done", "abandoned"}]
  /\ length \in [Ids -> Lengths \cup {0}]
  /\ sent \in [Ids -> Nat] /\ \A d \in Ids : sent[d] <= length[d]
  /\ final \in [Ids -> BOOLEAN]
  /\ cnt \in [Ids -> 0..(CntValues - 1)]
  /\ isFileAckReceived \in BOOLEAN /\ isFileAckTimeout \in BOOLEAN
  /\ wire \in Seq([d : Ids, from : Nat, len : 0..DataLen])
  /\ acks \in Nat
  /\ got \in [Ids -> Seq(Nat)] /\ ended \in [Ids -> BOOLEAN]
  /\ lost \in [Ids -> Nat]
  /\ polls \in [Ids -> 0..WaitPolls]
  /\ orderly \in BOOLEAN

Upto(n) == [k \in 1..n |-> k]

(* Where on the line the frames of a download are. *)
Mine(d) == {k \in DOMAIN wire : wire[k].d = d}

(* The frames of a download, those on the line included, leave no byte of   *)
(* the file out, repeat none and do not overtake each other, and a short    *)
(* frame, from which the server learns that the file is complete            *)
(* (uart.c:761, 767), reaches it only after all the others.                 *)
FramesInOrder ==
  \A d \in Ids :
    /\ got[d] = Upto(Len(got[d]))
    /\ Mine(d) = {} => Len(got[d]) = sent[d]
    /\ ended[d] => Len(got[d]) = length[d]

(* Flow control: when a frame is sent, every earlier frame has been acked   *)
(* or its ack was lost.  It needs both flags to be clean when a download    *)
(* starts; an ack left over would let the next frame go unanswered.         *)
StopAndWait ==
  orderly => \A d \in Ids : pc[d] = "send" =>
    /\ wire = <<>> /\ acks = 0 /\ ~isFileAckReceived /\ ~isFileAckTimeout
    /\ lost[d] = 0

(* How a download ends tells what became of the file: with its last ack it  *)
(* has delivered the file and told the server so, and it is abandoned only  *)
(* for an ack that got lost.  With downloads at the same time the ack, or   *)
(* the timeout, may be another's.                                           *)
EndsForCause ==
  orderly => \A d \in Ids :
    /\ pc[d] = "done" => ended[d]
    /\ pc[d] = "abandoned" => lost[d] = 1

(* Whatever the server does and however many downloads share the flags,     *)
(* each of them ends.                                                       *)
DownloadsEnd == \A d \in Ids : Running(d) ~> ~Running(d)

(* "wait 20 s" (uart.c:674): a wait that gives up has polled WaitPolls times.*)
GivesUpAfterFullWait ==
  [][\A d \in Ids : pc[d] = "sleep" /\ pc'[d] = "clear" => polls'[d] = WaitPolls]_vars
=============================================================================
