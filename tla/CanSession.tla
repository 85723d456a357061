----------------------------- MODULE CanSession -----------------------------
(***************************************************************************)
(* One command on the bus: handleP2PAndBroadcastMode (src/can/can.c) sends *)
(* a request, gathers the answers in the list g_PT_canFrameHead until the  *)
(* bus is silent, and files a report.  Sessions follow one another under   *)
(* g_mutex (module CanControl); the sockets keep what arrives in between.  *)
(***************************************************************************)
EXTENDS Naturals, Sequences

CONSTANTS
  Devices,     \* external: the devices on the buses, [can, id, type]
  DevList,     \* DevList[c]: the device list of CAN c (A2, A3), a sequence of [id, type]
  Commands,    \* the commands the server may post, [which, mode, can_id, cmd_type]
  AnswerTo,    \* external: AnswerTo[cmd]: the [num, b0] of frames that answer it
  Garbage,     \* what data[0] of an array element that was never written may hold
  NoSession,   \* no command runs
  NoRequest,   \* no request was sent on the bus yet
  MaxSessions, \* bound: commands
  MaxFrames    \* bound: frames the devices send

Cans == {1, 2}
P2P == 15
BROADCAST == 255
CALL == 0      \* call the common data
COLLECT == 2   \* collect wave data
READ == 15     \* read wave data
ANY == 31      \* dev_type of a broadcast, 0x1F

Command == [which : Cans, mode : {P2P, BROADCAST}, can_id : Nat, cmd_type : Nat]
(* A CAN frame: device, frame_number, data[0], and the session that asked. *)
Frame == [id : Nat, num : Nat, b0 : Nat, req : Nat]

ASSUME DeviceAssumption == Devices \subseteq [can : Cans, id : Nat, type : Nat]
ASSUME CommandAssumption == Commands \subseteq Command /\ NoSession \notin Command
ASSUME ListAssumption == DevList \in [Cans -> Seq([id : Nat, type : Nat])]
ASSUME AnswerAssumption ==
  \A c \in Commands : /\ c.cmd_type \in DOMAIN AnswerTo
                      /\ AnswerTo[c.cmd_type] \subseteq [num : Nat, b0 : Nat]
ASSUME GarbageAssumption == Garbage \subseteq Nat
ASSUME SessionBounds == MaxSessions \in Nat /\ MaxFrames \in Nat

VARIABLES
  cur,          \* the command whose session runs
  list,         \* g_PT_canFrameHead, in order
  got,          \* history: the frames received in this session
  rx,           \* rx[c]: frames in the receive queue of the socket of CAN c
  asked,        \* external: the last request on each bus, [type, id, cmd, req]
  collecting,   \* external: a device takes a wave and will report within 60 s, [id, req]
  taken,        \* external: the requests for which a device has started to take a wave
  isWaveFinished,
  waveDataType, \* static, both CANs
  files,        \* the reports, in order
  crashed,      \* the process was killed by SIGSEGV
  nsess, nframes

bus == <<rx, asked, collecting, taken, nframes>>
vars == <<cur, list, got, rx, asked, collecting, taken, isWaveFinished, waveDataType,
          files, crashed, nsess, nframes>>

Init ==
  /\ cur = NoSession
  /\ list = <<>> /\ got = <<>>
  /\ rx = [c \in Cans |-> <<>>]
  /\ asked = [c \in Cans |-> NoRequest]
  /\ collecting = [c \in Cans |-> NoRequest]
  /\ taken = {}
  /\ isWaveFinished = FALSE
  /\ waveDataType = 0
  /\ files = <<>>
  /\ crashed = FALSE
  /\ nsess = 0 /\ nframes = 0

-----------------------------------------------------------------------------
(* Helpers *)

(* The type at the device's first place in the list of its CAN, or 0. *)
findDevTypeById(id, which) ==
  LET places == {i \in DOMAIN DevList[which] : DevList[which][i].id = id}
  IN  IF places = {} THEN 0
      ELSE DevList[which][CHOOSE i \in places : \A j \in places : i <= j].type

(* A walk through the frames s that copies those in keep. *)
Select(s, keep) ==
  LET upto[n \in 0..Len(s)] ==
        IF n = 0 THEN <<>>
        ELSE IF s[n] \in keep THEN Append(upto[n - 1], s[n]) ELSE upto[n - 1]
  IN  upto[Len(s)]

Of(id) == {f \in Frame : f.id = id}

(* Not dirty.  The code looks at data[1] too, which is taken to go with data[0]. *)
Clean == {f \in Frame : f.b0 # 0}

(* Seeded fault: the search starts behind the head of the list. *)
GetCanFramesAfterHead(id) == Select(SubSeq(list, 2, Len(list)), Of(id))

GetCanFramesById(id) == Select(list, Of(id))

(* Seeded fault: a line that lacks frames is marked 0xf0. *)
CompleteF0(frames) ==
  LET empty == {i \in DOMAIN frames : frames[i].num = 0}
  IN  IF empty = {} THEN 255 ELSE IF empty = DOMAIN frames THEN 0 ELSE 240

(* The flag at the end of a line: 0xff complete, 0x0f not, 0x00 no data. *)
Complete(frames) ==
  LET empty == {i \in DOMAIN frames : frames[i].num = 0}
  IN  IF empty = {} THEN 255 ELSE IF empty = DOMAIN frames THEN 0 ELSE 15

(* formatCommonData: a device with no frame gets no line. *)
Line(id) ==
  LET frames == GetCanFramesById(id)
  IN  IF frames = <<>> THEN <<>>
      ELSE <<[id |-> id, frames |-> frames, complete |-> Complete(frames)]>>

(* The lines of a broadcast report, in the order of the device list. *)
BroadcastLines ==
  LET devs == DevList[cur.which]
      upto[n \in 0..Len(devs)] == IF n = 0 THEN <<>> ELSE upto[n - 1] \o Line(devs[n].id)
  IN  upto[Len(devs)]

(* waveData2file: the frames before the last one, but for dirty ones. *)
WaveLines ==
  <<[id |-> cur.can_id, fn |-> waveDataType,
     frames |-> Select(SubSeq(list, 1, Len(list) - 1), Clean)]>>

Filed(k, ls) == Append(files, [kind |-> k, cmd |-> cur, lines |-> ls, got |-> got])

(* Seeded fault: the list is left as it is. *)
NothingCleared == list

(* Linkedlist_clear frees what follows the head and keeps the head. *)
Linkedlist_clear == SubSeq(list, 1, 1)

-----------------------------------------------------------------------------
(* The worker *)

(* The request goes out; the session waits for answers. *)
Begin(c) ==
  /\ ~crashed /\ cur = NoSession /\ nsess < MaxSessions
  /\ cur' = c
  /\ got' = <<>>
  /\ isWaveFinished' = FALSE
  /\ nsess' = nsess + 1
  /\ LET type == IF c.mode = P2P THEN findDevTypeById(c.can_id, c.which) ELSE ANY
     IN  asked' = [asked EXCEPT ![c.which] =
                     [type |-> type, id |-> c.can_id, cmd |-> c.cmd_type, req |-> nsess + 1]]
  /\ UNCHANGED <<list, rx, collecting, taken, waveDataType, files, crashed, nframes>>

(* can_send fails: the session returns at once and leaves the list alone. *)
SendFails(c) ==
  /\ ~crashed /\ cur = NoSession /\ nsess < MaxSessions
  /\ nsess' = nsess + 1
  /\ UNCHANGED <<cur, list, got, bus, isWaveFinished, waveDataType, files, crashed>>

(* Seeded fault: a frame is put at the head of the list. *)
ReceiveAtHead ==
  /\ ~crashed /\ cur # NoSession /\ rx[cur.which] # <<>>
  /\ LET f == Head(rx[cur.which]) IN
       /\ list' = <<f>> \o list
       /\ got' = Append(got, f)
       /\ isWaveFinished' = (isWaveFinished \/ (cur.cmd_type = COLLECT /\ f.b0 = COLLECT))
  /\ rx' = [rx EXCEPT ![cur.which] = Tail(@)]
  /\ UNCHANGED <<cur, asked, collecting, taken, waveDataType, files, crashed, nsess, nframes>>

(* select reports the socket readable: whatever frame is next is taken as   *)
(* an answer to this session's request.                                     *)
Receive ==
  /\ ~crashed /\ cur # NoSession /\ rx[cur.which] # <<>>
  /\ LET f == Head(rx[cur.which]) IN
       /\ list' = Append(list, f)
       /\ got' = Append(got, f)
       /\ isWaveFinished' = (isWaveFinished \/ (cur.cmd_type = COLLECT /\ f.b0 = COLLECT))
  /\ rx' = [rx EXCEPT ![cur.which] = Tail(@)]
  /\ UNCHANGED <<cur, asked, collecting, taken, waveDataType, files, crashed, nsess, nframes>>

(* What the session leaves behind, by mode and cmd_type. *)
Report ==
  \/ /\ cur.mode = P2P /\ cur.cmd_type = CALL
     /\ files' = Filed("common", Line(cur.can_id))
     /\ UNCHANGED waveDataType
  \/ /\ cur.mode = P2P /\ cur.cmd_type = COLLECT
     /\ LET frames == GetCanFramesById(cur.can_id) IN
          \* canFrames[len - 1] with len = 0 is outside the array
          IF frames = <<>> THEN waveDataType' \in Garbage
          ELSE waveDataType' = frames[Len(frames)].b0
     /\ UNCHANGED files
  \/ /\ cur.mode = P2P /\ cur.cmd_type = READ
     /\ files' = Filed("wave", WaveLines)
     /\ UNCHANGED waveDataType
  \/ /\ cur.mode = BROADCAST /\ cur.cmd_type = CALL
     /\ files' = Filed("common", BroadcastLines)
     /\ UNCHANGED waveDataType
  \/ /\ cur.mode = P2P => cur.cmd_type \notin {CALL, COLLECT, READ}
     /\ cur.mode = BROADCAST => cur.cmd_type # CALL
     /\ UNCHANGED <<files, waveDataType>>

(* Seeded fault: a collection waits 3 s like any other command. *)
SilentFor3s == ~crashed /\ cur # NoSession /\ rx[cur.which] = <<>>

(* The bus is silent for 3 s, or, as long as a collection is not finished,  *)
(* for the 60 s in which a device that takes a wave does report.            *)
Silent ==
  /\ ~crashed /\ cur # NoSession /\ rx[cur.which] = <<>>
  /\ (cur.cmd_type = COLLECT /\ ~isWaveFinished) => collecting[cur.which] = NoRequest

(* Seeded fault: after the report the loop waits again. *)
TimeoutContinues ==
  /\ Silent
  /\ list # <<>>
  /\ Report
  /\ list' = Linkedlist_clear
  /\ UNCHANGED <<cur, got, bus, isWaveFinished, crashed, nsess>>

(* select times out: report, clear the list, return. *)
Timeout ==
  /\ Silent
  /\ list # <<>>
  /\ Report
  /\ list' = Linkedlist_clear
  /\ cur' = NoSession
  /\ UNCHANGED <<got, bus, isWaveFinished, crashed, nsess>>

(* No frame was ever received: Linkedlist_clear (and waveData2file) read    *)
(* through the NULL head.  A report that is due before that is written.     *)
TimeoutOnEmptyList ==
  /\ Silent
  /\ list = <<>>
  /\ IF cur.cmd_type = READ THEN UNCHANGED <<files, waveDataType>> ELSE Report
  /\ crashed' = TRUE
  /\ UNCHANGED <<cur, list, got, bus, isWaveFinished, nsess>>

-----------------------------------------------------------------------------
(* External: the devices *)

(* A device the last request of its bus addresses sends a frame, at once or *)
(* long after the session gave up.  A device that takes a wave is slow.     *)
Addressed(d) ==
  /\ asked[d.can] # NoRequest
  /\ \/ asked[d.can].type = ANY
     \/ asked[d.can].type = d.type /\ asked[d.can].id = d.id

Answer(d) ==
  /\ Addressed(d) /\ nframes < MaxFrames
  /\ \E a \in AnswerTo[asked[d.can].cmd] :
       rx' = [rx EXCEPT ![d.can] = Append(@,
                [id |-> d.id, num |-> a.num, b0 |-> a.b0, req |-> asked[d.can].req])]
  /\ nframes' = nframes + 1
  /\ UNCHANGED <<cur, list, got, asked, collecting, taken, isWaveFinished, waveDataType, files,
                 crashed, nsess>>

(* A request makes at most one device take one wave. *)
StartCollecting(d) ==
  /\ Addressed(d) /\ nframes < MaxFrames
  /\ asked[d.can].cmd = COLLECT /\ asked[d.can].req \notin taken
  /\ taken' = taken \cup {asked[d.can].req}
  /\ collecting[d.can] = NoRequest
  /\ collecting' = [collecting EXCEPT ![d.can] = [id |-> d.id, req |-> asked[d.can].req]]
  /\ nframes' = nframes + 1
  /\ UNCHANGED <<cur, list, got, rx, asked, isWaveFinished, waveDataType, files, crashed, nsess>>

ReportCollected(c) ==
  /\ collecting[c] # NoRequest
  /\ rx' = [rx EXCEPT ![c] = Append(@,
              [id |-> collecting[c].id, num |-> 33, b0 |-> COLLECT, req |-> collecting[c].req])]
  /\ collecting' = [collecting EXCEPT ![c] = NoRequest]
  /\ UNCHANGED <<cur, list, got, asked, taken, isWaveFinished, waveDataType, files, crashed,
                 nsess, nframes>>

-----------------------------------------------------------------------------
Session == Receive \/ Timeout \/ TimeoutOnEmptyList

Next ==
  \/ \E c \in Commands : Begin(c) \/ SendFails(c)
  \/ Session
  \/ \E d \in Devices : Answer(d) \/ StartCollecting(d)
  \/ \E c \in Cans : ReportCollected(c)

Spec == Init /\ [][Next]_vars

(* The worker runs; a device that takes a wave reports it. *)
FairSpec ==
  /\ Spec
  /\ WF_vars(Session)
  /\ \A c \in Cans : WF_vars(ReportCollected(c))

-----------------------------------------------------------------------------
(* Properties *)

Request == [type : Nat, id : Nat, cmd : {c.cmd_type : c \in Commands}, req : Nat]

Reports == [kind : {"common", "wave"}, cmd : Commands, lines : Seq([id : Nat, frames : Seq(Frame),
             complete : {0, 15, 255}] \cup [id : Nat, fn : Nat, frames : Seq(Frame)]), got : Seq(Frame)]

(* The values of the variables; after a crash nothing runs on. *)
TypeOK ==
  /\ cur \in Commands \cup {NoSession}
  /\ list \in Seq(Frame) /\ got \in Seq(Frame)
  /\ rx \in [Cans -> Seq(Frame)]
  /\ asked \in [Cans -> Request \cup {NoRequest}]
  /\ collecting \in [Cans -> [id : Nat, req : Nat] \cup {NoRequest}]
  /\ taken \subseteq 1..nsess
  /\ isWaveFinished \in BOOLEAN
  /\ waveDataType \in Nat
  /\ files \in Seq(Reports)
  /\ crashed => cur # NoSession /\ list = <<>>
  /\ nsess \in 0..MaxSessions /\ nframes \in 0..MaxFrames

(* The list is what this session received, in order, behind at most one     *)
(* frame that Linkedlist_clear left of an earlier session.                  *)
ListIsHeadAndGot ==
  IF cur = NoSession THEN Len(list) <= 1
  ELSE LET old == Len(list) - Len(got) IN
       /\ old \in {0, 1}
       /\ \A i \in DOMAIN got : got[i] = list[old + i]

Targets(r) == IF r.cmd.mode = P2P THEN {r.cmd.can_id}
              ELSE {DevList[r.cmd.which][i].id : i \in DOMAIN DevList[r.cmd.which]}

(* No answer is lost between the socket and the report: the line of a       *)
(* called device ends with all its frames that the session received, in     *)
(* the order of their arrival, after at most one left-over frame.           *)
ReportsComplete ==
  \A n \in DOMAIN files : files[n].kind = "common" =>
    \A id \in Targets(files[n]) :
      LET answers == Select(files[n].got, Of(id)) IN
      answers # <<>> =>
        \E i \in DOMAIN files[n].lines :
          LET line == files[n].lines[i].frames
              old  == Len(line) - Len(answers)
          IN  /\ files[n].lines[i].id = id
              /\ old \in {0, 1}
              /\ SubSeq(line, old + 1, Len(line)) = answers

(* A session does not end while a device still takes the wave it was asked  *)
(* for, unless some frame with data[0] = 2 came in (can.c:480, 588).        *)
CollectionAwaited ==
  [][(cur # NoSession /\ cur' = NoSession /\ cur.cmd_type = COLLECT
        /\ collecting[cur.which] # NoRequest)
     => \E i \in DOMAIN got : got[i].b0 = COLLECT]_vars

(* A session returns, and so gives the mutex back, once the devices have    *)
(* stopped sending; or the process dies in it.                              *)
SessionEnds == cur # NoSession ~> (cur = NoSession \/ crashed)

(* "3 s; when no data comes it returns" (can.c:475). *)
ReturnsWithoutAnswer == ~crashed

(* "clear the list" (can.c:563): a report holds the frames of its session.  *)
ReportsHoldOwnFrames ==
  \A n \in DOMAIN files : \A i \in DOMAIN files[n].lines :
    \A k \in DOMAIN files[n].lines[i].frames :
      \E m \in DOMAIN files[n].got : files[n].got[m] = files[n].lines[i].frames[k]

(* "all the data in the list come from the same device" (can.c:522).        *)
WaveOfOneDevice ==
  \A n \in DOMAIN files : files[n].kind = "wave" =>
    \A i \in DOMAIN files[n].lines : \A k \in DOMAIN files[n].lines[i].frames :
      files[n].lines[i].frames[k].id = files[n].cmd.can_id

(* "fn: 0x01~0x06" (can.c:336): the wave type a wave file is named with.    *)
WaveTypeInRange ==
  \A n \in DOMAIN files : files[n].kind = "wave" => files[n].lines[1].fn \in 1..6

(* "the answer to the collection was received, that is, the collection is   *)
(* done" (can.c:587).                                                       *)
FinishedMeansCollected ==
  (cur # NoSession /\ isWaveFinished) => collecting[cur.which] = NoRequest
=============================================================================
