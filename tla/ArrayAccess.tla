---------------------------- MODULE ArrayAccess ----------------------------
(***************************************************************************)
(* The session with the server over the serial link: REQUEST and INIT      *)
(* frames, the arrays it writes and reads, and the heartbeat of the        *)
(* listener (UARTMsgListener, createSession, handleRdArr and handleWrArr   *)
(* in src/uart/uart.c).  The arrays are those that StartUp has loaded.     *)
(* The listener, and a processor that answers the server, read them byte   *)
(* by byte without a lock.  Processors that write A4 or A5 wait for        *)
(* g_mutex, which a worker holds through a session, and other frames are   *)
(* handled meanwhile.                                                      *)
(***************************************************************************)
EXTENDS StartUp

CONSTANTS
  Writes,     \* external: the WR_ARR frames the server sends
  Reads,      \* external: the arrays it asks for
  MaxFrames,  \* frames the server sends
  MinSecs, MaxSecs, DefaultSecs,   \* 3, 3600 and 60
  FRAME_DATA_LEN,                  \* 52
  IDLen, StationMax                \* 5; what fits into station[16]

ASSUME ArrayAssumption ==
  /\ \A w \in Writes : w.arr \in Heads /\ w.index \in Nat /\ w.wr_len \in Nat
                       /\ w.data \in Seq(Bytes) /\ Len(w.data) >= w.wr_len
  /\ Reads \subseteq Heads
  /\ {MaxFrames, MinSecs, MaxSecs, DefaultSecs, IDLen, StationMax} \subseteq Nat
  /\ MinSecs <= DefaultSecs /\ DefaultSecs <= MaxSecs
  /\ RowLen[A0] >= 2 /\ RowLen[A1] >= 3 + IDLen
  /\ FRAME_DATA_LEN \in Nat \ {0, 1} /\ \A r \in A1..(A4 - 1) : RowLen[r] >= FRAME_DATA_LEN - 2

Mac == "mac"
NoMac == "zero"
Frame(type, arr, mac, b) == [type |-> type, arr |-> arr, mac |-> mac, b |-> b]
NoFrame == Frame("none", A0, Mac, <<>>)
NoRequest == [op |-> "none"]

VARIABLES
  frames,     \* frames the server has sent
  pending,    \* the frame on the line, or NoRequest
  g_mac,
  isSessionCreated,
  lpc,        \* the listener: "arm", "select", "dispatch", "beat"
  half,       \* the bytes of A0 it has loaded
  seconds,    \* the interval of its select
  name,       \* ID and station as it has loaded them from A1
  ppc,        \* the processor: "idle", "start", "mac", "write", "read"
  req,        \* the frame it handles
  pos,        \* its position in the array
  waiting,    \* processors that wait for g_mutex: [n, w], frame n is write w
  locked,     \* a processor has g_mutex ...
  lw, lpos,   \* ... for write lw, its position in the array
  resp,       \* the frame the processor builds
  out,        \* the frame sent last
  latest,     \* history: what the arrays hold by the writes handled so far
  seen        \* history: what the array being read has held since it began,
              \* {} if a processor that has g_mutex was writing it meanwhile

booting == <<unread, workers, bound>>
server == <<frames, pending>>
listener == <<lpc, half, seconds, name>>
processor == <<ppc, req, pos>>
locker == <<waiting, locked, lw, lpos>>
history == <<latest, seen>>
session == <<g_mac, isSessionCreated, mainpc>>
vars == <<booting, server, g_ARR, session, listener, processor, locker, resp, out, history>>

Up == mainpc \in {"clear", "mac", "done"}

Init ==
  /\ StartInit
  /\ frames = 0 /\ pending = NoRequest
  /\ g_mac = NoMac /\ isSessionCreated = FALSE
  /\ lpc = "arm" /\ half = <<>> /\ seconds = DefaultSecs /\ name = <<>>
  /\ ppc = "idle" /\ req = NoRequest /\ pos = 0
  /\ waiting = {} /\ locked = FALSE /\ lw = NoRequest /\ lpos = 0
  /\ resp = NoFrame /\ out = NoFrame
  /\ latest = g_ARR /\ seen = {}

(* Start-up.  What the arrays hold then is what the server wrote before.    *)
Boot ==
  /\ Start
  /\ latest' = g_ARR'
  /\ UNCHANGED <<locker, server, g_mac, isSessionCreated, listener, processor, resp, out, seen>>

-----------------------------------------------------------------------------
(* External: the server gets the MAC from the board that starts, or asks    *)
(* for it, opens the session with INIT once it has it, and then writes and  *)
(* reads arrays, or asks again.  It waits until a frame has been handled,   *)
(* the first time until the board has announced itself.                     *)

Known == out.mac = Mac /\ out # NoFrame

Requests ==
  {[op |-> "REQUEST"]}
  \cup (IF Known THEN {[op |-> "INIT"]} ELSE {})
  \cup (IF isSessionCreated
        THEN {[op |-> "WR", w |-> w] : w \in Writes} \cup {[op |-> "RD", arr |-> a] : a \in Reads}
        ELSE {})

Send ==
  /\ frames < MaxFrames
  /\ mainpc = "done"
  /\ pending = NoRequest /\ lpc # "dispatch" /\ ppc = "idle"
  /\ frames' = frames + 1
  /\ pending' \in Requests
  /\ UNCHANGED <<locker, booting, g_ARR, session, listener, processor, resp, out, history>>

-----------------------------------------------------------------------------
(* UARTMsgListener *)

(* Seeded fault: no check of the bounds. *)
BoundedNot(s) == s

Bounded(s) == IF s > MaxSecs \/ s < MinSecs THEN DefaultSecs ELSE s

Secs(row) == Bounded(row[1] + row[0] * Base)

(* seconds = g_ARR_A0[1] | (g_ARR_A0[0] << 8): two loads, in either order.  *)
LoadA0(i) ==
  /\ Up /\ lpc = "arm"
  /\ \A k \in DOMAIN half : half[k].i # i
  /\ half' = Append(half, [i |-> i, b |-> g_ARR[A0][i]])
  /\ UNCHANGED <<locker, booting, server, g_ARR, session, lpc, seconds, name,
                 processor, resp, out, history>>

(* The bytes of A1 in g from position from to before to, up to a NUL. *)
Letters(g, from, to) ==
  LET b == [i \in 1..(to - from) |-> g[A1][from + i - 1]]
      nul == {i \in DOMAIN b : b[i] = 0}
  IN IF nul = {} THEN b ELSE SubSeq(b, 1, Min(nul) - 1)

NameEnd(g) == Min({3 + g[A1][2], RowLen[A1]})

(* getIDAndStationFromA2: only a write that runs on from A0 meets it here.  *)
Arm ==
  /\ Up /\ lpc = "arm" /\ Len(half) = 2
  /\ seconds' = Secs([i \in 0..1 |-> half[CHOOSE k \in 1..2 : half[k].i = i].b])
  /\ name' = Letters(g_ARR, 3, 3 + IDLen) \o Letters(g_ARR, 3 + IDLen, NameEnd(g_ARR))
  /\ half' = <<>>
  /\ lpc' = "select"
  /\ UNCHANGED <<locker, booting, server, g_ARR, session, processor, resp, out, history>>

(* A station that is too long is written past station[16]. *)
ArmDies ==
  /\ Up /\ lpc = "arm" /\ Len(half) = 2
  /\ g_ARR[A1][2] > IDLen + StationMax
  /\ mainpc' = "dead"
  /\ UNCHANGED <<locker, booting, server, g_ARR, g_mac, isSessionCreated, listener, processor,
                 resp, out, history>>

(* select reports input; UART_Recv reads it. *)
Receive ==
  /\ Up /\ lpc = "select" /\ pending # NoRequest
  /\ lpc' = "dispatch"
  /\ req' = pending /\ pending' = NoRequest
  /\ UNCHANGED <<locker, booting, frames, g_ARR, session, half, seconds, name, ppc, pos, resp,
                 out, history>>

(* A processor thread is started. *)
Dispatch ==
  /\ Up /\ lpc = "dispatch"
  /\ lpc' = "arm"
  /\ ppc' = "start"
  /\ UNCHANGED <<locker, booting, server, g_ARR, session, half, seconds, name, req, pos,
                 resp, out, history>>

(* Seeded fault: no heartbeat as long as the frame sent last is an answer.  *)
TimeoutAfterBeat ==
  /\ Up /\ lpc = "select" /\ pending = NoRequest /\ ppc = "idle"
  /\ lpc' = IF isSessionCreated /\ out.type # "RD_ARR" THEN "beat" ELSE "arm"
  /\ UNCHANGED <<locker, booting, server, g_ARR, session, half, seconds, name,
                 processor, resp, out, history>>

(* select times out.  The interval began when the frame before was passed   *)
(* on, and is at least MinSecs: by now the processor has handled it, or     *)
(* waits for g_mutex (or, in a download, which touches no array, for the    *)
(* server).                                                                 *)
Timeout ==
  /\ Up /\ lpc = "select" /\ pending = NoRequest /\ ppc = "idle"
  /\ lpc' = IF isSessionCreated THEN "beat" ELSE "arm"
  /\ UNCHANGED <<locker, booting, server, g_ARR, session, half, seconds, name,
                 processor, resp, out, history>>

Heartbeat == Frame("HB", A1, g_mac, <<g_ARR[A1][0], g_ARR[A1][1]>> \o name)

(* Seeded fault: the listener goes back to select without loading A0.       *)
BeatReselects ==
  /\ Up /\ lpc = "beat"
  /\ out' = Heartbeat
  /\ lpc' = "select"
  /\ UNCHANGED <<locker, booting, server, g_ARR, session, half, seconds, name, processor, resp,
                 history>>

(* Load AS and SS, copy g_mac, send. *)
Beat ==
  /\ Up /\ lpc = "beat"
  /\ out' = Heartbeat
  /\ lpc' = "arm"
  /\ UNCHANGED <<locker, booting, server, g_ARR, session, half, seconds, name, processor, resp,
                 history>>

-----------------------------------------------------------------------------
(* main: createSession once the listener has been started *)

MainClearMac ==
  /\ mainpc = "clear"
  /\ g_mac' = NoMac
  /\ mainpc' = "mac"
  /\ UNCHANGED <<locker, booting, server, g_ARR, isSessionCreated, listener, processor, resp, out,
                 history>>

(* main returns if the frame cannot be written. *)
MainSendInit ==
  /\ mainpc = "mac"
  /\ g_mac' = Mac
  /\ \/ out' = Frame("INIT", A0, Mac, <<>>) /\ mainpc' = "done"
     \/ mainpc' = "dead" /\ UNCHANGED out
  /\ UNCHANGED <<locker, booting, server, g_ARR, isSessionCreated, listener, processor, resp,
                 history>>

-----------------------------------------------------------------------------
(* UARTMsgProcessor *)

(* createSession: g_mac is cleared, filled again and sent. *)
ClearMac ==
  /\ Up /\ ppc = "start" /\ req.op = "REQUEST"
  /\ g_mac' = NoMac
  /\ ppc' = "mac"
  /\ UNCHANGED <<locker, booting, server, g_ARR, isSessionCreated, mainpc, listener, req, pos,
                 resp, out, history>>

SendInit ==
  /\ Up /\ ppc = "mac"
  /\ g_mac' = Mac
  /\ out' = Frame("INIT", A0, Mac, <<>>)
  /\ ppc' = "idle"
  /\ UNCHANGED <<locker, booting, server, g_ARR, isSessionCreated, mainpc, listener, req, pos,
                 resp, history>>

SessionCreated ==
  /\ Up /\ ppc = "start" /\ req.op = "INIT"
  /\ isSessionCreated' = TRUE
  /\ ppc' = "idle"
  /\ UNCHANGED <<locker, booting, server, g_ARR, g_mac, mainpc, listener, req, pos, resp, out,
                 history>>

(* handleWrArr: to A1 only AS and SS are written, to A2 and A3 nothing.     *)
Accepted(w) == w.arr \notin {A2, A3} /\ (w.arr = A1 => w.index + w.wr_len <= 2)

(* What the server means by a write: wr_len bytes from index on.            *)
Overwrite(w) ==
  [latest EXCEPT ![w.arr] = [i \in DOMAIN @ |->
    IF i \in w.index..(w.index + w.wr_len - 1) THEN w.data[i - w.index + 1] ELSE @[i]]]

(* A processor that writes A4 or A5 has to wait for g_mutex. *)
StartWrite ==
  /\ Up /\ ppc = "start" /\ req.op = "WR"
  /\ \/ /\ ~Accepted(req.w)
        /\ ppc' = "idle" /\ UNCHANGED <<pos, waiting, latest>>
     \/ /\ Accepted(req.w) /\ req.w.arr \in {A4, A5}
        /\ waiting' = waiting \cup {[n |-> frames, w |-> req.w]}
        /\ ppc' = "idle" /\ UNCHANGED <<pos, latest>>
     \/ /\ Accepted(req.w) /\ req.w.arr \notin {A4, A5}
        /\ pos' = req.w.index /\ latest' = Overwrite(req.w)
        /\ ppc' = "write" /\ UNCHANGED waiting
  /\ UNCHANGED <<booting, server, g_ARR, session, listener, req, locked, lw, lpos, resp, out, seen>>

(* g after byte b has been stored at position p of row r.  Nothing stops it *)
(* at the end of the row: it may be a byte of a row behind.                 *)
Stored(g, r, p, b) ==
  [q \in Rows |-> [i \in 0..(RowLen[q] - 1) |->
    IF Offset[q] + i = Offset[r] + p THEN b ELSE g[q][i]]]

(* for(pos = index; pos < wr_len; pos++): one turn for write w *)
WriteAt(w, p) == g_ARR' = Stored(g_ARR, w.arr, p, w.data[p - w.index + 1])

WriteByte ==
  /\ Up /\ ppc = "write"
  /\ IF pos < req.w.wr_len
     THEN WriteAt(req.w, pos) /\ pos' = pos + 1 /\ UNCHANGED ppc
     ELSE ppc' = "idle" /\ UNCHANGED <<g_ARR, pos>>
  /\ UNCHANGED <<locker, booting, server, session, listener, req, resp, out, history>>

(* A processor gets g_mutex. *)
Lock(x) ==
  /\ Up /\ ~locked /\ x \in waiting
  /\ waiting' = waiting \ {x}
  /\ locked' = TRUE /\ lw' = x.w /\ lpos' = x.w.index
  /\ latest' = Overwrite(x.w)
  /\ seen' = IF ppc = "read" /\ req.arr = x.w.arr THEN {} ELSE seen
  /\ UNCHANGED <<booting, server, g_ARR, session, listener, processor, resp, out>>

(* The same loop, then pthread_mutex_unlock. *)
LockedByte ==
  /\ Up /\ locked
  /\ IF lpos < lw.wr_len
     THEN WriteAt(lw, lpos) /\ lpos' = lpos + 1 /\ UNCHANGED <<locked, lw>>
     ELSE locked' = FALSE /\ lw' = NoRequest /\ lpos' = 0 /\ UNCHANGED g_ARR
  /\ UNCHANGED <<booting, server, session, listener, processor, waiting, resp, out, history>>

(* What lies behind the last row is not modelled: a write to it may end the *)
(* process.                                                                 *)
Behind(w, p) == p < w.wr_len /\ Offset[w.arr] + p >= Offset[A5] + RowLen[A5]

WriteDies ==
  /\ Up
  /\ (ppc = "write" /\ Behind(req.w, pos)) \/ (locked /\ Behind(lw, lpos))
  /\ mainpc' = "dead"
  /\ UNCHANGED <<locker, booting, server, g_ARR, g_mac, isSessionCreated, listener, processor,
                 resp, out, history>>

(* Array a by the bytes g, n bytes of each row. *)
Whole(g, a, n) ==
  LET row(r) == [i \in 1..n |-> IF i <= RowLen[r] THEN g[r][i - 1] ELSE 0]
  IN IF Lines(a) = 1 THEN row(a) ELSE row(a) \o row(a + 1)

(* A CAN worker has run its command (module CanControl) and resets the mode *)
(* byte.  It holds g_mutex.                                                 *)
Reset(c) ==
  LET a == IF c = 1 THEN A4 ELSE A5
      Cleared(g) == [g EXCEPT ![a][0] = 0]
  IN /\ Up /\ \E k \in DOMAIN workers : workers[k].which = c
     /\ ~locked
     /\ g_ARR[a][0] # 0
     /\ g_ARR' = Cleared(g_ARR) /\ latest' = Cleared(latest)
     /\ seen' = IF ppc = "read" /\ req.arr = a /\ seen # {}
                THEN seen \cup {Whole(latest', a, RowLen[a])} ELSE seen
     /\ UNCHANGED <<locker, booting, server, session, listener, processor, resp, out>>

(* Bytes an answer takes of each row. *)
Taken(a, g) ==
  CASE a = A1 -> 3 + g[A1][2]
    [] a \in {A2, A3} -> g[a][0] + 1
    [] OTHER -> RowLen[a]

Fits(a, g) == Lines(a) * Taken(a, g) <= FRAME_DATA_LEN - 2

(* handleRdArr: the head with g_mac, then the array byte by byte.           *)
StartRead ==
  /\ Up /\ ppc = "start" /\ req.op = "RD"
  /\ resp' = Frame("RD_ARR", req.arr, g_mac, <<>>)
  /\ pos' = Taken(req.arr, g_ARR)
  /\ seen' = IF locked /\ lw.arr = req.arr THEN {} ELSE {Whole(latest, req.arr, pos')}
  /\ ppc' = "read"
  /\ UNCHANGED <<locker, booting, server, g_ARR, session, listener, req, out, latest>>

(* Seeded fault: of a device list only the first row is answered.           *)
ReadByteFirstRow ==
  /\ Up /\ ppc = "read"
  /\ IF Len(resp.b) < pos
     THEN /\ resp' = [resp EXCEPT !.b = Append(@, g_ARR[req.arr][Len(@)])]
          /\ UNCHANGED <<ppc, out, seen>>
     ELSE out' = resp /\ resp' = NoFrame /\ ppc' = "idle" /\ seen' = {}
  /\ UNCHANGED <<locker, booting, server, g_ARR, session, listener, req, pos, latest>>

(* pos bytes of each row, as many as the frame holds. *)
ReadByte ==
  /\ Up /\ ppc = "read"
  /\ IF Len(resp.b) < Min({Lines(req.arr) * pos, FRAME_DATA_LEN - 2})
     THEN /\ resp' = [resp EXCEPT !.b =
               Append(@, g_ARR[req.arr + Len(@) \div pos][Len(@) % pos])]
          /\ UNCHANGED <<ppc, out, seen>>
     ELSE out' = resp /\ resp' = NoFrame /\ ppc' = "idle" /\ seen' = {}
  /\ UNCHANGED <<locker, booting, server, g_ARR, session, listener, req, pos, latest>>

(* A longer answer is written past content[52]. *)
ReadDies ==
  /\ Up /\ ppc = "read" /\ Lines(req.arr) * pos > FRAME_DATA_LEN - 2
  /\ mainpc' = "dead"
  /\ UNCHANGED <<locker, booting, server, g_ARR, g_mac, isSessionCreated, listener, processor,
                 resp, out, history>>

Listener == Arm \/ ArmDies \/ (\E i \in 0..1 : LoadA0(i)) \/ Receive \/ Dispatch \/ Timeout \/ Beat
Processor == ClearMac \/ SendInit \/ SessionCreated \/ StartWrite \/ WriteByte \/ WriteDies
             \/ StartRead \/ ReadByte \/ ReadDies
(* Those that write A4 and A5, and the workers. *)
Locker == LockedByte \/ (\E x \in waiting : Lock(x)) \/ (\E c \in CANs : Reset(c))
Main == MainClearMac \/ MainSendInit
Dead == mainpc = "dead" /\ UNCHANGED vars

Next == Boot \/ Send \/ Main \/ Listener \/ Processor \/ Locker \/ Dead

Spec == Init /\ [][Next]_vars
FairSpec == Spec /\ WF_vars(Main) /\ WF_vars(Listener) /\ WF_vars(Processor)

-----------------------------------------------------------------------------
(* Properties *)

(* The arrays keep their form, and the interval stays within its bounds,    *)
(* although A0 may be loaded half way through a write, or from a file of    *)
(* any form, and writes may be longer than their array.                     *)
TypeOK ==
  /\ mainpc \in {"load", "can", "threads", "clear", "mac", "done", "dead"}
  /\ workers \in Seq([which : CANs, bus : 0..2]) /\ bound \in [CANs -> 0..2]
  /\ frames \in 0..MaxFrames
  /\ \A r \in Rows : {g_ARR[r], latest[r]} \subseteq [0..(RowLen[r] - 1) -> Bytes]
  /\ g_mac \in {Mac, NoMac}
  /\ isSessionCreated \in BOOLEAN
  /\ lpc \in {"arm", "select", "dispatch", "beat"}
  /\ seconds \in MinSecs..MaxSecs
  /\ ppc \in {"idle", "start", "mac", "write", "read"}
  /\ {x.w : x \in waiting} \subseteq Writes /\ (locked => lw \in Writes)
  /\ Len(half) <= 2 /\ Len(resp.b) <= FRAME_DATA_LEN - 2

(* The ID has its fixed length, with no NUL in it, and the station fits. *)
NameFits(g) ==
  /\ g[A1][2] \in IDLen..(IDLen + StationMax)
  /\ \A i \in 3..(2 + IDLen) : g[A1][i] # 0

(* Every frame the board sends carries its MAC, though each REQUEST clears  *)
(* g_mac for a moment.  A heartbeat has the status the server wrote last    *)
(* and the name of the board.  An answer has the whole array, as it was at  *)
(* some time of the reading, though a worker may reset its mode byte and    *)
(* other arrays are written meanwhile; but a processor that gets g_mutex    *)
(* may write the array itself (handleRdArr, UARTMsgListener).               *)
FramesCurrent ==
  [][out' # out =>
       /\ out'.mac = Mac
       /\ out'.type = "HB" =>
            /\ SubSeq(out'.b, 1, 2) = <<latest[A1][0], latest[A1][1]>>
            /\ NameFits(latest) =>
                 SubSeq(out'.b, 3, Len(out'.b)) = Letters(latest, 3, NameEnd(latest))
       /\ out'.type = "RD_ARR" /\ seen # {} /\ Fits(out'.arr, latest) => out'.b \in seen]_vars

(* Once the server writes no more, the interval it wrote last comes into    *)
(* force, although the select that waits, and at times the one after it,    *)
(* still has the old one.                                                   *)
IntervalTakesEffect == <>[](mainpc = "done" => seconds = Secs(latest[A0]))

(* Once there is a session the heartbeat goes on for ever.                  *)
HeartbeatsContinue == isSessionCreated ~> ([]<>(lpc = "beat") \/ mainpc = "dead")

(* "for now only AS and SS can be written" (uart.c:602): a write of one of  *)
(* them is carried out, and changes nothing else.                           *)
WritesCarriedOut == ppc # "write" /\ ~locked => g_ARR = latest
=============================================================================
