------------------------------ MODULE UartLink ------------------------------
(***************************************************************************)
(* The receiving side of the serial link (src/uart/uart.c): the listener   *)
(* reads into one Recv_Frame and starts a detached processor thread per    *)
(* frame with a pointer to it, not a copy.  The processor looks at the     *)
(* frame several times: to tell requests apart, to log it, to choose the   *)
(* handler, and in the handler.  What the handlers do is in the modules    *)
(* CanControl, FileDownload, FileUpload and ArrayAccess; here one handler  *)
(* sends one frame at most.  The log marks a frame as received or sent by  *)
(* the global g_oreintation, which each reading and sending sets.          *)
(***************************************************************************)
EXTENDS Naturals, Sequences, FiniteSets

CONSTANTS
  Frames,     \* bound: frames the server sends
  Sends,      \* bound: heartbeats and answers
  Kinds       \* external: the kinds it sends

ASSUME LinkAssumption ==
  /\ Frames \in Nat \ {0} /\ Sends \in Nat
  /\ Kinds \subseteq {"request", "ack", "command"}  \* an ack is RD_FILE with "OK"

(* A frame of 64 bytes as two halves.  The type and, for an ack, "OK" are   *)
(* in the first.                                                            *)
Half == [n : 1..Frames, part : {1, 2}]
Nothing == [n |-> 0, part |-> 0]
Frame(n) == <<[n |-> n, part |-> 1], [n |-> n, part |-> 2]>>

VARIABLES
  kinds,      \* the frames the server has sent, by their kinds
  line,       \* external: the halves that wait in the serial driver
  Recv_Frame, \* the listener's buffer: two halves
  lpc,        \* the listener: "select", "read" (half way), "dispatch", "beat"
  ppc,        \* ppc[p]: where the p-th processor thread is
  view,       \* view[p]: the first half as it saw it when it began to read
  started,    \* processors started
  acked,      \* acks passed on through isFileAckReceived
  g_oreintation, \* "R" or "T", by the frame received or sent last
  sends,      \* heartbeats and answers
  logged,     \* the frames of the server in the log, in order
  marks,      \* how the frames in the log are marked: those of the server, and
              \* those of the board, sent or unsent
  handled,    \* what the handlers got, in order
  inits,      \* INIT frames sent by createSession
  calm        \* history: each frame came when the one before had been handled

listener == <<lpc, sends>>
processors == <<ppc, view, started>>
log == <<g_oreintation, logged, marks>>
vars == <<kinds, line, Recv_Frame, listener, processors, acked, log, handled, inits, calm>>

Procs == 1..(2 * Frames)
sentFrames == Len(kinds)

Init ==
  /\ kinds = <<>> /\ line = <<>>
  /\ Recv_Frame = <<Nothing, Nothing>>
  /\ lpc = "select" /\ sends = 0
  /\ ppc = [p \in Procs |-> "idle"]
  /\ view = [p \in Procs |-> Nothing]
  /\ started = 0 /\ acked = 0
  /\ g_oreintation = "T"  \* main has sent INIT
  /\ logged = <<>> /\ marks = [sort \in {"received", "sent", "unsent"} |-> {}] /\ handled = <<>>
  /\ inits = 0
  /\ calm = TRUE

(* What a reader of the frame_type byte sees.  The middle of a frame, taken *)
(* for its beginning, is some frame for the processor.                      *)
KindOf(half) == IF half.part = 1 THEN kinds[half.n] ELSE "command"

(* What becomes of the marks when a frame of this sort is logged.           *)
Marked(sort) == [marks EXCEPT ![sort] = @ \cup {g_oreintation}]

Quiet == line = <<>> /\ lpc = "select" /\ \A p \in Procs : ppc[p] = "idle"

(* External: the server writes a frame, at any time. *)
Send ==
  /\ sentFrames < Frames
  /\ \E k \in Kinds : kinds' = Append(kinds, k)
  /\ line' = line \o Frame(sentFrames + 1)
  /\ calm' = (calm /\ Quiet)
  /\ UNCHANGED <<Recv_Frame, listener, processors, acked, log, handled, inits>>

-----------------------------------------------------------------------------
(* The listener *)

(* select finds input; UART_Recv reads 64 bytes into the buffer, while the  *)
(* processors read it.                                                      *)
Recv ==
  /\ lpc = "select" /\ line # <<>>
  /\ Recv_Frame' = [Recv_Frame EXCEPT ![1] = Head(line)]
  /\ line' = Tail(line)
  /\ lpc' = "read"
  /\ UNCHANGED <<kinds, sends, processors, acked, log, handled, inits, calm>>

(* Seeded fault: g_oreintation is not set. *)
RecvRestSilent ==
  /\ lpc = "read" /\ line # <<>>
  /\ Recv_Frame' = [Recv_Frame EXCEPT ![2] = Head(line)]
  /\ line' = Tail(line)
  /\ lpc' = "dispatch"
  /\ UNCHANGED <<kinds, sends, processors, acked, log, handled, inits, calm>>

RecvRest ==
  /\ lpc = "read" /\ line # <<>>
  /\ Recv_Frame' = [Recv_Frame EXCEPT ![2] = Head(line)]
  /\ line' = Tail(line)
  /\ lpc' = "dispatch"
  /\ g_oreintation' = "R"
  /\ UNCHANGED <<kinds, sends, processors, acked, logged, marks, handled, inits, calm>>

(* Seeded fault: the test for acks is left to the processor threads. *)
DispatchAcks ==
  /\ lpc = "dispatch"
  /\ lpc' = "select"
  /\ started' = started + 1
  /\ ppc' = [ppc EXCEPT ![started + 1] = "test"]
  /\ UNCHANGED <<kinds, line, Recv_Frame, sends, view, acked, log, handled, inits, calm>>

(* An ack sets the flag handleRdFile polls; anything else gets a thread. *)
Dispatch ==
  /\ lpc = "dispatch"
  /\ lpc' = "select"
  /\ IF KindOf(Recv_Frame[1]) = "ack"
     THEN acked' = acked + 1 /\ UNCHANGED <<ppc, started>>
     ELSE /\ started' = started + 1
          /\ ppc' = [ppc EXCEPT ![started + 1] = "test"]
          /\ UNCHANGED acked
  /\ UNCHANGED <<kinds, line, Recv_Frame, sends, view, log, handled, inits, calm>>

(* select times out and, if there is a session (module ArrayAccess), a      *)
(* heartbeat goes out.  The interval, 3 s at least, began when the last     *)
(* frame was passed on: its processor has logged it.                        *)
Beat ==
  /\ lpc = "select" /\ line = <<>> /\ sends < Sends
  /\ \A p \in Procs : ppc[p] \notin {"test", "log", "logrest"}
  /\ sends' = sends + 1
  /\ g_oreintation' = "T"
  /\ lpc' = "beat"
  /\ UNCHANGED <<kinds, line, Recv_Frame, processors, acked, logged, marks, handled, inits, calm>>

(* It is logged if the state is not A5A5 or a day has passed. *)
LogBeat ==
  /\ lpc = "beat"
  /\ marks' \in {marks, Marked("sent")}
  /\ lpc' = "select"
  /\ UNCHANGED <<kinds, line, Recv_Frame, sends, processors, acked, g_oreintation, logged,
                 handled, inits, calm>>

-----------------------------------------------------------------------------
(* UARTMsgProcessor *)

Goto(p, pc) == ppc' = [ppc EXCEPT ![p] = pc]

(* Seeded fault: a request is also logged and handled. *)
TestTypeLogsToo(p) ==
  /\ ppc[p] = "test"
  /\ inits' = IF KindOf(Recv_Frame[1]) = "request" THEN inits + 1 ELSE inits
  /\ Goto(p, "log")
  /\ UNCHANGED <<kinds, line, Recv_Frame, listener, view, started, acked, log, handled, calm>>

(* A request for the MAC is answered by createSession, and that is all. *)
TestType(p) ==
  /\ ppc[p] = "test"
  /\ IF KindOf(Recv_Frame[1]) = "request"
     THEN inits' = inits + 1 /\ g_oreintation' = "T" /\ Goto(p, "logsent")
     ELSE Goto(p, "log") /\ UNCHANGED <<inits, g_oreintation>>
  /\ UNCHANGED <<kinds, line, Recv_Frame, listener, view, started, acked, logged, marks, handled, calm>>

(* writeFrame2log, and then handle(), begin to read the frame ... *)
Begin(p, from, to) ==
  /\ ppc[p] = from
  /\ view' = [view EXCEPT ![p] = Recv_Frame[1]]
  /\ Goto(p, to)
  /\ UNCHANGED <<kinds, line, Recv_Frame, listener, started, acked, log, handled, inits, calm>>

BeginLog(p) == Begin(p, "log", "logrest")
BeginHandle(p) == Begin(p, "type", "data")

(* ... and read on: the rest may be of a later frame. *)
Log(p) ==
  /\ ppc[p] = "logrest"
  /\ logged' = Append(logged, <<view[p], Recv_Frame[2]>>)
  /\ marks' = Marked("received")
  /\ Goto(p, "type") /\ view' = [view EXCEPT ![p] = Nothing]
  /\ UNCHANGED <<kinds, line, Recv_Frame, listener, started, acked, g_oreintation, handled,
                 inits, calm>>

(* Seeded fault: the handler is left out. *)
HandleNothing(p) ==
  /\ ppc[p] = "data"
  /\ Goto(p, "idle")
  /\ UNCHANGED <<kinds, line, Recv_Frame, listener, view, started, acked, log, handled, inits, calm>>

(* The handler for the type that was seen copies the data.  It may then     *)
(* send an answer, or (FND_FILE, nothing found) only log one.               *)
Handle(p) ==
  /\ ppc[p] = "data"
  /\ handled' = Append(handled, <<view[p], Recv_Frame[2]>>)
  /\ view' = [view EXCEPT ![p] = Nothing]
  /\ \/ Goto(p, "idle") /\ UNCHANGED sends
     \/ \E pc \in {"send", "logunsent"} : Goto(p, pc) /\ sends < Sends /\ sends' = sends + 1
  /\ UNCHANGED <<kinds, line, Recv_Frame, lpc, started, acked, log, inits, calm>>

(* UART_Send.  The acks of an upload are not logged. *)
Answer(p) ==
  /\ ppc[p] = "send"
  /\ g_oreintation' = "T"
  /\ \E pc \in {"idle", "logsent"} : Goto(p, pc)
  /\ UNCHANGED <<kinds, line, Recv_Frame, listener, view, started, acked, logged, marks, handled, inits, calm>>

LogAnswer(p) ==
  /\ \/ ppc[p] = "logsent" /\ marks' = Marked("sent")
     \/ ppc[p] = "logunsent" /\ marks' = Marked("unsent")
  /\ Goto(p, "idle")
  /\ UNCHANGED <<kinds, line, Recv_Frame, listener, view, started, acked, g_oreintation, logged,
                 handled, inits, calm>>

-----------------------------------------------------------------------------
Listener == Recv \/ RecvRest \/ Dispatch \/ Beat \/ LogBeat
Processor(p) == TestType(p) \/ BeginLog(p) \/ Log(p) \/ BeginHandle(p) \/ Handle(p)
                \/ Answer(p) \/ LogAnswer(p)

Next == Send \/ Listener \/ \E p \in Procs : Processor(p)

Spec == Init /\ [][Next]_vars

(* The threads run; the server need not send. *)
FairSpec == Spec /\ WF_vars(Listener) /\ \A p \in Procs : WF_vars(Processor(p))

(* UART_Init sets no VMIN: a read may return the part of a frame that has   *)
(* arrived.  The length it returns is not looked at.                        *)
RecvShort ==
  /\ lpc = "read"
  /\ lpc' = "dispatch"
  /\ g_oreintation' = "R"
  /\ UNCHANGED <<kinds, line, Recv_Frame, sends, processors, acked, logged, marks, handled, inits, calm>>

(* The link with a driver that returns parts of frames. *)
ShortSpec == Init /\ [][Next \/ RecvShort]_vars

-----------------------------------------------------------------------------
(* Properties *)

(* What a processor may see as the two halves of a frame. *)
Views == (Half \cup {Nothing}) \X (Half \cup {Nothing})

(* The values of the variables; nothing is handled that was not logged      *)
(* before, and no more than was dispatched.                                 *)
TypeOK ==
  /\ kinds \in Seq(Kinds) /\ sentFrames <= Frames
  /\ line \in Seq(Half)
  /\ Recv_Frame \in [{1, 2} -> Half \cup {Nothing}]
  /\ lpc \in {"select", "read", "dispatch", "beat"} /\ sends \in 0..Sends
  /\ ppc \in [Procs -> {"idle", "test", "log", "logrest", "type", "data", "send",
                        "logsent", "logunsent"}]
  /\ view \in [Procs -> Half \cup {Nothing}]
  /\ started \in 0..(2 * Frames) /\ inits \in 0..started /\ acked \in Nat
  /\ g_oreintation \in {"R", "T"}
  /\ marks \in [{"received", "sent", "unsent"} -> SUBSET {"R", "T"}]
  /\ logged \in Seq(Views) /\ handled \in Seq(Views)
  /\ Len(handled) <= Len(logged) /\ Len(logged) + inits <= started
  /\ calm \in BOOLEAN

Among(kind, n) == Cardinality({m \in 1..n : kinds[m] = kind})

(* The first, second ... of them are the first, second ... commands sent.   *)
AreCommands(frames) ==
  \A k \in DOMAIN frames : \E n \in 1..sentFrames :
    kinds[n] = "command" /\ Among("command", n) = k /\ frames[k] = Frame(n)

(* As long as the server lets each frame be handled before it sends the     *)
(* next, the shared buffer behaves as a queue: logged and handled are the   *)
(* command frames in the order of sending, whole and once each, and the     *)
(* requests are answered (UARTMsgListener, UARTMsgProcessor).  The log      *)
(* marks them "R" and the frames sent "T", although the listener sends      *)
(* heartbeats while processors send and log (parseUartFrameForLog).         *)
QueueIfCalm ==
  calm => /\ AreCommands(logged) /\ AreCommands(handled)
          /\ Quiet => /\ Len(handled) = Among("command", sentFrames)
                      /\ inits = Among("request", sentFrames)
          /\ marks["received"] \subseteq {"R"} /\ marks["sent"] \subseteq {"T"}

(* However fast the server sends, the listener sets isFileAckReceived for   *)
(* each file ack and for nothing else: it tests the frame before it reads   *)
(* on (uart.c:1174-1178).                                                   *)
AcksReachDownload == acked = Among("ack", acked + started)

(* The last command of a burst is handled whole, whatever became of those   *)
(* before it: no older frame replaces a newer one in the buffer.            *)
NewestIsHandled ==
  \A n \in 1..Frames :
    (sentFrames = n /\ kinds[n] = "command") ~> (sentFrames > n \/ \E k \in DOMAIN handled : handled[k] = Frame(n))

(* "all interactive frames the server sends must be written to the log"     *)
(* (uart.c:1098).                                                           *)
EveryFrameLogged ==
  Quiet => \A n \in 1..sentFrames : kinds[n] = "command" => \E k \in DOMAIN logged : logged[k] = Frame(n)

(* "a frame is always 64 bytes long" (include/uart.h:4): what the listener  *)
(* dispatches is one frame of the server.                                   *)
FramesAligned == lpc = "dispatch" => \E n \in 1..sentFrames : Recv_Frame = Frame(n)

(* The log distinguishes received frames from sent ones (uart.c:384): what  *)
(* it marks as received came from the server, and what it marks as sent did *)
(* not.                                                                     *)
ReceivedMarked ==
  /\ "R" \notin marks["sent"] \cup marks["unsent"]
  /\ marks["received"] \subseteq {"R"}
=============================================================================
