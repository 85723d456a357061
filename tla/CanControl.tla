----------------------------- MODULE CanControl -----------------------------
(***************************************************************************)
(* The command path from the UART to the CAN worker threads:               *)
(* main() starts the workers (src/main.c:359-395), a frame-processor       *)
(* thread writes the control bytes of a CAN under g_mutex and broadcasts   *)
(* g_cond (src/uart/uart.c:620-639), and each worker waits on g_cond, runs *)
(* the command of its CAN and clears the mode byte (src/main.c:254-308).   *)
(* What a command does on the bus is module CanSession.                    *)
(***************************************************************************)
EXTENDS Naturals, FiniteSets

CONSTANTS
  Enabled,      \* the CANs whose device list is marked 0xff in MacStation.conf
  Procs,        \* the frame-processor threads (UARTMsgProcessor)
  Nobody,       \* no thread holds g_mutex
  NoFrame,      \* a processor that handles no frame
  NoJob,        \* a worker that runs no command
  WriteFrames,  \* the WR_ARR frames for A4 and A5 the server may send
  InitControls, \* what MacStation.conf may put in A4 and A5
  MaxPosts,     \* bound: WR_ARR frames received
  MaxSpurious   \* bound: spurious wake-ups of pthread_cond_wait

Cans  == {1, 2}
Byte  == 0..255
Bytes == 0..3      \* positions in g_ARR_A4, g_ARR_A5

STOP      == 0     \* MODE_STOP
P2P       == 15    \* MODE_P2P
BROADCAST == 255   \* MODE_BROADCAST
CallModes == {P2P, BROADCAST} \* MODE_POLL (0xf0) and unknown modes do nothing
Control   == [Bytes -> Byte]

(* A WR_ARR frame: the array named in data[0] as its CAN, data[1], data[2], *)
(* and the bytes from data[3] on.                                           *)
WriteFrame == [can : Cans, index : Byte, wr_len : 0..4, data : [3..6 -> Byte]]

ASSUME EnabledAssumption == Enabled \subseteq Cans
ASSUME FrameAssumption ==
  WriteFrames \subseteq WriteFrame /\ NoFrame \notin WriteFrame
ASSUME InitAssumption == InitControls \subseteq [Cans -> Control]
ASSUME ThreadAssumption ==
  /\ Procs \cap Cans = {}
  /\ Nobody \notin Cans \cup Procs
ASSUME JobAssumption == NoJob \notin [can : Cans, control : Control]
ASSUME BoundAssumption == MaxPosts \in Nat /\ MaxSpurious \in Nat

VARIABLES
  mainpc,   \* main: "create1", "overwrite", "run"
  args,     \* canThreadArgs, one struct on main's stack for both threads
  wpc,      \* where each worker is
  got,      \* got[w]: what worker w has read of args, 0 for not yet
  mutex,    \* the owner of g_mutex
  control,  \* control[1] is g_ARR_A4, control[2] is g_ARR_A5
  sess,     \* sess[w]: the command handleP2PAndBroadcastMode runs in worker w
  ppc,      \* where each frame processor is
  frame,    \* the frame it handles
  missed,   \* history: CANs whose last broadcast found none of their workers in cond_wait
  posts,    \* WR_ARR frames received so far
  spurious  \* spurious wake-ups so far

workerVars == <<wpc, got, sess>>
procVars == <<ppc, frame, posts>>
vars == <<mainpc, args, wpc, got, mutex, control, sess, ppc, frame, missed, posts, spurious>>

-----------------------------------------------------------------------------
(* Start-up *)

(* 0: both CANs, 1: CAN1, 2: CAN2.  Without any 0xff mark g_Can_Wrapper.flag *)
(* keeps its zero initial value.                                             *)
Flag == IF Enabled \in {Cans, {}} THEN 0 ELSE CHOOSE c \in Enabled : TRUE

Started == IF Flag = 0 THEN Cans ELSE {Flag}

Fields == {"socket_can", "which"}
First == IF Flag = 0 THEN 1 ELSE Flag

Init ==
  /\ mainpc = "create1"
  /\ args = [f \in Fields |-> First]
  /\ wpc = [w \in Cans |-> "none"]
  /\ got = [w \in Cans |-> [f \in Fields |-> 0]]
  /\ mutex = Nobody
  /\ control \in InitControls
  /\ sess = [w \in Cans |-> NoJob]
  /\ ppc = [p \in Procs |-> "idle"]
  /\ frame = [p \in Procs |-> NoFrame]
  /\ missed = Cans
  /\ posts = 0
  /\ spurious = 0

(* pthread_create of the only worker, or of the first of two. *)
CreateFirst ==
  /\ mainpc = "create1"
  /\ wpc' = [wpc EXCEPT ![First] = "start"]
  /\ mainpc' = IF Flag = 0 THEN "overwrite" ELSE "run"
  /\ UNCHANGED <<args, got, mutex, control, sess, procVars, missed, spurious>>

(* main reuses the struct for the second thread without waiting for the     *)
(* first to have read it: a data race, so the two stores may be seen in     *)
(* either order.                                                            *)
OverwriteArg(f) ==
  /\ mainpc = "overwrite"
  /\ args[f] = 1
  /\ args' = [args EXCEPT ![f] = 2]
  /\ UNCHANGED <<mainpc, workerVars, mutex, control, procVars, missed, spurious>>

CreateSecond ==
  /\ mainpc = "overwrite"
  /\ \A f \in Fields : args[f] = 2
  /\ wpc' = [wpc EXCEPT ![2] = "start"]
  /\ mainpc' = "run"
  /\ UNCHANGED <<args, got, mutex, control, sess, procVars, missed, spurious>>

-----------------------------------------------------------------------------
(* The worker thread, CanMsgListener *)

(* Seeded fault: the worker starts with only one of its arguments read. *)
TakeArgHalf(w, f) ==
  /\ wpc[w] = "start"
  /\ got[w][f] = 0
  /\ got' = [got EXCEPT ![w] = [@ EXCEPT ![f] = args[f]]]
  /\ wpc' = [wpc EXCEPT ![w] = "lock"]
  /\ UNCHANGED <<mainpc, args, mutex, control, sess, procVars, missed, spurious>>

(* int socket_can = arg->socket_can; int which = arg->which; *)
TakeArg(w, f) ==
  /\ wpc[w] = "start"
  /\ got[w][f] = 0
  /\ got' = [got EXCEPT ![w] = [@ EXCEPT ![f] = args[f]]]
  /\ wpc' = [wpc EXCEPT ![w] = IF \A g \in Fields \ {f} : got[w][g] # 0 THEN "lock" ELSE "start"]
  /\ UNCHANGED <<mainpc, args, mutex, control, sess, procVars, missed, spurious>>

Which(w) == got[w]["which"]

(* The workers that serve CAN c. *)
Servers(c) == {w \in Cans : Which(w) = c}

(* pthread_mutex_lock, then pthread_cond_wait, which gives the mutex up     *)
(* again at once: no predicate is tested before waiting.                    *)
Wait(w) ==
  /\ wpc[w] = "lock"
  /\ mutex = Nobody
  /\ wpc' = [wpc EXCEPT ![w] = "wait"]
  /\ UNCHANGED <<mainpc, args, got, mutex, control, sess, procVars, missed, spurious>>

SpuriousWake(w) ==
  /\ wpc[w] = "wait"
  /\ spurious < MaxSpurious
  /\ spurious' = spurious + 1
  /\ wpc' = [wpc EXCEPT ![w] = "relock"]
  /\ UNCHANGED <<mainpc, args, got, mutex, control, sess, procVars, missed>>

(* Seeded fault: the woken worker does not wait for the mutex. *)
RelockUnguarded(w) ==
  /\ wpc[w] = "relock"
  /\ mutex' = w
  /\ wpc' = [wpc EXCEPT ![w] = "dispatch"]
  /\ UNCHANGED <<mainpc, args, got, control, sess, procVars, missed, spurious>>

(* pthread_cond_wait returns once it owns the mutex again. *)
Relock(w) ==
  /\ wpc[w] = "relock"
  /\ mutex = Nobody
  /\ mutex' = w
  /\ wpc' = [wpc EXCEPT ![w] = "dispatch"]
  /\ UNCHANGED <<mainpc, args, got, control, sess, procVars, missed, spurious>>

(* switch(can_control[0]): two of the modes call handleP2PAndBroadcastMode. *)
Dispatch(w) ==
  /\ wpc[w] = "dispatch"
  /\ LET c == Which(w) IN
       IF control[c][0] \in CallModes
       THEN /\ sess' = [sess EXCEPT ![w] = [can |-> c, control |-> control[c]]]
            /\ wpc' = [wpc EXCEPT ![w] = "session"]
       ELSE /\ wpc' = [wpc EXCEPT ![w] = "reset"]
            /\ UNCHANGED sess
  /\ UNCHANGED <<mainpc, args, got, mutex, control, procVars, missed, spurious>>

(* handleP2PAndBroadcastMode returns; it never gave the mutex up. *)
EndSession(w) ==
  /\ wpc[w] = "session"
  /\ wpc' = [wpc EXCEPT ![w] = "reset"]
  /\ UNCHANGED <<mainpc, args, got, mutex, control, sess, procVars, missed, spurious>>

(* Seeded fault: the mode byte is left as it is. *)
ResetKeepsMode(w) ==
  /\ wpc[w] = "reset"
  /\ sess' = [sess EXCEPT ![w] = NoJob]
  /\ wpc' = [wpc EXCEPT ![w] = "unlock"]
  /\ UNCHANGED <<mainpc, args, got, mutex, control, procVars, missed, spurious>>

(* can_control[0] = 0x00, whatever the mode was. *)
Reset(w) ==
  /\ wpc[w] = "reset"
  /\ control' = [control EXCEPT ![Which(w)] = [@ EXCEPT ![0] = STOP]]
  /\ sess' = [sess EXCEPT ![w] = NoJob]
  /\ wpc' = [wpc EXCEPT ![w] = "unlock"]
  /\ UNCHANGED <<mainpc, args, got, mutex, procVars, missed, spurious>>

Unlock(w) ==
  /\ wpc[w] = "unlock"
  /\ mutex' = Nobody
  /\ wpc' = [wpc EXCEPT ![w] = "lock"]
  /\ UNCHANGED <<mainpc, args, got, control, sess, procVars, missed, spurious>>

-----------------------------------------------------------------------------
(* The frame processor, handleWrArr *)

(* UARTMsgListener hands a WR_ARR frame for A4 or A5 to a processor thread; *)
(* main starts the listener after the workers.                              *)
Receive(p, f) ==
  /\ mainpc = "run"
  /\ posts < MaxPosts
  /\ ppc[p] = "idle"
  /\ ppc' = [ppc EXCEPT ![p] = "lock"]
  /\ frame' = [frame EXCEPT ![p] = f]
  /\ posts' = posts + 1
  /\ UNCHANGED <<mainpc, args, workerVars, mutex, control, missed, spurious>>

(* Seeded fault: the array is written without taking g_mutex. *)
LockArrUnguarded(p) ==
  /\ ppc[p] = "lock"
  /\ mutex' = p
  /\ ppc' = [ppc EXCEPT ![p] = "write"]
  /\ UNCHANGED <<mainpc, args, workerVars, control, frame, posts, missed, spurious>>

LockArr(p) ==
  /\ ppc[p] = "lock"
  /\ mutex = Nobody
  /\ mutex' = p
  /\ ppc' = [ppc EXCEPT ![p] = "write"]
  /\ UNCHANGED <<mainpc, args, workerVars, control, frame, posts, missed, spurious>>

(* The bytes after the loop: wr_len is where the loop stops, not a count. *)
Written(f) ==
  [pos \in Bytes |-> IF f.index <= pos /\ pos < f.wr_len
                     THEN f.data[3 + (pos - f.index)]
                     ELSE control[f.can][pos]]

Waiting == {w \in Cans : wpc[w] = "wait"}

(* Seeded fault: g_cond is signalled, waking one waiter, not broadcast. *)
WriteArrSignal(p) ==
  /\ ppc[p] = "write"
  /\ control' = [control EXCEPT ![frame[p].can] = Written(frame[p])]
  /\ IF Waiting = {} THEN UNCHANGED wpc
     ELSE \E w \in Waiting : wpc' = [wpc EXCEPT ![w] = "relock"]
  /\ missed' = IF \E w \in Servers(frame[p].can) : wpc[w] \in {"wait", "relock"}
               THEN missed \ {frame[p].can}
               ELSE missed \cup {frame[p].can}
  /\ ppc' = [ppc EXCEPT ![p] = "unlock"]
  /\ UNCHANGED <<mainpc, args, got, mutex, sess, frame, posts, spurious>>

(* The loop and pthread_cond_broadcast(&g_cond), under the mutex. *)
WriteArr(p) ==
  /\ ppc[p] = "write"
  /\ control' = [control EXCEPT ![frame[p].can] = Written(frame[p])]
  /\ wpc' = [w \in Cans |-> IF wpc[w] = "wait" THEN "relock" ELSE wpc[w]]
  /\ missed' = IF \E w \in Servers(frame[p].can) : wpc[w] \in {"wait", "relock"}
               THEN missed \ {frame[p].can}
               ELSE missed \cup {frame[p].can}
  /\ ppc' = [ppc EXCEPT ![p] = "unlock"]
  /\ UNCHANGED <<mainpc, args, got, mutex, sess, frame, posts, spurious>>

(* Seeded fault: the processor returns with the mutex held. *)
UnlockArrForgotten(p) ==
  /\ ppc[p] = "unlock"
  /\ ppc' = [ppc EXCEPT ![p] = "idle"]
  /\ frame' = [frame EXCEPT ![p] = NoFrame]
  /\ UNCHANGED <<mainpc, args, workerVars, mutex, control, posts, missed, spurious>>

UnlockArr(p) ==
  /\ ppc[p] = "unlock"
  /\ mutex' = Nobody
  /\ ppc' = [ppc EXCEPT ![p] = "idle"]
  /\ frame' = [frame EXCEPT ![p] = NoFrame]
  /\ UNCHANGED <<mainpc, args, workerVars, control, posts, missed, spurious>>

-----------------------------------------------------------------------------
MainStep == CreateFirst \/ CreateSecond \/ \E f \in Fields : OverwriteArg(f)

WorkerStep(w) ==
  \/ \E f \in Fields : TakeArg(w, f)
  \/ Wait(w) \/ Relock(w) \/ Dispatch(w) \/ EndSession(w) \/ Reset(w) \/ Unlock(w)

ProcStep(p) == LockArr(p) \/ WriteArr(p) \/ UnlockArr(p)

Next ==
  \/ MainStep
  \/ \E w \in Cans : WorkerStep(w) \/ SpuriousWake(w)
  \/ \E p \in Procs : ProcStep(p) \/ \E f \in WriteFrames : Receive(p, f)

Spec == Init /\ [][Next]_vars

(* Every thread that can run is run; the server need not send anything and  *)
(* a spurious wake-up need not happen.                                      *)
FairSpec ==
  /\ Spec
  /\ WF_vars(MainStep)
  /\ \A w \in Cans : WF_vars(WorkerStep(w))
  /\ \A p \in Procs : WF_vars(ProcStep(p))
-----------------------------------------------------------------------------
(* Properties *)

WorkerPcs == {"none", "start", "lock", "wait", "relock", "dispatch", "session", "reset", "unlock"}

Critical == {"dispatch", "session", "reset", "unlock"}

(* The values of the variables; and a worker past its first two reads of    *)
(* canThreadArgs has read both fields.                                      *)
TypeOK ==
  /\ mainpc \in {"create1", "overwrite", "run"}
  /\ args \in [Fields -> Cans]
  /\ wpc \in [Cans -> WorkerPcs]
  /\ got \in [Cans -> [Fields -> Cans \cup {0}]]
  /\ \A w \in Cans : wpc[w] \notin {"none", "start"} => \A f \in Fields : got[w][f] \in Cans
  /\ mutex \in Cans \cup Procs \cup {Nobody}
  /\ control \in [Cans -> Control]
  /\ sess \in [Cans -> [can : Cans, control : Control] \cup {NoJob}]
  /\ ppc \in [Procs -> {"idle", "lock", "write", "unlock"}]
  /\ frame \in [Procs -> WriteFrames \cup {NoFrame}]
  /\ \A p \in Procs : ppc[p] # "idle" => frame[p] \in WriteFrames
  /\ missed \subseteq Cans
  /\ posts \in 0..MaxPosts
  /\ spurious \in 0..MaxSpurious

(* g_mutex: a thread is between lock and unlock exactly when it is the      *)
(* owner, so that no two of the workers and writers ever are, whatever      *)
(* wake-ups cond_wait delivers.                                             *)
MutualExclusion ==
  /\ \A w \in Cans : wpc[w] \in Critical <=> mutex = w
  /\ \A p \in Procs : ppc[p] \in {"write", "unlock"} <=> mutex = p

(* While handleP2PAndBroadcastMode runs (it reads can_control at            *)
(* can.c:425-428 and the caller keeps the pointer for the reset), the       *)
(* control bytes of its CAN are the ones it was called with, and no other   *)
(* command runs.                                                            *)
SessionParamsStable ==
  \A w \in Cans : sess[w] # NoJob =>
    /\ wpc[w] \in {"session", "reset"}
    /\ sess[w].can = Which(w)
    /\ control[sess[w].can] = sess[w].control
    /\ sess[w].control[0] \in CallModes
    /\ \A v \in Cans \ {w} : sess[v] = NoJob

(* A command whose broadcast found a worker of its CAN in pthread_cond_wait *)
(* is pending only as long as such a worker is on its way to it: woken, or  *)
(* inside the critical section before the reset.                            *)
NoWakeupLost ==
  \A c \in Cans : (control[c][0] # STOP /\ c \notin missed) =>
    \E w \in Servers(c) : wpc[w] \in {"relock", "dispatch", "session", "reset"}

(* The threads implement the slots and jobs of CommandSlots. *)
Slots == INSTANCE CommandSlots WITH
  Workers <- Cans, Controls <- Control, EmptyMode <- STOP, slot <- control, job <- sess

ImplementsSlots == Slots!Spec

(* A command whose broadcast found its worker waiting is run or overwritten *)
(* by a post that was missed: it does not stay pending for ever.            *)
SignalledCommandServed ==
  \A c \in Cans :
    (control[c][0] # STOP /\ c \notin missed) ~> (control[c][0] = STOP \/ c \in missed)

(* A WR_ARR frame is written although the writer has to wait for whole CAN  *)
(* sessions of other threads.                                               *)
WriterProceeds == \A p \in Procs : ppc[p] = "lock" ~> ppc[p] = "idle"

(* "wake up the CAN's worker thread" (src/uart/uart.c:626): a command       *)
(* written to a served CAN is taken up.                                     *)
PostedCommandServed ==
  \A c \in Started : control[c][0] # STOP ~> control[c][0] = STOP

(* "flag: 0: both CANs are started; 1: CAN1; 2: CAN2" (include/can.h:13):   *)
(* once the workers have read their arguments, each started CAN has the     *)
(* worker, and the worker the socket, that belong to it.                    *)
EachCanHasItsWorker ==
  (mainpc = "run" /\ \A w \in Cans : wpc[w] \notin {"start"}) =>
    \A c \in Started : \E w \in Cans : got[w] = [f \in Fields |-> c]
=============================================================================
