-------------------------- MODULE CanControlProofs --------------------------
(***************************************************************************)
(* Proofs about CanControl: the type invariant, mutual exclusion, that a   *)
(* session's control bytes are stable, that a broadcast which found its    *)
(* worker waiting is never lost, and that the threads implement the slots  *)
(* of CommandSlots.                                                        *)
(***************************************************************************)
EXTENDS CanControl, TLAPS

USE DEF Cans, Fields

LEMMA FirstIsCan == First \in Cans
<1>1. CASE Enabled \in {Cans, {}}
  BY <1>1 DEF First, Flag
<1>2. CASE Enabled \notin {Cans, {}}
  <2>1. (CHOOSE c \in Enabled : TRUE) \in Enabled
    BY <1>2
  <2>2. Flag \in Cans
    BY <1>2, <2>1, EnabledAssumption DEF Flag
  <2> QED BY <2>2 DEF First
<1> QED BY <1>1, <1>2

LEMMA FlagZeroFirst == Flag = 0 => First = 1
  BY DEF First

(* The loop of handleWrArr leaves bytes in the array. *)
LEMMA WrittenIsControl ==
  ASSUME NEW f \in WriteFrames, control \in [Cans -> Control]
  PROVE  Written(f) \in Control
<1>1. f \in WriteFrame
  BY FrameAssumption
<1>2. SUFFICES ASSUME NEW pos \in Bytes
               PROVE  (IF f.index <= pos /\ pos < f.wr_len
                       THEN f.data[3 + (pos - f.index)]
                       ELSE control[f.can][pos]) \in Byte
  BY DEF Written, Control
<1>3. CASE f.index <= pos /\ pos < f.wr_len
  <2>1. 3 + (pos - f.index) \in 3..6
    BY <1>1, <1>3 DEF WriteFrame, Byte, Bytes
  <2> QED BY <1>1, <1>3, <2>1 DEF WriteFrame
<1>4. CASE ~(f.index <= pos /\ pos < f.wr_len)
  BY <1>1, <1>4 DEF WriteFrame, Control
<1> QED BY <1>3, <1>4

LEMMA ResetIsControl ==
  ASSUME NEW v \in Control
  PROVE  /\ [v EXCEPT ![0] = STOP] \in Control
         /\ [v EXCEPT ![0] = STOP][0] = STOP
<1>1. 0 \in Bytes /\ STOP \in Byte
  BY DEF Bytes, STOP, Byte
<1> QED BY <1>1 DEF Control

(* Every variable keeps its type, and no worker runs before it has read     *)
(* both fields of canThreadArgs (main.c:256-258).                           *)
THEOREM TypeCorrect == Spec => []TypeOK
<1>1. Init => TypeOK
  BY FirstIsCan, InitAssumption, BoundAssumption, ThreadAssumption DEF Init, TypeOK, WorkerPcs
<1>2. TypeOK /\ [Next]_vars => TypeOK'
  <2> SUFFICES ASSUME TypeOK, [Next]_vars PROVE TypeOK'
    OBVIOUS
  <2> USE DEF TypeOK, WorkerPcs
  <2>1. CASE CreateFirst
    BY <2>1, FirstIsCan DEF CreateFirst, procVars
  <2>2. CASE CreateSecond
    BY <2>2 DEF CreateSecond, procVars
  <2>3. ASSUME NEW f \in Fields, OverwriteArg(f) PROVE TypeOK'
    BY <2>3 DEF OverwriteArg, procVars, workerVars
  <2>4. ASSUME NEW w \in Cans, NEW f \in Fields, TakeArg(w, f) PROVE TypeOK'
    BY <2>4 DEF TakeArg, procVars
  <2>5. ASSUME NEW w \in Cans, Wait(w) PROVE TypeOK'
    BY <2>5 DEF Wait, procVars
  <2>6. ASSUME NEW w \in Cans, Relock(w) PROVE TypeOK'
    BY <2>6 DEF Relock, procVars
  <2>7. ASSUME NEW w \in Cans, Dispatch(w) PROVE TypeOK'
    <3>1. control[Which(w)] \in Control /\ Which(w) \in Cans
      BY <2>7 DEF Dispatch, Which
    <3> QED BY <2>7, <3>1 DEF Dispatch, procVars
  <2>8. ASSUME NEW w \in Cans, EndSession(w) PROVE TypeOK'
    BY <2>8 DEF EndSession, procVars
  <2>9. ASSUME NEW w \in Cans, Reset(w) PROVE TypeOK'
    <3>1. control[Which(w)] \in Control /\ Which(w) \in Cans
      BY <2>9 DEF Reset, Which
    <3>2. [control[Which(w)] EXCEPT ![0] = STOP] \in Control
      BY <3>1, ResetIsControl
    <3>3. control' \in [Cans -> Control]
      BY <2>9, <3>1, <3>2 DEF Reset
    <3> QED BY <2>9, <3>3 DEF Reset, procVars
  <2>10. ASSUME NEW w \in Cans, Unlock(w) PROVE TypeOK'
    BY <2>10 DEF Unlock, procVars
  <2>11. ASSUME NEW w \in Cans, SpuriousWake(w) PROVE TypeOK'
    BY <2>11, BoundAssumption DEF SpuriousWake, procVars
  <2>12. ASSUME NEW p \in Procs, LockArr(p) PROVE TypeOK'
    BY <2>12 DEF LockArr, workerVars
  <2>13. ASSUME NEW p \in Procs, WriteArr(p) PROVE TypeOK'
    <3>1. frame[p] \in WriteFrames /\ frame[p].can \in Cans
      BY <2>13, FrameAssumption DEF WriteArr, WriteFrame
    <3>2. Written(frame[p]) \in Control
      BY <3>1, WrittenIsControl
    <3>3. control' \in [Cans -> Control] /\ missed' \subseteq Cans
      BY <2>13, <3>1, <3>2 DEF WriteArr
    <3> QED BY <2>13, <3>3 DEF WriteArr
  <2>14. ASSUME NEW p \in Procs, UnlockArr(p) PROVE TypeOK'
    BY <2>14 DEF UnlockArr, workerVars
  <2>15. ASSUME NEW p \in Procs, NEW f \in WriteFrames, Receive(p, f) PROVE TypeOK'
    BY <2>15, BoundAssumption DEF Receive, workerVars
  <2>16. CASE UNCHANGED vars
    BY <2>16 DEF vars
  <2> QED
    BY <2>1, <2>2, <2>3, <2>4, <2>5, <2>6, <2>7, <2>8, <2>9, <2>10, <2>11, <2>12, <2>13,
       <2>14, <2>15, <2>16 DEF Next, MainStep, WorkerStep, ProcStep
<1> QED BY <1>1, <1>2, PTL DEF Spec

(* Before main creates a thread the thread is not running (main.c:376-395). *)
StartOrder ==
  /\ mainpc = "create1" => \A w \in Cans : wpc[w] = "none"
  /\ mainpc = "overwrite" => wpc[2] = "none" /\ First = 1

LEMMA StartsInOrder == Spec => []StartOrder
<1>1. Init => StartOrder
  BY DEF Init, StartOrder
<1>2. TypeOK /\ StartOrder /\ [Next]_vars => StartOrder'
  <2> SUFFICES ASSUME TypeOK, StartOrder, [Next]_vars PROVE StartOrder'
    OBVIOUS
  <2>0. First' = First
    BY DEF First, Flag
  <2> USE <2>0 DEF StartOrder, TypeOK, WorkerPcs
  <2>1. CASE CreateFirst
    BY <2>1, FirstIsCan, FlagZeroFirst DEF CreateFirst, procVars
  <2>2. CASE CreateSecond
    BY <2>2 DEF CreateSecond, procVars
  <2>3. ASSUME NEW f \in Fields, OverwriteArg(f) PROVE StartOrder'
    BY <2>3 DEF OverwriteArg, procVars, workerVars
  <2>4. ASSUME NEW w \in Cans, NEW f \in Fields, TakeArg(w, f) PROVE StartOrder'
    BY <2>4 DEF TakeArg, procVars
  <2>5. ASSUME NEW w \in Cans, Wait(w) PROVE StartOrder'
    BY <2>5 DEF Wait, procVars
  <2>6. ASSUME NEW w \in Cans, Relock(w) PROVE StartOrder'
    BY <2>6 DEF Relock, procVars
  <2>7. ASSUME NEW w \in Cans, Dispatch(w) PROVE StartOrder'
    BY <2>7 DEF Dispatch, procVars
  <2>8. ASSUME NEW w \in Cans, EndSession(w) PROVE StartOrder'
    BY <2>8 DEF EndSession, procVars
  <2>9. ASSUME NEW w \in Cans, Reset(w) PROVE StartOrder'
    BY <2>9 DEF Reset, procVars
  <2>10. ASSUME NEW w \in Cans, Unlock(w) PROVE StartOrder'
    BY <2>10 DEF Unlock, procVars
  <2>11. ASSUME NEW w \in Cans, SpuriousWake(w) PROVE StartOrder'
    BY <2>11 DEF SpuriousWake, procVars
  <2>12. ASSUME NEW p \in Procs, LockArr(p) PROVE StartOrder'
    BY <2>12 DEF LockArr, workerVars
  <2>13. ASSUME NEW p \in Procs, WriteArr(p) PROVE StartOrder'
    BY <2>13 DEF WriteArr
  <2>14. ASSUME NEW p \in Procs, UnlockArr(p) PROVE StartOrder'
    BY <2>14 DEF UnlockArr, workerVars
  <2>15. ASSUME NEW p \in Procs, NEW f \in WriteFrames, Receive(p, f) PROVE StartOrder'
    BY <2>15 DEF Receive, workerVars
  <2>16. CASE UNCHANGED vars
    BY <2>16 DEF vars
  <2> QED
    BY <2>1, <2>2, <2>3, <2>4, <2>5, <2>6, <2>7, <2>8, <2>9, <2>10, <2>11, <2>12, <2>13,
       <2>14, <2>15, <2>16 DEF Next, MainStep, WorkerStep, ProcStep
<1> QED BY <1>1, <1>2, TypeCorrect, PTL DEF Spec

(* A thread is inside its critical section exactly when it owns g_mutex,    *)
(* so no session overlaps another or a write of the control bytes           *)
(* (main.c:265-306, uart.c:621-628).                                        *)
THEOREM CriticalSectionsExclude == Spec => []MutualExclusion
<1>1. Init => MutualExclusion
  BY ThreadAssumption DEF Init, MutualExclusion, Critical
<1>2. TypeOK /\ StartOrder /\ MutualExclusion /\ [Next]_vars => MutualExclusion'
  <2> SUFFICES ASSUME TypeOK, StartOrder, MutualExclusion, [Next]_vars PROVE MutualExclusion'
    OBVIOUS
  <2> USE ThreadAssumption DEF MutualExclusion, Critical, TypeOK, WorkerPcs
  <2>1. CASE CreateFirst
    BY <2>1, FirstIsCan DEF CreateFirst, procVars, StartOrder
  <2>2. CASE CreateSecond
    BY <2>2 DEF CreateSecond, procVars, StartOrder
  <2>3. ASSUME NEW f \in Fields, OverwriteArg(f) PROVE MutualExclusion'
    BY <2>3 DEF OverwriteArg, procVars, workerVars
  <2>4. ASSUME NEW w \in Cans, NEW f \in Fields, TakeArg(w, f) PROVE MutualExclusion'
    BY <2>4 DEF TakeArg, procVars
  <2>5. ASSUME NEW w \in Cans, Wait(w) PROVE MutualExclusion'
    BY <2>5 DEF Wait, procVars
  <2>6. ASSUME NEW w \in Cans, Relock(w) PROVE MutualExclusion'
    BY <2>6 DEF Relock, procVars
  <2>7. ASSUME NEW w \in Cans, Dispatch(w) PROVE MutualExclusion'
    BY <2>7 DEF Dispatch, procVars
  <2>8. ASSUME NEW w \in Cans, EndSession(w) PROVE MutualExclusion'
    BY <2>8 DEF EndSession, procVars
  <2>9. ASSUME NEW w \in Cans, Reset(w) PROVE MutualExclusion'
    BY <2>9 DEF Reset, procVars
  <2>10. ASSUME NEW w \in Cans, Unlock(w) PROVE MutualExclusion'
    BY <2>10 DEF Unlock, procVars
  <2>11. ASSUME NEW w \in Cans, SpuriousWake(w) PROVE MutualExclusion'
    BY <2>11 DEF SpuriousWake, procVars
  <2>12. ASSUME NEW p \in Procs, LockArr(p) PROVE MutualExclusion'
    BY <2>12 DEF LockArr, workerVars
  <2>13. ASSUME NEW p \in Procs, WriteArr(p) PROVE MutualExclusion'
    BY <2>13 DEF WriteArr
  <2>14. ASSUME NEW p \in Procs, UnlockArr(p) PROVE MutualExclusion'
    BY <2>14 DEF UnlockArr, workerVars
  <2>15. ASSUME NEW p \in Procs, NEW f \in WriteFrames, Receive(p, f) PROVE MutualExclusion'
    BY <2>15 DEF Receive, workerVars
  <2>16. CASE UNCHANGED vars
    BY <2>16 DEF vars
  <2> QED
    BY <2>1, <2>2, <2>3, <2>4, <2>5, <2>6, <2>7, <2>8, <2>9, <2>10, <2>11, <2>12, <2>13,
       <2>14, <2>15, <2>16 DEF Next, MainStep, WorkerStep, ProcStep
<1> QED BY <1>1, <1>2, TypeCorrect, StartsInOrder, PTL DEF Spec

(* What a worker does between dispatch and reset, strengthened: a session   *)
(* has a job, and a worker about to reset without one found a mode that     *)
(* calls no device.                                                         *)
SessionInv ==
  /\ SessionParamsStable
  /\ \A w \in Cans :
       /\ wpc[w] = "session" => sess[w] # NoJob
       /\ wpc[w] = "reset" /\ sess[w] = NoJob => control[Which(w)][0] \notin CallModes

LEMMA SessionInvariant == Spec => []SessionInv
<1>1. Init => SessionInv
  BY DEF Init, SessionInv, SessionParamsStable
<1>2. TypeOK /\ StartOrder /\ MutualExclusion /\ SessionInv /\ [Next]_vars => SessionInv'
  <2> SUFFICES ASSUME TypeOK, StartOrder, MutualExclusion, SessionInv, [Next]_vars
               PROVE  SessionInv'
    OBVIOUS
  <2> USE ThreadAssumption DEF SessionInv, SessionParamsStable, MutualExclusion, Critical,
        TypeOK, WorkerPcs, Which
  <2>1. CASE CreateFirst
    BY <2>1, FirstIsCan DEF CreateFirst, procVars, StartOrder
  <2>2. CASE CreateSecond
    BY <2>2 DEF CreateSecond, procVars, StartOrder
  <2>3. ASSUME NEW f \in Fields, OverwriteArg(f) PROVE SessionInv'
    BY <2>3 DEF OverwriteArg, procVars, workerVars
  <2>4. ASSUME NEW w \in Cans, NEW f \in Fields, TakeArg(w, f) PROVE SessionInv'
    BY <2>4 DEF TakeArg, procVars
  <2>5. ASSUME NEW w \in Cans, Wait(w) PROVE SessionInv'
    BY <2>5 DEF Wait, procVars
  <2>6. ASSUME NEW w \in Cans, Relock(w) PROVE SessionInv'
    BY <2>6 DEF Relock, procVars
  <2>7. ASSUME NEW w \in Cans, Dispatch(w) PROVE SessionInv'
    <3>1. \A v \in Cans : sess[v] = NoJob
      BY <2>7 DEF Dispatch
    <3>2. Which(w) \in Cans /\ control[Which(w)] \in Control
      BY <2>7 DEF Dispatch
    <3>3. CASE control[Which(w)][0] \in CallModes
      <4>1. [can |-> Which(w), control |-> control[Which(w)]] # NoJob
        BY <3>2, JobAssumption
      <4> QED BY <2>7, <3>1, <3>3, <4>1 DEF Dispatch, procVars
    <3>4. CASE control[Which(w)][0] \notin CallModes
      BY <2>7, <3>1, <3>4 DEF Dispatch, procVars
    <3> QED BY <3>3, <3>4
  <2>8. ASSUME NEW w \in Cans, EndSession(w) PROVE SessionInv'
    BY <2>8 DEF EndSession, procVars
  <2>9. ASSUME NEW w \in Cans, Reset(w) PROVE SessionInv'
    <3>1. \A v \in Cans \ {w} : wpc[v] \notin Critical
      BY <2>9 DEF Reset
    <3> QED BY <2>9, <3>1 DEF Reset, procVars
  <2>10. ASSUME NEW w \in Cans, Unlock(w) PROVE SessionInv'
    BY <2>10 DEF Unlock, procVars
  <2>11. ASSUME NEW w \in Cans, SpuriousWake(w) PROVE SessionInv'
    BY <2>11 DEF SpuriousWake, procVars
  <2>12. ASSUME NEW p \in Procs, LockArr(p) PROVE SessionInv'
    BY <2>12 DEF LockArr, workerVars
  <2>13. ASSUME NEW p \in Procs, WriteArr(p) PROVE SessionInv'
    <3>1. \A w \in Cans : wpc[w] \notin Critical
      BY <2>13 DEF WriteArr
    <3>2. \A w \in Cans : sess[w] = NoJob
      BY <3>1
    <3> QED BY <2>13, <3>1, <3>2 DEF WriteArr
  <2>14. ASSUME NEW p \in Procs, UnlockArr(p) PROVE SessionInv'
    BY <2>14 DEF UnlockArr, workerVars
  <2>15. ASSUME NEW p \in Procs, NEW f \in WriteFrames, Receive(p, f) PROVE SessionInv'
    BY <2>15 DEF Receive, workerVars
  <2>16. CASE UNCHANGED vars
    BY <2>16 DEF vars
  <2> QED
    BY <2>1, <2>2, <2>3, <2>4, <2>5, <2>6, <2>7, <2>8, <2>9, <2>10, <2>11, <2>12, <2>13,
       <2>14, <2>15, <2>16 DEF Next, MainStep, WorkerStep, ProcStep
<1> QED BY <1>1, <1>2, TypeCorrect, StartsInOrder, CriticalSectionsExclude, PTL DEF Spec

(* A session's control bytes are the ones it was called with until the      *)
(* worker itself clears the mode (main.c:290, 297, 304).                    *)
THEOREM SessionsAreStable == Spec => []SessionParamsStable
BY SessionInvariant, PTL DEF SessionInv

(* A command whose broadcast found a worker of its CAN in cond_wait stays   *)
(* pending only while such a worker is on its way to it (uart.c:627).       *)
THEOREM WakeupsAreNotLost == Spec => []NoWakeupLost
<1>1. Init => NoWakeupLost
  BY DEF Init, NoWakeupLost
<1>2. TypeOK /\ StartOrder /\ MutualExclusion /\ NoWakeupLost /\ [Next]_vars => NoWakeupLost'
  <2> SUFFICES ASSUME TypeOK, StartOrder, MutualExclusion, NoWakeupLost, [Next]_vars
               PROVE  NoWakeupLost'
    OBVIOUS
  <2> USE DEF NoWakeupLost, Servers, Which, MutualExclusion, Critical, TypeOK, WorkerPcs
  <2>1. CASE CreateFirst
    BY <2>1, FirstIsCan DEF CreateFirst, procVars, StartOrder
  <2>2. CASE CreateSecond
    BY <2>2 DEF CreateSecond, procVars, StartOrder
  <2>3. ASSUME NEW f \in Fields, OverwriteArg(f) PROVE NoWakeupLost'
    BY <2>3 DEF OverwriteArg, procVars, workerVars
  <2>4. ASSUME NEW w \in Cans, NEW f \in Fields, TakeArg(w, f) PROVE NoWakeupLost'
    BY <2>4 DEF TakeArg, procVars
  <2>5. ASSUME NEW w \in Cans, Wait(w) PROVE NoWakeupLost'
    BY <2>5 DEF Wait, procVars
  <2>6. ASSUME NEW w \in Cans, Relock(w) PROVE NoWakeupLost'
    BY <2>6 DEF Relock, procVars
  <2>7. ASSUME NEW w \in Cans, Dispatch(w) PROVE NoWakeupLost'
    BY <2>7 DEF Dispatch, procVars
  <2>8. ASSUME NEW w \in Cans, EndSession(w) PROVE NoWakeupLost'
    BY <2>8 DEF EndSession, procVars
  <2>9. ASSUME NEW w \in Cans, Reset(w) PROVE NoWakeupLost'
    <3>1. Which(w) \in Cans /\ control[Which(w)] \in Control
      BY <2>9 DEF Reset
    <3>2. control' = [control EXCEPT ![Which(w)] = [control[Which(w)] EXCEPT ![0] = STOP]]
      BY <2>9 DEF Reset
    <3>3. control'[Which(w)][0] = STOP
      BY <3>1, <3>2, ResetIsControl
    <3> QED BY <2>9, <3>1, <3>2, <3>3 DEF Reset, procVars
  <2>10. ASSUME NEW w \in Cans, Unlock(w) PROVE NoWakeupLost'
    BY <2>10 DEF Unlock, procVars
  <2>11. ASSUME NEW w \in Cans, SpuriousWake(w) PROVE NoWakeupLost'
    BY <2>11 DEF SpuriousWake, procVars
  <2>12. ASSUME NEW p \in Procs, LockArr(p) PROVE NoWakeupLost'
    BY <2>12 DEF LockArr, workerVars
  <2>13. ASSUME NEW p \in Procs, WriteArr(p) PROVE NoWakeupLost'
    <3>1. frame[p].can \in Cans
      BY <2>13, FrameAssumption DEF WriteArr, WriteFrame
    <3> SUFFICES ASSUME NEW c \in Cans, control'[c][0] # STOP, c \notin missed'
                 PROVE  \E w \in Servers(c)' : wpc'[w] \in {"relock", "dispatch", "session", "reset"}
      OBVIOUS
    <3>2. CASE c = frame[p].can
      BY <2>13, <3>1, <3>2 DEF WriteArr
    <3>3. CASE c # frame[p].can
      <4>1. control[c][0] # STOP /\ c \notin missed
        BY <2>13, <3>1, <3>3 DEF WriteArr
      <4> QED BY <2>13, <4>1 DEF WriteArr
    <3> QED BY <3>2, <3>3
  <2>14. ASSUME NEW p \in Procs, UnlockArr(p) PROVE NoWakeupLost'
    BY <2>14 DEF UnlockArr, workerVars
  <2>15. ASSUME NEW p \in Procs, NEW f \in WriteFrames, Receive(p, f) PROVE NoWakeupLost'
    BY <2>15 DEF Receive, workerVars
  <2>16. CASE UNCHANGED vars
    BY <2>16 DEF vars
  <2> QED
    BY <2>1, <2>2, <2>3, <2>4, <2>5, <2>6, <2>7, <2>8, <2>9, <2>10, <2>11, <2>12, <2>13,
       <2>14, <2>15, <2>16 DEF Next, MainStep, WorkerStep, ProcStep
<1> QED BY <1>1, <1>2, TypeCorrect, StartsInOrder, CriticalSectionsExclude, PTL DEF Spec

(* Every step of the threads is a step of the slots and jobs of             *)
(* CommandSlots or leaves them alone: a command runs with the bytes last    *)
(* posted and its slot is emptied by the worker that ran it.                *)
THEOREM ThreadsImplementSlots == Spec => ImplementsSlots
<1>1. Init => Slots!Init
  BY InitAssumption DEF Init, Slots!Init
<1>2. TypeOK /\ MutualExclusion /\ SessionInv /\ [Next]_vars
        => [Slots!Next]_<<control, sess>>
  <2> SUFFICES ASSUME TypeOK, MutualExclusion, SessionInv, [Next]_vars,
                      ~UNCHANGED <<control, sess>>
               PROVE  Slots!Next
    OBVIOUS
  <2>1. ASSUME NEW w \in Cans, Dispatch(w) PROVE Slots!Next
    <3> DEFINE c == Which(w)
    <3>1. c \in Cans
      BY <2>1 DEF Dispatch, Which, TypeOK
    <3>2. control[c][0] \in CallModes /\ sess' = [sess EXCEPT ![w] = [can |-> c, control |-> control[c]]]
      BY <2>1 DEF Dispatch
    <3>3. \A v \in Cans : sess[v] = NoJob
      BY <2>1, ThreadAssumption
      DEF Dispatch, SessionInv, SessionParamsStable, MutualExclusion, Critical, TypeOK
    <3>4. Slots!Take(w, c)
      BY <2>1, <3>2, <3>3 DEF Dispatch, Slots!Take, Slots!Idle
    <3> QED BY <3>1, <3>4 DEF Slots!Next
  <2>2. ASSUME NEW w \in Cans, Reset(w) PROVE Slots!Next
    <3> DEFINE c == Which(w)
    <3>1. c \in Cans
      BY <2>2 DEF Reset, Which, TypeOK
    <3>2. control' = Slots!Emptied(c) /\ sess' = [sess EXCEPT ![w] = NoJob]
      BY <2>2 DEF Reset, Slots!Emptied
    <3>3. CASE sess[w] # NoJob
      <4>1. sess[w].can = c /\ control[c] = sess[w].control
        BY <3>3 DEF SessionInv, SessionParamsStable
      <4>2. Slots!Finish(w)
        BY <3>2, <3>3, <4>1 DEF Slots!Finish
      <4> QED BY <4>2 DEF Slots!Next
    <3>4. CASE sess[w] = NoJob
      <4>1. control[c][0] \notin CallModes
        BY <2>2, <3>4 DEF Reset, SessionInv
      <4>2. \A v \in Cans : sess[v] = NoJob
        BY <2>2, <3>4, ThreadAssumption
        DEF Reset, SessionInv, SessionParamsStable, MutualExclusion, Critical, TypeOK
      <4>3. sess' = sess
        BY <3>2, <3>4 DEF TypeOK
      <4>4. Slots!Discard(c)
        BY <3>2, <4>1, <4>2, <4>3 DEF Slots!Discard, Slots!Idle
      <4> QED BY <3>1, <4>4 DEF Slots!Next
    <3> QED BY <3>3, <3>4
  <2>3. ASSUME NEW p \in Procs, WriteArr(p) PROVE Slots!Next
    <3> DEFINE c == frame[p].can
    <3>1. frame[p] \in WriteFrames /\ c \in Cans
      BY <2>3, FrameAssumption DEF WriteArr, TypeOK, WriteFrame
    <3>2. control' = [control EXCEPT ![c] = Written(frame[p])] /\ sess' = sess
      BY <2>3 DEF WriteArr
    <3>3. Written(frame[p]) \in Control
      BY <3>1, WrittenIsControl DEF TypeOK
    <3>4. \A v \in Cans : sess[v] = NoJob
      BY <2>3, ThreadAssumption
      DEF WriteArr, SessionInv, SessionParamsStable, MutualExclusion, Critical, TypeOK
    <3>5. control'[c] = Written(frame[p])
      BY <3>1, <3>2 DEF TypeOK
    <3>6. Slots!Post(c)
      BY <3>2, <3>3, <3>4, <3>5 DEF Slots!Post, Slots!Idle
    <3> QED BY <3>1, <3>6 DEF Slots!Next
  <2>4. \/ \E w \in Cans : Dispatch(w) \/ Reset(w)
        \/ \E p \in Procs : WriteArr(p)
    BY DEF Next, MainStep, WorkerStep, ProcStep, CreateFirst, CreateSecond, OverwriteArg,
           TakeArg, Wait, Relock, EndSession, Unlock, SpuriousWake, LockArr, UnlockArr,
           Receive, vars, workerVars, procVars
  <2> QED BY <2>1, <2>2, <2>3, <2>4
<1> QED BY <1>1, <1>2, TypeCorrect, CriticalSectionsExclude, SessionInvariant, PTL
    DEF Spec, ImplementsSlots, Slots!Spec
=============================================================================
