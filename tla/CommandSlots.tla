---------------------------- MODULE CommandSlots ----------------------------
(***************************************************************************)
(* What the CAN command path promises, without threads, mutex or condition *)
(* variable: per CAN one slot of control bytes (g_ARR_A4, g_ARR_A5), byte  *)
(* 0 the mode, that the server overwrites, and workers that run one        *)
(* command at a time.  A command runs with the bytes last posted, nothing  *)
(* is posted while it runs, and a slot is emptied either by the worker     *)
(* that ran it or because its mode calls no device.                        *)
(***************************************************************************)
CONSTANTS
  Cans,      \* the CAN buses
  Workers,   \* the threads that serve them
  Controls,  \* the values of a slot
  CallModes, \* the modes that call devices
  EmptyMode, \* the mode of an emptied slot
  NoJob      \* "this worker runs nothing"

VARIABLES
  slot, \* slot[c]: the control bytes of CAN c
  job   \* job[w]: [can, control] of the command worker w runs, or NoJob

Idle == \A w \in Workers : job[w] = NoJob

Emptied(c) == [slot EXCEPT ![c] = [@ EXCEPT ![0] = EmptyMode]]

(* The server posts control bytes for a CAN. *)
Post(c) ==
  /\ Idle
  /\ slot'[c] \in Controls
  /\ slot' = [slot EXCEPT ![c] = slot'[c]]
  /\ UNCHANGED job

(* A worker takes up a command that calls devices. *)
Take(w, c) ==
  /\ Idle
  /\ slot[c][0] \in CallModes
  /\ job' = [job EXCEPT ![w] = [can |-> c, control |-> slot[c]]]
  /\ UNCHANGED slot

(* The worker has run the command: only now is the slot emptied. *)
Finish(w) ==
  /\ job[w] # NoJob
  /\ slot[job[w].can] = job[w].control
  /\ slot' = Emptied(job[w].can)
  /\ job' = [job EXCEPT ![w] = NoJob]

(* A slot whose mode calls no device is emptied without a command. *)
Discard(c) ==
  /\ Idle
  /\ slot[c][0] \notin CallModes
  /\ slot' = Emptied(c)
  /\ UNCHANGED job

Init ==
  /\ slot \in [Cans -> Controls]
  /\ job = [w \in Workers |-> NoJob]

Next ==
  \/ \E c \in Cans : Post(c) \/ Discard(c)
  \/ \E w \in Workers : Finish(w) \/ \E c \in Cans : Take(w, c)

Spec == Init /\ [][Next]_<<slot, job>>
=============================================================================
