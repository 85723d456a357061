------------------------------ MODULE StartUp ------------------------------
(***************************************************************************)
(* How the process starts (src/main.c): InitArrayFromMacStation fills the  *)
(* arrays A0 to A5 from macstation.cfg, main chooses the CANs that work,   *)
(* can_init (src/can/can.c) binds a socket for each, and main starts their *)
(* workers.  Lines are taken for array rows by their position in the file  *)
(* alone.  The server rewrites the file (module FileUpload), so it may be  *)
(* of any form, or cut short.                                              *)
(***************************************************************************)
EXTENDS Naturals, SequencesExt

CONSTANTS
  Base,       \* values of a byte: 256
  RowLen,     \* RowLen[r]: bytes of row r of the arrays
  Files,      \* external: what macstation.cfg may hold, sequences of lines
  Garbage,    \* what a text may convert to if it is no text, or in another format
  Present     \* external: the CAN interfaces the kernel has

Bytes == 0..(Base - 1)
Enabled == Base - 1  \* 0xff
CANs == {1, 2}

(* The rows of the arrays, in the order of their sections in the file.      *)
A0 == 1
A1 == 2
A2 == 3  \* and row 4: device ids, and their types behind a byte "enabled"
A3 == 5  \* and row 6
A4 == 7
A5 == 8
Rows == 1..8

(* Lines the section of an array has. *)
Lines(a) == IF a \in {A2, A3} THEN 2 ELSE 1
Heads == {A0, A1, A2, A3, A4, A5}

(* A line is blank, the head of a section, or a text: hexadecimal digits    *)
(* and, in A1, letters behind them.  A comment alone, and a text of odd     *)
(* length, are texts that convert to nothing.                               *)
Blank == [kind |-> "blank"]
Head_(a) == [kind |-> "head", arr |-> a]
Row(hex, letters) == [kind |-> "row", hex |-> hex, letters |-> letters]
Nothing == Row(<<>>, <<>>)
IsRow(l) == l.kind = "row" /\ l.hex \in Seq(Bytes) /\ l.letters \in Seq(Bytes)
            /\ (l.letters # <<>> => Len(l.hex) = 3)

ASSUME StartAssumption ==
  /\ Base \in Nat \ {0, 1}
  /\ RowLen \in [Rows -> Nat \ {0}] /\ RowLen[A1] >= 3
  /\ \A f \in Files : DOMAIN f = 1..Len(f) /\ Len(f) \in Nat
       /\ \A i \in DOMAIN f : f[i] = Blank \/ f[i] \in {Head_(a) : a \in Heads} \/ IsRow(f[i])
  /\ Garbage # {} /\ Garbage \subseteq Seq(Bytes)
  /\ Present \subseteq CANs

VARIABLES
  unread,     \* the lines of macstation.cfg main has still to read
  g_ARR,      \* g_ARR[r][i]: byte i of row r
  mainpc,     \* main: "load", "can", "threads", then "clear", "mac", "done", or "dead"
  workers,    \* the worker threads: which CAN, and the interface of the socket
  bound       \* bound[c]: the interface of the socket for CAN c, 0 for none or all

starting == <<unread, g_ARR, mainpc, workers, bound>>

StartInit ==
  /\ unread \in Files
  /\ g_ARR = [r \in Rows |-> [i \in 0..(RowLen[r] - 1) |-> 0]]
  /\ mainpc = "load"
  /\ workers = <<>>
  /\ bound = [c \in CANs |-> 0]

-----------------------------------------------------------------------------
(* InitArrayFromMacStation *)

(* One turn of the loop over the lines. *)
ReadLine(s, l) ==
  LET taken == IF s.line > 0
               THEN [line |-> s.line - 1, buf |-> Append(s.buf, IF l.kind = "row" THEN l ELSE Nothing)]
               ELSE s
  IN IF l.kind = "blank" THEN s
     ELSE IF l.kind = "head" THEN [taken EXCEPT !.line = Lines(l.arr)] ELSE taken

Buf ==
  LET read[n \in 0..Len(unread)] ==
        IF n = 0 THEN [line |-> 0, buf |-> <<>>] ELSE ReadLine(read[n - 1], unread[n])
  IN read[Len(unread)].buf

(* What text t converts to in row r, or g: in A1 three bytes and letters,   *)
(* elsewhere bytes only.                                                    *)
Converted(r, t, g) ==
  IF r = A1
  THEN SubSeq(t.hex, 1, Min({3, Len(t.hex)})) \o IF Len(t.hex) <= 3 THEN t.letters ELSE g
  ELSE IF t.letters = <<>> THEN t.hex ELSE g

Offset[r \in Rows] == IF r = 1 THEN 0 ELSE Offset[r - 1] + RowLen[r - 1]

(* The rows are filled one after the other and lie in memory in the same    *)
(* order.  Nothing stops a text at the end of its row.                      *)
Filled(texts) ==
  [r \in Rows |-> [i \in 0..(RowLen[r] - 1) |->
    LET at(q) == Offset[r] + i - Offset[q] + 1
        over == {q \in 1..r : at(q) <= Len(texts[q])}
    IN IF over = {} THEN 0 ELSE texts[Max(over)][at(Max(over))]]]

(* Seeded fault: the two rows of a device list are taken in turns.          *)
LoadCrossed ==
  /\ mainpc = "load"
  /\ Len(Buf) = 8
  /\ g_ARR' = Filled([r \in Rows |->
       LET t == Buf[IF r \in {4, 5} THEN 9 - r ELSE r] IN t.hex \o t.letters])
  /\ unread' = <<>> /\ mainpc' = "can"
  /\ UNCHANGED <<workers, bound>>

(* Rows that are missing leave pointers in buf uninitialized, rows behind   *)
(* the eighth are stored behind buf ...                                     *)
Load ==
  /\ mainpc = "load"
  /\ \E g \in Garbage :
       g_ARR' = Filled([r \in Rows |-> IF r <= Len(Buf) THEN Converted(r, Buf[r], g) ELSE g])
  /\ unread' = <<>> /\ mainpc' = "can"
  /\ UNCHANGED <<workers, bound>>

(* ... and either may end the process. *)
LoadDies ==
  /\ mainpc = "load" /\ Len(Buf) # 8
  /\ mainpc' = "dead" /\ unread' = <<>>
  /\ UNCHANGED <<g_ARR, workers, bound>>

(* The file cannot be opened: the arrays stay as they are. *)
LoadFails ==
  /\ mainpc = "load" /\ unread = <<>>
  /\ mainpc' = "can"
  /\ UNCHANGED <<unread, g_ARR, workers, bound>>

-----------------------------------------------------------------------------
(* main and can_init *)

Marked(g) == {c \in CANs : g[IF c = 1 THEN A2 + 1 ELSE A3 + 1][0] = Enabled}

(* flag, as the CANs it stands for: one, if it is marked and the other is   *)
(* not, else both.                                                          *)
Working == IF Marked(g_ARR) = {} THEN CANs ELSE Marked(g_ARR)

(* The index that ioctl leaves in ifr for CAN c: if the call fails, that of *)
(* the CAN before or, with none before, any.                                *)
Ifindex(c, any) ==
  IF c \in Present THEN c
  ELSE IF c = 2 /\ Working = CANs /\ 1 \in Present THEN 1 ELSE any

(* Binding to 0 is binding to all interfaces. *)
CanInit ==
  /\ mainpc = "can"
  /\ \E any \in 0..2 :
       /\ \A c \in Working : Ifindex(c, any) \in Present \cup {0}
       /\ bound' = [c \in CANs |-> IF c \in Working THEN Ifindex(c, any) ELSE 0]
  /\ mainpc' = "threads"
  /\ UNCHANGED <<unread, g_ARR, workers>>

(* A worker that reads the socket of CAN s, and number c, in canThreadArgs. *)
Worker(s, c) == [which |-> c, bus |-> bound[s]]

(* One working CAN: its worker.  Both: main overwrites canThreadArgs for    *)
(* the second worker, and the first may read them before, meanwhile or      *)
(* after.  Then the serial port is set up and the listener started.         *)
StartWorkers ==
  /\ mainpc = "threads"
  /\ \/ \E c \in CANs : Working = {c} /\ workers' = <<Worker(c, c)>>
     \/ Working = CANs /\ \E s, c \in CANs : workers' = <<Worker(s, c), Worker(2, 2)>>
  /\ mainpc' = "clear"
  /\ UNCHANGED <<unread, g_ARR, bound>>

(* socket, bind, UART_Open or UART_Init fails: main returns. *)
InitFails ==
  /\ mainpc \in {"can", "threads"}
  /\ mainpc' = "dead"
  /\ UNCHANGED <<unread, g_ARR, workers, bound>>

Start == Load \/ LoadDies \/ LoadFails \/ CanInit \/ StartWorkers \/ InitFails

-----------------------------------------------------------------------------
(* Properties *)

(* Lines up to i that are not blank, and the k-th of them in the file.      *)
Place(f, i) == Cardinality({j \in 1..i : f[j] # Blank})
Nth(f, k) == f[CHOOSE i \in DOMAIN f : f[i] # Blank /\ Place(f, i) = k]

(* Where the rows are in the sample (main.c:118-142), each section's behind *)
(* its head.                                                                *)
RowPlace == <<2, 4, 6, 7, 9, 10, 12, 14>>
RowLine(f, r) == Nth(f, RowPlace[r])

(* Every section is there, complete, in the order of the sample, and each   *)
(* row is of the format and the length of its array.                        *)
WellFormed(f) ==
  /\ Place(f, Len(f)) = 14
  /\ \A a \in Heads : Nth(f, RowPlace[a] - 1) = Head_(a)
  /\ \A r \in Rows : LET t == RowLine(f, r) IN
       /\ IsRow(t)
       /\ Len(t.hex) + Len(t.letters) \in 1..RowLen[r]
       /\ IF r = A1 THEN Len(t.hex) = 3 ELSE t.letters = <<>>

(* Whatever the blank lines in it, a well-formed file is loaded: each array *)
(* holds what stands in its section, and zeros behind (main.c:144-248).     *)
(* Each CAN that works gets a socket on its own interface.  If the arrays   *)
(* mark one CAN as enabled it has a worker, on its own bus, and the other   *)
(* has none.  Else there are two workers, and the second is that of CAN 2   *)
(* on its own bus; the first may be that of either CAN, on either bus       *)
(* (main.c:387-393).                                                        *)
StartsAsConfigured ==
  [][/\ mainpc = "load" /\ mainpc' # "load" /\ WellFormed(unread) =>
          /\ mainpc' = "can"
          /\ \A r \in Rows : LET t == RowLine(unread, r).hex \o RowLine(unread, r).letters IN
               \A i \in DOMAIN g_ARR'[r] : g_ARR'[r][i] = IF i < Len(t) THEN t[i + 1] ELSE 0
     /\ mainpc = "can" /\ mainpc' = "threads" => \A c \in Working : bound'[c] = c
     /\ mainpc = "threads" /\ mainpc' = "clear" =>
          IF \E c \in CANs : Marked(g_ARR) = {c}
          THEN \A c \in Marked(g_ARR) : workers' = <<[which |-> c, bus |-> c]>>
          ELSE \E c, d \in CANs :
                 workers' = <<[which |-> c, bus |-> d], [which |-> 2, bus |-> 2]>>]_starting

(* A file that has every section in some order is loaded: false, the loader *)
(* goes by position.                                                        *)
AnyOrderLoads ==
  [][mainpc = "load" /\ mainpc' = "can" /\ (\A a \in Heads : Head_(a) \in ToSet(unread)) =>
       \A a \in Heads :
         LET head == CHOOSE i \in DOMAIN unread : unread[i] = Head_(a)
             t == Nth(unread, Place(unread, head) + 1)
         IN t.kind = "row" /\ t.hex # <<>> => g_ARR'[a][0] = t.hex[1]]_starting
=============================================================================
