------------------------------ MODULE TcpServer -----------------------------
(***************************************************************************)
(* The select loop of main() (src/main.c:420-611): it listens for hosts,   *)
(* keeps their sockets in tMultiIOInfo, answers each request frame (CA)    *)
(* with a CR frame and notes the sequence number of each heartbeat (HB).   *)
(* The kernel's side (connections, receive queues) is external.            *)
(***************************************************************************)
EXTENDS Naturals, Sequences, FiniteSets

CONSTANTS
  FD_SETCOUNT, \* places in iSocketFds, place 0 for the listening socket
  BACKLOG,     \* connections the kernel keeps until they are accepted
  ServerFd,    \* socketServerFd
  Fds,         \* external: descriptors the kernel may give to a connection
  Clients,     \* external: the hosts that connect
  NoClient,    \* no connection has this descriptor
  Messages,    \* external: the frames hosts send, [type, seq]
  MaxQueue     \* bound: frames that wait in a queue, plus CA frames sent before

Slots == 1..(FD_SETCOUNT - 1)

ASSUME SlotAssumption == FD_SETCOUNT \in Nat /\ FD_SETCOUNT > 1
ASSUME FdAssumption ==
  /\ Fds \subseteq Nat \ {0} /\ ServerFd \in Nat \ {0}
  /\ ServerFd \notin Fds
ASSUME ClientAssumption == NoClient \notin Clients
ASSUME MessageAssumption == Messages \subseteq [type : {"CA", "HB", "other"}, seq : Nat]
ASSUME BoundAssumption == MaxQueue \in Nat /\ BACKLOG \in Nat

VARIABLES
  slots,   \* iSocketFds[1..]: descriptors, 0 for a free place
  set0,    \* tReadSocketSet0
  set1,    \* tReadSocketSet1: what the last select found readable
  count,   \* tMultiIOInfo.count
  maxfd,   \* tMultiIOInfo.max_fd
  pc,      \* "select", "accept", "scan" (the for loop), "reply", "send"
  i,       \* the place the for loop looks at
  ackSeq,  \* g_iAck_seq
  pending, \* external: hosts whose connection waits to be accepted
  conn,    \* external: conn[f]: the host at the other end of descriptor f
  queue,   \* external: queue[c]: the frames that wait to be received from host c
  closed,  \* external: hosts that closed their connection
  killed,  \* send raised SIGPIPE
  asked, answered \* history: CA frames sent by, CR frames sent to, each host

table == <<slots, set0, count, maxfd>>
kernel == <<pending, conn, queue, closed, asked>>
vars == <<slots, set0, set1, count, maxfd, pc, i, ackSeq, pending, conn, queue, closed,
          killed, asked, answered>>

NoMessages == [c \in Clients |-> <<>>]

Used == {f \in Fds : \E s \in Slots : slots[s] = f}

(* Seeded fault: the loop stops one place short. *)
MaxOfShort(t) ==
  CHOOSE m \in {ServerFd} \cup {t[s] : s \in Slots} :
    ServerFd <= m /\ \A s \in 1..(FD_SETCOUNT - 2) : t[s] <= m

(* max_fd: the largest descriptor of the array, the listening socket first. *)
MaxOf(t) ==
  CHOOSE m \in {ServerFd} \cup {t[s] : s \in Slots} :
    ServerFd <= m /\ \A s \in Slots : t[s] <= m

Init ==
  /\ slots = [s \in Slots |-> 0]
  /\ set0 = {ServerFd} /\ set1 = {}
  /\ count = 0
  /\ maxfd = ServerFd
  /\ pc = "select" /\ i = 1
  /\ ackSeq = 0
  /\ pending = {}
  /\ conn = [f \in Fds |-> NoClient]
  /\ queue = NoMessages
  /\ closed = {}
  /\ killed = FALSE
  /\ asked = [c \in Clients |-> 0] /\ answered = [c \in Clients |-> 0]

-----------------------------------------------------------------------------
(* External: the kernel and the hosts *)

Connected(c) == \E f \in Fds : conn[f] = c

(* recv would return at once: data, or the end of the stream. *)
Readable(f) == conn[f] # NoClient /\ (queue[conn[f]] # <<>> \/ conn[f] \in closed)

Connect(c) ==
  /\ c \notin pending /\ ~Connected(c)
  /\ Cardinality(pending) <= BACKLOG
  /\ pending' = pending \cup {c}
  /\ queue' = [queue EXCEPT ![c] = <<>>]
  /\ closed' = closed \ {c}
  /\ asked' = [asked EXCEPT ![c] = 0]
  /\ answered' = [answered EXCEPT ![c] = 0]
  /\ UNCHANGED <<table, set1, pc, i, ackSeq, conn, killed>>

(* A frame arrives, also before the connection is accepted. *)
Send(c, m) ==
  /\ c \in pending \/ Connected(c)
  /\ c \notin closed
  /\ asked[c] + Len(queue[c]) < MaxQueue
  /\ queue' = [queue EXCEPT ![c] = Append(@, m)]
  /\ asked' = [asked EXCEPT ![c] = IF m.type = "CA" THEN @ + 1 ELSE @]
  /\ UNCHANGED <<table, set1, pc, i, ackSeq, pending, conn, closed, killed, answered>>

Close(c) ==
  /\ c \in pending \/ Connected(c)
  /\ closed' = closed \cup {c}
  /\ c \notin closed
  /\ UNCHANGED <<table, set1, pc, i, ackSeq, pending, conn, queue, killed, asked, answered>>

-----------------------------------------------------------------------------
(* The server *)

(* Seeded fault: select works on the set left by the last pass. *)
SelectWithoutCopy ==
  /\ pc = "select" /\ ~killed
  /\ LET ready == {f \in set0 \cap Fds : Readable(f)}
                    \cup (IF pending # {} THEN {ServerFd} ELSE {})
     IN  /\ ready # {}
         /\ set1' = ready \cup set1
  /\ pc' = "accept"
  /\ UNCHANGED <<table, i, ackSeq, kernel, killed, answered>>

(* The set is copied from its backup; select returns the readable part of it *)
(* below max_fd + 1 as soon as that is not empty.  An error skips the pass.  *)
Select ==
  /\ pc = "select" /\ ~killed
  /\ LET ready == {f \in set0 : /\ f <= maxfd
                                /\ IF f = ServerFd THEN pending # {} ELSE Readable(f)}
     IN  ready # {} /\ set1' = ready
  /\ pc' = "accept"
  /\ UNCHANGED <<table, i, ackSeq, kernel, killed, answered>>

Room == count < FD_SETCOUNT - 1

FirstFree(s) == slots[s] = 0 /\ \A t \in 1..(s - 1) : slots[t] # 0

(* accept, and the first place that holds 0 (that there is one follows from *)
(* Room and TableConsistent: otherwise the connection would be leaked).     *)
Accept(c, f) ==
  /\ pc = "accept" /\ ServerFd \in set1 /\ Room
  /\ c \in pending
  /\ conn[f] = NoClient
  /\ pending' = pending \ {c}
  /\ conn' = [conn EXCEPT ![f] = c]
  /\ \E s \in Slots :
       /\ FirstFree(s)
       /\ slots' = [slots EXCEPT ![s] = f]
       /\ set0' = set0 \cup {f}
       /\ count' = count + 1
       /\ maxfd' = MaxOf(slots')
  /\ pc' = "scan" /\ i' = 1
  /\ UNCHANGED <<set1, ackSeq, queue, closed, killed, asked, answered>>

(* No host waits, there is no room, or accept returns -1. *)
NoAccept ==
  /\ pc = "accept"
  /\ pc' = "scan" /\ i' = 1
  /\ UNCHANGED <<table, set1, ackSeq, kernel, killed, answered>>

(* Seeded fault: the loop runs to i = FD_SETCOUNT. *)
PastEnd == i = FD_SETCOUNT

AtEnd == i = FD_SETCOUNT - 1

Advance ==
  /\ pc' = IF AtEnd THEN "select" ELSE "scan"
  /\ i' = IF AtEnd THEN 1 ELSE i + 1

Skip ==
  /\ pc = "scan" /\ ~killed
  /\ slots[i] \notin set1
  /\ Advance
  /\ UNCHANGED <<table, set1, ackSeq, kernel, killed, answered>>

(* Seeded fault: the descriptor stays in the set select starts from. *)
RemoveKeepsFd(s) ==
  /\ set0' = set0
  /\ conn' = [conn EXCEPT ![slots[s]] = NoClient]
  /\ slots' = [slots EXCEPT ![s] = 0]
  /\ count' = count - 1
  /\ maxfd' = MaxOf(slots')

removeSocketFdByIndex(s) ==
  /\ set0' = set0 \ {slots[s]}
  /\ conn' = [conn EXCEPT ![slots[s]] = NoClient]
  /\ slots' = [slots EXCEPT ![s] = 0]
  /\ count' = count - 1
  /\ maxfd' = MaxOf(slots')

Peer == conn[slots[i]]

(* Seeded fault: only recv < 0 is taken for a closed connection. *)
DisconnectOnError ==
  /\ pc = "scan" /\ ~killed
  /\ slots[i] \in set1 /\ Readable(slots[i])
  /\ queue[Peer] = <<>>
  /\ Advance
  /\ UNCHANGED <<table, set1, ackSeq, kernel, killed, answered>>

(* recv returns 0 or an error: the host is gone. *)
Disconnect ==
  /\ pc = "scan" /\ ~killed
  /\ slots[i] \in set1 /\ Readable(slots[i])
  /\ queue[Peer] = <<>>
  /\ removeSocketFdByIndex(i)
  /\ Advance
  /\ UNCHANGED <<set1, ackSeq, pending, queue, closed, killed, asked, answered>>

(* recv returns all that is queued; the first frame of it is looked at.     *)
Recv ==
  /\ pc = "scan" /\ ~killed
  /\ slots[i] \in set1 /\ Readable(slots[i])
  /\ queue[Peer] # <<>>
  /\ queue' = [queue EXCEPT ![Peer] = <<>>]
  /\ LET m == Head(queue[Peer]) IN
       /\ ackSeq' = IF m.type = "HB" THEN m.seq ELSE ackSeq
       /\ IF m.type = "CA" THEN pc' = "reply" /\ UNCHANGED i ELSE Advance
  /\ UNCHANGED <<table, set1, pending, conn, closed, killed, asked, answered>>

(* The host has room for the answer, or reads what lies before it. *)
Sent ==
  /\ answered' = [answered EXCEPT ![Peer] = @ + 1]
  /\ Advance
  /\ UNCHANGED <<table, set1, ackSeq, kernel, killed>>

Reply == pc = "reply" /\ ~killed /\ Sent

(* The host has left its answers unread until there is no room for another: *)
(* the socket is a blocking one, and main waits in send.                    *)
ReplyBlocks ==
  /\ pc = "reply" /\ ~killed
  /\ pc' = "send"
  /\ UNCHANGED <<table, set1, i, ackSeq, kernel, killed, answered>>

(* External: the host that main waits for reads. *)
HostReads == pc = "send" /\ ~killed /\ Sent

(* The connection was reset: send returns an error... *)
ReplyFails ==
  /\ pc \in {"reply", "send"} /\ ~killed
  /\ Peer \in closed
  /\ removeSocketFdByIndex(i)
  /\ Advance
  /\ UNCHANGED <<set1, ackSeq, pending, queue, closed, killed, asked, answered>>

(* ... or, SIGPIPE being neither ignored nor masked, kills the process. *)
ReplyKills ==
  /\ pc \in {"reply", "send"} /\ ~killed
  /\ Peer \in closed
  /\ killed' = TRUE
  /\ UNCHANGED <<table, set1, pc, i, ackSeq, kernel, answered>>

-----------------------------------------------------------------------------
AcceptStep == NoAccept \/ \E c \in Clients, f \in Fds : Accept(c, f)

Server ==
  \/ Select \/ AcceptStep \/ Skip \/ Disconnect \/ Recv
  \/ Reply \/ ReplyBlocks \/ ReplyFails \/ ReplyKills

Next ==
  \/ Server \/ HostReads
  \/ \E c \in Clients : Connect(c) \/ Close(c) \/ \E m \in Messages : Send(c, m)

Spec == Init /\ [][Next]_vars

(* main() runs; hosts need not do anything, not even read. *)
FairSpec == Spec /\ WF_vars(Server)

-----------------------------------------------------------------------------
(* Properties *)

(* The values of the variables. *)
TypeOK ==
  /\ slots \in [Slots -> Fds \cup {0}]
  /\ set0 \subseteq Fds \cup {ServerFd} /\ set1 \subseteq Fds \cup {ServerFd}
  /\ count \in Nat /\ maxfd \in Nat /\ ackSeq \in Nat
  /\ pc \in {"select", "accept", "scan", "reply", "send"} /\ i \in Slots
  /\ pending \subseteq Clients /\ closed \subseteq Clients
  /\ conn \in [Fds -> Clients \cup {NoClient}]
  /\ queue \in [Clients -> Seq(Messages)]
  /\ killed \in BOOLEAN
  /\ asked \in [Clients -> Nat] /\ answered \in [Clients -> Nat]

Taken == {s \in Slots : slots[s] # 0}

(* The array, the set select starts from and the count agree after every    *)
(* accept and removal in the middle of a scan, and every open connection    *)
(* has exactly one place in the array (none is leaked or closed twice).     *)
TableConsistent ==
  /\ set0 = {ServerFd} \cup Used
  /\ count = Cardinality(Taken)
  /\ \A s, t \in Taken : slots[s] = slots[t] => s = t
  /\ \A f \in Fds : conn[f] # NoClient <=> f \in Used

(* max_fd covers the set, or select would be blind to a socket. *)
MaxFdCovers == \A f \in set0 : f <= maxfd

(* recv is called only where it returns at once: readiness found by select  *)
(* is not stale when the loop, after an accept and the removal of other     *)
(* connections, comes to it.  A recv that blocks would stop all hosts.      *)
NoBlockingRecv ==
  pc = "scan" => \A s \in Slots : (s >= i /\ slots[s] \in set1) => Readable(slots[s])

(* A frame of a connected host is received, however much the others send,   *)
(* unless main comes to wait for ever for a host that does not read         *)
(* (main.c:525).                                                            *)
FramesReceived ==
  \/ <>[](pc = "send")
  \/ \A c \in Clients : (Connected(c) /\ queue[c] # <<>>) ~> (queue[c] = <<>> \/ killed)

(* The place of a host that closed its connection is given back, unless     *)
(* main waits for ever for another.                                         *)
PlacesReclaimed ==
  \/ <>[](pc = "send")
  \/ \A c \in Clients : (Connected(c) /\ c \in closed) ~> (~Connected(c) \/ killed)

(* The same with no such exception: false, one host stops the others.       *)
HostsServedApart ==
  \A c \in Clients : (Connected(c) /\ queue[c] # <<>>) ~> (queue[c] = <<>> \/ killed)

(* "a request frame is received, so an answer frame is sent" (main.c:505).  *)
RequestsAnswered ==
  \A c \in Clients : (pc = "select" /\ Connected(c) /\ c \notin closed /\ queue[c] = <<>>)
                       => answered[c] = asked[c]
=============================================================================
