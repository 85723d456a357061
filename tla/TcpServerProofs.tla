--------------------------- MODULE TcpServerProofs ---------------------------
(***************************************************************************)
(* Proofs about TcpServer: the client table stays consistent, an accepted  *)
(* connection finds a place, and recv is never called where it blocks; and *)
(* about the V2 frames its connections carry (V2Frame).                    *)
(***************************************************************************)
EXTENDS TcpServer, V2Frame, FiniteSetTheorems, SequenceTheorems, TLAPS

(* The types the table depends on. *)
TableType ==
  /\ slots \in [Slots -> Fds \cup {0}]
  /\ count \in Nat
  /\ i \in Slots
  /\ conn \in [Fds -> Clients \cup {NoClient}]
  /\ set1 \subseteq Fds \cup {ServerFd}

LEMMA SlotsFinite ==
  /\ IsFiniteSet(Slots)
  /\ Cardinality(Slots) = FD_SETCOUNT - 1
  /\ 1 \in Slots
BY SlotAssumption, FS_Interval DEF Slots

LEMMA TakenFinite == IsFiniteSet(Taken) /\ Cardinality(Taken) \in Nat
BY SlotsFinite, FS_Subset, FS_CardinalityType DEF Taken

(* While it answers, the loop is at an open connection. *)
AtPeer == pc \in {"reply", "send"} => slots[i] \in Fds

TableInv == TableType /\ TableConsistent /\ AtPeer

LEMMA RemovalKeepsTable ==
  ASSUME TableType, TableConsistent, NEW s \in Slots, slots[s] \in Fds, removeSocketFdByIndex(s)
  PROVE  /\ slots' \in [Slots -> Fds \cup {0}]
         /\ conn' \in [Fds -> Clients \cup {NoClient}]
         /\ count' \in Nat
         /\ TableConsistent'
<1> DEFINE f == slots[s]
<1>1. /\ slots' = [slots EXCEPT ![s] = 0]
      /\ conn' = [conn EXCEPT ![f] = NoClient]
      /\ count' = count - 1
      /\ set0' = set0 \ {f}
  BY DEF removeSocketFdByIndex
<1>2. s \in Taken /\ f # 0 /\ f # ServerFd
  BY FdAssumption DEF Taken
<1>3. slots' \in [Slots -> Fds \cup {0}] /\ conn' \in [Fds -> Clients \cup {NoClient}]
  BY <1>1 DEF TableType
<1>4. Taken' = Taken \ {s}
  BY <1>1 DEF Taken, TableType
<1>5. Cardinality(Taken') = Cardinality(Taken) - 1 /\ Cardinality(Taken') \in Nat
  BY <1>2, <1>4, TakenFinite, FS_RemoveElement, FS_CardinalityType
<1>6. Used' = Used \ {f}
  <2>1. ASSUME NEW g \in Fds PROVE g \in Used' <=> g \in Used /\ g # f
    <3>1. CASE g = f
      <4>1. \A t \in Slots : slots'[t] # f
        BY <1>1, <1>2 DEF TableConsistent, Taken, TableType
      <4> QED BY <3>1, <4>1 DEF Used
    <3>2. CASE g # f
      BY <1>1, <3>2, FdAssumption DEF Used, TableType
    <3> QED BY <3>1, <3>2
  <2> QED BY <2>1 DEF Used
<1>7. set0' = {ServerFd} \cup Used'
  BY <1>1, <1>2, <1>6 DEF TableConsistent
<1>8. \A t, u \in Taken' : slots'[t] = slots'[u] => t = u
  BY <1>1, <1>4 DEF TableConsistent, Taken, TableType
<1>9. \A g \in Fds : conn'[g] # NoClient <=> g \in Used'
  BY <1>1, <1>6 DEF TableConsistent, TableType
<1>10. count' = Cardinality(Taken') /\ count' \in Nat
  BY <1>1, <1>5 DEF TableConsistent
<1> QED BY <1>3, <1>7, <1>8, <1>9, <1>10 DEF TableConsistent

LEMMA AcceptKeepsTable ==
  ASSUME TableType, TableConsistent, NEW c \in Clients, NEW f \in Fds, Accept(c, f)
  PROVE  TableType' /\ TableConsistent'
<1>1. PICK s \in Slots :
        /\ FirstFree(s)
        /\ slots' = [slots EXCEPT ![s] = f]
        /\ set0' = set0 \cup {f}
        /\ count' = count + 1
        /\ maxfd' = MaxOf(slots')
  BY DEF Accept
<1>2. slots[s] = 0 /\ conn[f] = NoClient /\ conn' = [conn EXCEPT ![f] = c] /\ c # NoClient
      /\ f # 0 /\ i' = 1
  BY <1>1, ClientAssumption, FdAssumption DEF Accept, FirstFree
<1>3. TableType'
  BY <1>1, <1>2, SlotsFinite DEF TableType, Accept
<1>4. Taken' = Taken \cup {s} /\ s \notin Taken
  BY <1>1, <1>2 DEF Taken, TableType
<1>5. Cardinality(Taken') = Cardinality(Taken) + 1
  BY <1>4, TakenFinite, FS_AddElement
<1>6. Used' = Used \cup {f} /\ f \notin Used
  <2>1. f \notin Used
    BY <1>2 DEF TableConsistent
  <2>2. ASSUME NEW g \in Fds PROVE g \in Used' <=> g \in Used \/ g = f
    BY <1>1, <1>2, FdAssumption DEF Used, TableType
  <2> QED BY <2>1, <2>2 DEF Used
<1>7. set0' = {ServerFd} \cup Used'
  BY <1>1, <1>6 DEF TableConsistent
<1>8. \A t, u \in Taken' : slots'[t] = slots'[u] => t = u
  <2>1. \A t \in Taken : slots[t] # f /\ slots'[t] = slots[t]
    BY <1>1, <1>4, <1>6 DEF Taken, Used, TableType
  <2>2. slots'[s] = f
    BY <1>1 DEF TableType
  <2> QED BY <1>4, <2>1, <2>2 DEF TableConsistent
<1>9. \A g \in Fds : conn'[g] # NoClient <=> g \in Used'
  BY <1>2, <1>6 DEF TableConsistent, TableType
<1>10. count' = Cardinality(Taken')
  BY <1>1, <1>5 DEF TableConsistent
<1> QED BY <1>3, <1>7, <1>8, <1>9, <1>10 DEF TableConsistent

LEMMA AdvanceStays ==
  ASSUME i \in Slots, Advance
  PROVE  i' \in Slots /\ pc' \in {"select", "scan"} /\ i' \in Nat /\ i \in Nat
BY SlotAssumption, SlotsFinite DEF Advance, AtEnd, Slots

(* A step that leaves the table and the descriptors alone. *)
LEMMA OtherStepsKeepTable ==
  ASSUME TableInv, UNCHANGED <<table, conn>>, i' \in Slots, set1' \subseteq set0 \cup set1,
         pc' \in {"reply", "send"} => slots'[i'] \in Fds
  PROVE  TableInv'
<1>1. set1' \subseteq Fds \cup {ServerFd}
  BY DEF TableInv, TableType, TableConsistent, Used
<1> QED BY <1>1 DEF TableInv, TableType, TableConsistent, AtPeer, table, Taken, Used

LEMMA ReadablePlace ==
  ASSUME TableType, NEW s \in Slots, slots[s] \in set1
  PROVE  slots[s] \in Fds
BY FdAssumption DEF TableType

LEMMA TableInvariant == Spec => []TableInv
<1>1. Init => TableInv
  <2> SUFFICES ASSUME Init PROVE TableInv
    OBVIOUS
  <2>1. TableType /\ AtPeer
    BY SlotsFinite DEF Init, TableType, AtPeer
  <2>2. Taken = {} /\ Used = {}
    BY FdAssumption DEF Init, Taken, Used
  <2>3. Cardinality(Taken) = 0
    BY <2>2, FS_EmptySet
  <2>4. TableConsistent
    BY <2>2, <2>3 DEF Init, TableConsistent
  <2> QED BY <2>1, <2>4 DEF TableInv
<1>2. TableInv /\ [Next]_vars => TableInv'
  <2> SUFFICES ASSUME TableInv, [Next]_vars PROVE TableInv'
    OBVIOUS
  <2>0. TableType /\ TableConsistent /\ AtPeer /\ i \in Slots
    BY DEF TableInv, TableType
  <2>1. ASSUME NEW c \in Clients, Connect(c) PROVE TableInv'
    BY <2>1, <2>0, OtherStepsKeepTable DEF Connect, table, AtPeer
  <2>2. ASSUME NEW c \in Clients, Close(c) PROVE TableInv'
    BY <2>2, <2>0, OtherStepsKeepTable DEF Close, table, AtPeer
  <2>3. ASSUME NEW c \in Clients, NEW m \in Messages, Send(c, m) PROVE TableInv'
    BY <2>3, <2>0, OtherStepsKeepTable DEF Send, table, AtPeer
  <2>4. CASE Select
    BY <2>4, <2>0, OtherStepsKeepTable DEF Select, table, kernel
  <2>5. CASE NoAccept
    BY <2>5, <2>0, OtherStepsKeepTable, SlotsFinite DEF NoAccept, table, kernel
  <2>6. ASSUME NEW c \in Clients, NEW f \in Fds, Accept(c, f) PROVE TableInv'
    <3>1. pc' = "scan"
      BY <2>6 DEF Accept
    <3> QED BY <2>0, <2>6, <3>1, AcceptKeepsTable DEF TableInv, AtPeer
  <2>7. CASE Skip
    BY <2>7, <2>0, OtherStepsKeepTable, AdvanceStays DEF Skip, table, kernel
  <2>8. CASE Disconnect
    <3>1. slots[i] \in Fds
      BY <2>8, <2>0, ReadablePlace DEF Disconnect
    <3> QED BY <2>0, <2>8, <3>1, RemovalKeepsTable, AdvanceStays
        DEF Disconnect, TableInv, TableType, AtPeer
  <2>9. CASE Recv
    <3>1. slots[i] \in Fds
      BY <2>9, <2>0, ReadablePlace DEF Recv
    <3>2. i' \in Slots /\ (pc' \in {"reply", "send"} => i' = i)
      BY <2>0, <2>9, AdvanceStays DEF Recv
    <3> QED BY <2>0, <2>9, <3>1, <3>2, OtherStepsKeepTable DEF Recv, table
  <2>10. CASE Reply \/ HostReads
    BY <2>10, <2>0, OtherStepsKeepTable, AdvanceStays DEF Reply, HostReads, Sent, table, kernel
  <2>14. CASE ReplyBlocks
    BY <2>14, <2>0, OtherStepsKeepTable DEF ReplyBlocks, table, kernel, AtPeer
  <2>11. CASE ReplyFails
    <3>1. slots[i] \in Fds
      BY <2>11, <2>0 DEF ReplyFails, AtPeer
    <3> QED BY <2>0, <2>11, <3>1, RemovalKeepsTable, AdvanceStays
        DEF ReplyFails, TableInv, TableType, AtPeer
  <2>12. CASE ReplyKills
    BY <2>12, <2>0, OtherStepsKeepTable DEF ReplyKills, table, kernel, AtPeer
  <2>13. CASE UNCHANGED vars
    BY <2>13, <2>0, OtherStepsKeepTable DEF vars, table, AtPeer
  <2> QED BY <2>1, <2>2, <2>3, <2>4, <2>5, <2>6, <2>7, <2>8, <2>9, <2>10, <2>11, <2>12, <2>13,
     <2>14
      DEF Next, Server, AcceptStep
<1> QED BY <1>1, <1>2, PTL DEF Spec

(* The client array, the descriptor set and the count agree at every step   *)
(* and no connection is leaked (main.c:466-479, 604-611).                   *)
THEOREM TableStaysConsistent == Spec => []TableConsistent
BY TableInvariant, PTL DEF TableInv

(* While the count leaves room an accepted connection does find a place     *)
(* (main.c:453-478): some place holds 0.                                    *)
THEOREM RoomMeansFreePlace == Spec => [](Room => \E s \in Slots : slots[s] = 0)
<1>1. TableInv => (Room => \E s \in Slots : slots[s] = 0)
  <2> SUFFICES ASSUME TableInv, Room, \A s \in Slots : slots[s] # 0 PROVE FALSE
    OBVIOUS
  <2>1. Taken = Slots
    BY DEF Taken
  <2>2. count = FD_SETCOUNT - 1
    BY <2>1, SlotsFinite DEF TableInv, TableConsistent
  <2> QED BY <2>2, SlotAssumption DEF Room
<1> QED BY <1>1, TableInvariant, PTL

(* Each host has one connection, which is either waiting or accepted. *)
OneConnection ==
  /\ \A f, g \in Fds : conn[f] # NoClient /\ conn[f] = conn[g] => f = g
  /\ \A f \in Fds : conn[f] \notin pending
  /\ NoClient \notin pending

(* What select found readable is readable until the loop has been there. *)
ReadyInv ==
  /\ pc = "accept" => \A f \in set1 \cap Fds : Readable(f)
  /\ pc \in {"scan", "reply", "send"} => \A s \in Slots :
       (s > i \/ (s = i /\ pc = "scan")) /\ slots[s] \in set1 => Readable(slots[s])

QueueType == queue = [c \in Clients |-> queue[c]]

(* The hosts' steps. *)
LEMMA HostsKeepReady ==
  ASSUME TableInv, OneConnection, ReadyInv, QueueType, NEW c \in Clients,
         Connect(c) \/ Close(c) \/ \E m \in Messages : Send(c, m)
  PROVE  OneConnection' /\ ReadyInv' /\ QueueType'
<1>1. \A f \in Fds : Readable(f) => Readable(f)'
  <2>1. CASE Connect(c)
    BY <2>1 DEF Connect, Connected, Readable, TableInv, TableType, QueueType
  <2>2. CASE Close(c)
    BY <2>2 DEF Close, Readable
  <2>3. ASSUME NEW m \in Messages, Send(c, m) PROVE \A f \in Fds : Readable(f) => Readable(f)'
    <3>1. SUFFICES ASSUME NEW f \in Fds, Readable(f) PROVE Readable(f)'
      OBVIOUS
    <3>2. conn' = conn /\ closed' = closed /\ c \notin closed /\ conn[f] \in Clients
      BY <2>3, <3>1 DEF Send, Readable, TableInv, TableType
    <3>3. CASE conn[f] = c
      <4>1. queue[c] # <<>> => queue'[c] = Append(queue[c], m)
        BY <2>3 DEF Send, QueueType
      <4>2. Append(queue[c], m) # <<>>
        OBVIOUS
      <4> QED BY <3>1, <3>2, <3>3, <4>1, <4>2 DEF Readable
    <3>4. CASE conn[f] # c
      BY <2>3, <3>1, <3>2, <3>4 DEF Send, Readable, QueueType
    <3> QED BY <3>3, <3>4
  <2> QED BY <2>1, <2>2, <2>3
<1>2. OneConnection'
  BY ClientAssumption DEF OneConnection, Connect, Close, Send, Connected
<1>3. UNCHANGED <<slots, set1, pc, i>>
  BY DEF Connect, Close, Send, table
<1>4. QueueType'
  BY DEF Connect, Close, Send, QueueType
<1>5. \A s \in Slots : slots[s] \in set1 => slots[s] \in Fds
  BY ReadablePlace DEF TableInv
<1> QED BY <1>1, <1>2, <1>3, <1>4, <1>5 DEF ReadyInv

(* Taking the loop past place i, with the other places as they were. *)
LEMMA AdvanceKeepsReady ==
  ASSUME TableInv, ReadyInv, pc \in {"scan", "reply", "send"}, Advance, set1' = set1,
         \A s \in Slots : s > i => slots'[s] = slots[s],
         \A s \in Slots : s > i /\ Readable(slots[s]) /\ slots[s] \in set1 => Readable(slots[s])'
  PROVE  ReadyInv'
<1>1. i \in Slots /\ i \in Nat
  BY AdvanceStays DEF TableInv, TableType
<1>2. CASE AtEnd
  BY <1>2 DEF Advance, ReadyInv
<1>3. CASE ~AtEnd
  <2>1. pc' = "scan" /\ i' = i + 1
    BY <1>3 DEF Advance
  <2> SUFFICES ASSUME NEW s \in Slots, s >= i + 1, slots'[s] \in set1
               PROVE  Readable(slots[s])'
    BY <1>1, <2>1, SlotAssumption DEF ReadyInv, Slots
  <2>2. s > i
    BY <1>1 DEF Slots
  <2>3. Readable(slots[s])
    BY <2>2 DEF ReadyInv
  <2> QED BY <2>2, <2>3
<1> QED BY <1>2, <1>3

(* recv is called only on a descriptor that is readable at that moment, so  *)
(* main() never waits for one host alone (main.c:445-492).                  *)
THEOREM RecvNeverBlocks == Spec => []NoBlockingRecv
<1>1. Init => OneConnection /\ ReadyInv /\ QueueType
  BY ClientAssumption DEF Init, OneConnection, ReadyInv, QueueType, NoMessages
<1>2. TableInv /\ OneConnection /\ ReadyInv /\ QueueType /\ [Next]_vars
        => (OneConnection /\ ReadyInv /\ QueueType)'
  <2> SUFFICES ASSUME TableInv, OneConnection, ReadyInv, QueueType, [Next]_vars
               PROVE  OneConnection' /\ ReadyInv' /\ QueueType'
    OBVIOUS
  <2>0. TableType /\ TableConsistent /\ AtPeer /\ i \in Slots
    BY DEF TableInv, TableType
  <2>1. ASSUME NEW c \in Clients, Connect(c) \/ Close(c) \/ \E m \in Messages : Send(c, m)
        PROVE  OneConnection' /\ ReadyInv' /\ QueueType'
    BY <2>1, HostsKeepReady
  <2>2. CASE Select
    <3>1. set1' = {f \in set0 : /\ f <= maxfd
                                /\ IF f = ServerFd THEN pending # {} ELSE Readable(f)}
      BY <2>2 DEF Select
    <3>2. pc' = "accept" /\ UNCHANGED <<conn, queue, closed, pending>>
      BY <2>2 DEF Select, kernel
    <3>3. \A f \in set1' \cap Fds : Readable(f)
      BY <3>1, FdAssumption
    <3> QED BY <3>2, <3>3 DEF OneConnection, ReadyInv, QueueType, Readable
  <2>3. CASE NoAccept
    <3>1. \A s \in Slots : slots[s] \in set1 => slots[s] \in Fds
      BY <2>0, ReadablePlace
    <3> QED BY <2>3, <3>1 DEF NoAccept, kernel, table, OneConnection, ReadyInv, QueueType, Readable
  <2>4. ASSUME NEW c \in Clients, NEW f \in Fds, Accept(c, f)
        PROVE  OneConnection' /\ ReadyInv' /\ QueueType'
    <3>1. /\ conn[f] = NoClient /\ conn' = [conn EXCEPT ![f] = c] /\ c \in pending
          /\ pending' = pending \ {c} /\ UNCHANGED <<queue, closed, set1>> /\ pc = "accept"
          /\ pc' = "scan"
      BY <2>4 DEF Accept
    <3>2. f \notin set1
      BY <3>1 DEF ReadyInv, Readable
    <3>3. \A g \in Fds : g # f /\ Readable(g) => Readable(g)'
      BY <3>1, <2>0 DEF Readable, TableType
    <3>4. \A s \in Slots : slots'[s] = f \/ slots'[s] = slots[s]
      BY <2>4, <2>0 DEF Accept, TableType
    <3>5. OneConnection'
      BY <3>1, <2>0 DEF OneConnection, TableType
    <3>6. \A s \in Slots : slots[s] \in set1 => slots[s] \in Fds
      BY <2>0, ReadablePlace
    <3>7. ReadyInv'
      BY <3>1, <3>2, <3>3, <3>4, <3>6 DEF ReadyInv
    <3> QED BY <3>1, <3>5, <3>7 DEF QueueType
  <2>5. CASE Skip
    <3>1. ReadyInv'
      BY <2>5, AdvanceKeepsReady DEF Skip, table, kernel, Readable
    <3> QED BY <2>5, <3>1 DEF Skip, table, kernel, OneConnection, QueueType
  <2>6. CASE Disconnect \/ ReplyFails
    <3> DEFINE f == slots[i]
    <3>1. f \in Fds
      BY <2>6, <2>0, ReadablePlace DEF Disconnect, ReplyFails, AtPeer
    <3>2. /\ removeSocketFdByIndex(i) /\ Advance /\ pc \in {"scan", "reply", "send"}
          /\ UNCHANGED <<set1, pending, queue, closed>>
      BY <2>6 DEF Disconnect, ReplyFails
    <3>3. conn' = [conn EXCEPT ![f] = NoClient] /\ slots' = [slots EXCEPT ![i] = 0]
      BY <3>2 DEF removeSocketFdByIndex
    <3>4. ASSUME NEW s \in Slots, s > i, slots[s] \in set1, Readable(slots[s])
          PROVE  Readable(slots[s])'
      <4>1. s # i /\ slots[s] \in Fds
        BY <2>0, <3>4, ReadablePlace DEF Slots
      <4>2. s \in Taken /\ i \in Taken
        BY <2>0, <3>1, <4>1, FdAssumption DEF Taken
      <4>3. slots[s] # f
        BY <2>0, <4>1, <4>2 DEF TableConsistent
      <4> QED BY <2>0, <3>2, <3>3, <3>4, <4>1, <4>3 DEF Readable, TableType
    <3>5. \A s \in Slots : s > i => slots'[s] = slots[s]
      BY <2>0, <3>3 DEF TableType, Slots
    <3>6. ReadyInv'
      BY <3>2, <3>4, <3>5, AdvanceKeepsReady
    <3>7. OneConnection'
      BY <2>0, <3>2, <3>3 DEF OneConnection, TableType
    <3> QED BY <3>2, <3>6, <3>7 DEF QueueType
  <2>7. CASE Recv
    <3> DEFINE f == slots[i]
    <3>1. f \in Fds
      BY <2>7, <2>0, ReadablePlace DEF Recv
    <3>2. /\ queue' = [queue EXCEPT ![conn[f]] = <<>>] /\ pc = "scan"
          /\ UNCHANGED <<table, set1, pending, conn, closed>>
          /\ Advance \/ (pc' = "reply" /\ i' = i)
      BY <2>7 DEF Recv, Peer
    <3>3. ASSUME NEW s \in Slots, s > i, slots[s] \in set1, Readable(slots[s])
          PROVE  Readable(slots[s])'
      <4>1. s # i /\ slots[s] \in Fds
        BY <2>0, <3>3, ReadablePlace DEF Slots
      <4>2. s \in Taken /\ i \in Taken
        BY <2>0, <3>1, <4>1, FdAssumption DEF Taken
      <4>3. slots[s] # f
        BY <2>0, <4>1, <4>2 DEF TableConsistent
      <4>4. conn[slots[s]] # conn[f]
        BY <3>1, <3>3, <4>1, <4>3 DEF OneConnection, Readable
      <4> QED BY <2>0, <3>2, <3>3, <4>1, <4>4 DEF Readable, TableType, QueueType, table
    <3>4. slots' = slots
      BY <3>2 DEF table
    <3>5. ReadyInv'
      <4>1. CASE Advance
        BY <3>2, <3>3, <3>4, <4>1, AdvanceKeepsReady
      <4>2. CASE pc' = "reply" /\ i' = i
        BY <3>2, <3>3, <3>4, <4>2 DEF ReadyInv
      <4> QED BY <3>2, <4>1, <4>2
    <3>6. QueueType' /\ OneConnection'
      BY <3>2 DEF QueueType, OneConnection
    <3> QED BY <3>5, <3>6
  <2>8. CASE Reply \/ HostReads
    <3>1. ReadyInv'
      BY <2>8, AdvanceKeepsReady DEF Reply, HostReads, Sent, table, kernel, Readable
    <3> QED BY <2>8, <3>1 DEF Reply, HostReads, Sent, table, kernel, OneConnection, QueueType
  <2>11. CASE ReplyBlocks
    BY <2>11 DEF ReplyBlocks, table, kernel, OneConnection, ReadyInv, QueueType, Readable
  <2>9. CASE ReplyKills
    BY <2>9 DEF ReplyKills, table, kernel, OneConnection, ReadyInv, QueueType, Readable
  <2>10. CASE UNCHANGED vars
    BY <2>10 DEF vars, OneConnection, ReadyInv, QueueType, Readable
  <2> QED BY <2>1, <2>2, <2>3, <2>4, <2>5, <2>6, <2>7, <2>8, <2>9, <2>10, <2>11
      DEF Next, Server, AcceptStep
<1>3. TableInv /\ ReadyInv => NoBlockingRecv
  <2> SUFFICES ASSUME TableInv, ReadyInv, pc = "scan", NEW s \in Slots, s >= i, slots[s] \in set1
               PROVE  Readable(slots[s])
    BY DEF NoBlockingRecv
  <2>1. s > i \/ s = i
    BY DEF Slots, TableInv, TableType
  <2> QED BY <2>1 DEF ReadyInv
<1> QED BY <1>1, <1>2, <1>3, TableInvariant, PTL DEF Spec

-----------------------------------------------------------------------------
(* The largest descriptor *)

(* Induction over the natural numbers, for a set in the place of a formula: *)
(* if n were missing from T, adding one would take the members of T up to n *)
(* one to one to those of them that are not 0.                              *)
LEMMA Induction ==
  ASSUME NEW T, 0 \in T, \A n \in Nat : n \in T => n + 1 \in T
  PROVE  Nat \subseteq T
<1> SUFFICES ASSUME NEW n \in Nat, n \notin T PROVE FALSE
  OBVIOUS
<1> DEFINE S == T \cap (0..n)
           next == [k \in S |-> k + 1]
<1>1. IsFiniteSet(S) /\ 0 \in S
  <2>1. IsFiniteSet(0..n)
    BY FS_Interval
  <2> QED BY <2>1, FS_Subset
<1>2. /\ IsFiniteSet(S \ {0}) /\ Cardinality(S \ {0}) = Cardinality(S) - 1
      /\ Cardinality(S) \in Nat
  BY <1>1, FS_RemoveElement, FS_CardinalityType
<1>3. next \in [S -> S \ {0}]
  OBVIOUS
<1>4. \E x, y \in S : x # y /\ next[x] = next[y]
  <2> HIDE DEF next, S
  <2>1. Cardinality(S \ {0}) < Cardinality(S)
    BY <1>2
  <2> QED BY <1>1, <1>2, <1>3, <2>1, FS_PigeonHole
<1> QED BY <1>4

(* The loop of max_fd, main.c:588-601, finds a largest descriptor. *)
LEMMA MaxOfIs ==
  ASSUME NEW t \in [Slots -> Fds \cup {0}]
  PROVE  MaxOf(t) \in Nat /\ ServerFd <= MaxOf(t) /\ \A s \in Slots : t[s] <= MaxOf(t)
<1> DEFINE D == {ServerFd} \cup {t[s] : s \in Slots}
           T == {n \in Nat : \E m \in D : ServerFd <= m /\ \A s \in Slots : s <= n => t[s] <= m}
<1>1. D \subseteq Nat /\ ServerFd \in D /\ \A s \in Slots : t[s] \in D
  <2>1. ServerFd \in Nat /\ \A s \in Slots : t[s] \in Nat
    <3>1. ServerFd \in Nat /\ 0 \in Nat /\ \A f \in Fds : f \in Nat
      BY FdAssumption
    <3>2. ASSUME NEW s \in Slots PROVE t[s] \in Nat
      <4>1. t[s] \in Fds \/ t[s] = 0
        OBVIOUS
      <4> QED BY <3>1, <4>1, Zenon
    <3> QED BY <3>1, <3>2
  <2> QED BY <2>1
<1>2. Slots \subseteq Nat \ {0} /\ FD_SETCOUNT \in Nat /\ \A s \in Slots : s <= FD_SETCOUNT
  BY SlotAssumption DEF Slots
<1> HIDE DEF D
<1>3. 0 \in T
  BY <1>1, <1>2
<1>4. ASSUME NEW n \in Nat, n \in T PROVE n + 1 \in T
  <2>1. PICK m \in D : ServerFd <= m /\ \A s \in Slots : s <= n => t[s] <= m
    BY <1>4
  <2>2. m \in Nat /\ ServerFd \in Nat /\ \A s \in Slots : t[s] \in Nat /\ t[s] \in D
    BY <1>1
  <2>3. \A s \in Slots : s <= n + 1 => s <= n \/ s = n + 1
    BY <1>2
  <2>4. PICK u \in D : ServerFd <= u /\ \A s \in Slots : s <= n + 1 => t[s] <= u
    <3> HIDE DEF T
    <3>1. CASE n + 1 \in Slots /\ t[n + 1] > m
      <4>1. ServerFd <= t[n + 1] /\ t[n + 1] \in D
        BY <2>1, <2>2, <3>1
      <4>2. ASSUME NEW s \in Slots, s <= n + 1 PROVE t[s] <= t[n + 1]
        BY <2>1, <2>2, <2>3, <3>1, <4>2
      <4> QED BY <4>1, <4>2
    <3>2. CASE n + 1 \in Slots => t[n + 1] <= m
      <4>1. ASSUME NEW s \in Slots, s <= n + 1 PROVE t[s] <= m
        BY <2>1, <2>3, <3>2, <4>1
      <4> QED BY <2>1, <4>1
    <3> QED BY <2>2, <3>1, <3>2
  <2> QED BY <2>4
<1>5. FD_SETCOUNT \in T
  <2> HIDE DEF T
  <2>1. Nat \subseteq T
    BY <1>3, <1>4, Induction
  <2> QED BY <1>2, <2>1
<1>6. \E m \in D : ServerFd <= m /\ \A s \in Slots : t[s] <= m
  BY <1>2, <1>5
<1>7. MaxOf(t) \in D /\ ServerFd <= MaxOf(t) /\ \A s \in Slots : t[s] <= MaxOf(t)
  BY <1>6 DEF MaxOf, D
<1> QED BY <1>1, <1>7

MaxInv == maxfd \in Nat /\ ServerFd <= maxfd /\ \A s \in Slots : slots[s] <= maxfd

LEMMA MaxInvariant == Spec => []MaxInv
<1>1. Init => MaxInv
  BY FdAssumption DEF Init, MaxInv
<1>2. TableInv' /\ MaxInv /\ [Next]_vars => MaxInv'
  <2> SUFFICES ASSUME TableInv', MaxInv, [Next]_vars PROVE MaxInv'
    OBVIOUS
  <2>1. maxfd' = MaxOf(slots') \/ UNCHANGED <<slots, maxfd>>
    BY DEF Next, Server, AcceptStep, vars, table, kernel, Select, NoAccept, Accept, Skip, Disconnect,
           Recv, Reply, ReplyBlocks, HostReads, Sent, ReplyFails, ReplyKills, removeSocketFdByIndex, Connect, Close, Send
  <2>2. CASE maxfd' = MaxOf(slots')
    <3>1. slots' \in [Slots -> Fds \cup {0}]
      BY DEF TableInv, TableType
    <3> QED BY <2>2, <3>1, MaxOfIs DEF MaxInv
  <2>3. CASE UNCHANGED <<slots, maxfd>>
    BY <2>3 DEF MaxInv
  <2> QED BY <2>1, <2>2, <2>3
<1> QED BY <1>1, <1>2, TableInvariant, PTL DEF Spec

(* select never is blind to a socket: max_fd is computed anew after every   *)
(* accept and every removal (main.c:475, 610).                              *)
THEOREM SelectSeesAll == Spec => []MaxFdCovers
<1>1. TableInv /\ MaxInv => MaxFdCovers
  <2> SUFFICES ASSUME TableInv, MaxInv, NEW f \in set0 PROVE f <= maxfd
    BY DEF MaxFdCovers
  <2>1. f = ServerFd \/ \E s \in Slots : slots[s] = f
    BY DEF TableInv, TableConsistent, Used
  <2> QED BY <2>1 DEF MaxInv
<1> QED BY <1>1, TableInvariant, MaxInvariant, PTL

(* What the table and the descriptors do not depend on. *)
RestType ==
  /\ ackSeq \in Nat /\ pc \in {"select", "accept", "scan", "reply", "send"}
  /\ pending \subseteq Clients /\ closed \subseteq Clients
  /\ queue \in [Clients -> Seq(Messages)]
  /\ killed \in BOOLEAN
  /\ asked \in [Clients -> Nat] /\ answered \in [Clients -> Nat]

LEMMA RestIsTyped == Spec => []RestType
<1>1. Init => RestType
  <2> SUFFICES ASSUME Init PROVE RestType
    OBVIOUS
  <2>1. queue = [c \in Clients |-> <<>>] /\ <<>> \in Seq(Messages)
    BY EmptySeq DEF Init, NoMessages
  <2>2. queue \in [Clients -> Seq(Messages)]
    BY <2>1
  <2> QED BY <2>2 DEF Init, RestType
<1>2. TableInv /\ RestType /\ [Next]_vars => RestType'
  <2> SUFFICES ASSUME TableInv, RestType, [Next]_vars PROVE RestType'
    OBVIOUS
  <2>1. ASSUME NEW c \in Clients, Connect(c) PROVE RestType'
    BY <2>1 DEF Connect, RestType
  <2>2. ASSUME NEW c \in Clients, Close(c) PROVE RestType'
    BY <2>2 DEF Close, RestType
  <2>3. ASSUME NEW c \in Clients, NEW m \in Messages, Send(c, m) PROVE RestType'
    <3>1. queue' \in [Clients -> Seq(Messages)]
      BY <2>3 DEF Send, RestType
    <3> QED BY <2>3, <3>1 DEF Send, RestType
  <2>4. CASE Select \/ NoAccept \/ Skip \/ ReplyBlocks \/ ReplyKills
    BY <2>4 DEF Select, NoAccept, Skip, ReplyBlocks, ReplyKills, Advance, kernel, RestType
  <2>5. ASSUME NEW c \in Clients, NEW f \in Fds, Accept(c, f) PROVE RestType'
    BY <2>5 DEF Accept, RestType
  <2>6. CASE Disconnect \/ ReplyFails
    BY <2>6 DEF Disconnect, ReplyFails, Advance, RestType
  <2>7. CASE Recv
    <3>1. Peer \in Clients
      BY <2>7, ReadablePlace DEF Recv, Readable, Peer, TableInv, TableType
    <3>2. Head(queue[Peer]) \in Messages
      BY <2>7, <3>1 DEF Recv, RestType
    <3>3. ackSeq' \in Nat
      BY <2>7, <3>2, MessageAssumption DEF Recv, RestType
    <3>4. queue' \in [Clients -> Seq(Messages)]
      <4>1. queue' = [queue EXCEPT ![Peer] = <<>>] /\ <<>> \in Seq(Messages)
        BY <2>7, EmptySeq DEF Recv
      <4> QED BY <4>1 DEF RestType
    <3> QED BY <2>7, <3>3, <3>4 DEF Recv, Advance, RestType
  <2>8. CASE Reply \/ HostReads
    <3>1. answered' = [answered EXCEPT ![Peer] = @ + 1]
      BY <2>8 DEF Reply, HostReads, Sent
    <3>2. answered' \in [Clients -> Nat]
      <4>1. CASE Peer \in Clients
        BY <3>1, <4>1 DEF RestType
      <4>2. CASE Peer \notin Clients
        BY <3>1, <4>2 DEF RestType
      <4> QED BY <4>1, <4>2
    <3> QED BY <2>8, <3>2 DEF Reply, HostReads, Sent, Advance, kernel, RestType
  <2>9. CASE UNCHANGED vars
    BY <2>9 DEF vars, RestType
  <2> QED BY <2>1, <2>2, <2>3, <2>4, <2>5, <2>6, <2>7, <2>8, <2>9 DEF Next, Server, AcceptStep
<1> QED BY <1>1, <1>2, TableInvariant, PTL DEF Spec

(* The values of the variables: in particular the scan never looks beyond   *)
(* iSocketFds, and no removal makes the count negative (main.c:487, 604).   *)
THEOREM ServerTyped == Spec => []TypeOK
<1>1. TableInv /\ MaxInv /\ RestType => TypeOK
  BY DEF TableInv, TableType, TableConsistent, Used, MaxInv, RestType, TypeOK
<1> QED BY <1>1, TableInvariant, MaxInvariant, RestIsTyped, PTL

-----------------------------------------------------------------------------
(***************************************************************************)
(* The frames that travel over these connections, for every sequence       *)
(* number and every number of data bytes, not only those of the            *)
(* model-checked set.                                                      *)
(***************************************************************************)

(* A legal frame has at least 22 bytes, the least the readers accept        *)
(* (v2.c:47, 126).                                                          *)
LEMMA LegalFramesAreLongEnough ==
  ASSUME NEW a \in Args, Legal(a.data_len)
  PROVE  FrameLen(a.type, a.data_len) >= 22 /\ FrameLen(a.type, a.data_len) \in Int
<1>1. a.data_len \in Nat
  BY V2Assumption DEF Args
<1> QED
  BY <1>1 DEF FrameLen, HeaderLen, ContentHead, EndLen, Legal

(* The two length bytes of a data frame add up to data_len + 10, on both    *)
(* sides of the switch to two bytes (v2.c:66).                              *)
LEMMA LengthBytesAddUp ==
  ASSUME NEW n \in 10..500
  PROVE  LET b == LengthBytes(FRAME_TYPE_TCD, n) IN b[1] + b[2] = n + 10
<1>1. CASE n + 10 < 255
  BY <1>1 DEF LengthBytes, Byte, FRAME_TYPE_TCD
<1>2. CASE ~(n + 10 < 255)
  <2>1. n + 10 - 255 \in 0..255
    BY <1>2
  <2>2. Byte(n + 10 - 255) = n + 10 - 255
    BY <2>1 DEF Byte
  <2> QED
    BY <1>2, <2>2 DEF LengthBytes, FRAME_TYPE_TCD
<1> QED
  BY <1>1, <1>2

(* The result is that of the last call. *)
MadeFrom ==
  /\ call \in Args
  /\ ret # Illegal =>
       /\ Legal(call.data_len)
       /\ result = MakeFrame(call.send_seq, call.ack_seq, call.type, call.data_len)
       /\ ret = FrameLen(call.type, call.data_len)

LEMMA MadeFromInvariant == V2Spec => []MadeFrom
<1>1. V2Init => MadeFrom
  BY DEF V2Init, MadeFrom
<1>2. MadeFrom /\ [V2Next]_v2 => MadeFrom'
  BY DEF MadeFrom, V2Next, Call, v2
<1> QED
  BY <1>1, <1>2, PTL DEF V2Spec

(* A receiver that cuts the stream by the declared length finds the end of  *)
(* every frame (v2.c:57-75).                                                *)
THEOREM LengthsAreDeclared == V2Spec => []LengthDeclared
<1>1. MadeFrom => LengthDeclared
  <2> SUFFICES ASSUME MadeFrom, ret # Illegal,
                      call.data_len \in 10..(IF call.type = FRAME_TYPE_TCD THEN 500 ELSE 10)
               PROVE  Declared(result) + HeaderLen = ret
    BY DEF LengthDeclared
  <2>1. call.type \in Types /\ call.data_len \in Nat
    BY V2Assumption DEF MadeFrom, Args
  <2>2. /\ result = MakeFrame(call.send_seq, call.ack_seq, call.type, call.data_len)
        /\ ret = FrameLen(call.type, call.data_len)
    BY DEF MadeFrom
  <2>3. /\ result.length = LengthBytes(call.type, call.data_len)
        /\ ret = HeaderLen + ContentHead + call.data_len + EndLen(call.type)
    BY <2>2 DEF MakeFrame, FrameLen
  <2>4. CASE call.type = FRAME_TYPE_TCD
    <3>1. call.data_len \in 10..500
      BY <2>4
    <3>2. result.length[1] + result.length[2] = call.data_len + 10
      BY <3>1, <2>3, <2>4, LengthBytesAddUp
    <3> QED
      BY <3>1, <3>2, <2>3, <2>4 DEF Declared, HeaderLen, ContentHead, EndLen
  <2>5. CASE call.type # FRAME_TYPE_TCD
    <3>1. call.data_len = 10
      BY <2>5
    <3> QED
      BY <3>1, <2>3, <2>5 DEF Declared, LengthBytes, HeaderLen, ContentHead, EndLen
  <2> QED
    BY <2>4, <2>5
<1> QED
  BY <1>1, MadeFromInvariant, PTL

(* The readers give back what MakeFrame was given (v2.c:124-156).           *)
THEOREM ReadersAcceptAll == V2Spec => []ReadersAccept
<1>1. MadeFrom => ReadersAccept
  <2> SUFFICES ASSUME MadeFrom, ret # Illegal
               PROVE  /\ GetFrameType(result, ret) = call.type
                      /\ GetFrameSendSeq(result, ret) = call.send_seq % 256
                      /\ GetFrameAckSeq(result, ret) = call.ack_seq % 256
    BY DEF ReadersAccept
  <2>1. Legal(call.data_len) /\ call \in Args
    BY DEF MadeFrom
  <2>2. /\ result = MakeFrame(call.send_seq, call.ack_seq, call.type, call.data_len)
        /\ ret = FrameLen(call.type, call.data_len)
    BY DEF MadeFrom
  <2>3. ret >= 22 /\ ret \in Int
    BY <2>1, <2>2, LegalFramesAreLongEnough
  <2>4. ~(ret < 22)
    BY <2>3
  <2>5. Byte(call.type) = call.type
    BY <2>1 DEF Args, Types, Byte, FRAME_TYPE_CA, FRAME_TYPE_CR,
                FRAME_TYPE_CE, FRAME_TYPE_HB, FRAME_TYPE_TCD
  <2> QED
    BY <2>2, <2>4, <2>5 DEF MakeFrame, GetFrameType, GetFrameSendSeq,
                            GetFrameAckSeq, Byte
<1> QED
  BY <1>1, MadeFromInvariant, PTL
=============================================================================
