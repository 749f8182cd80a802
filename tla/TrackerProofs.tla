--------------------------- MODULE TrackerProofs ---------------------------
(***************************************************************************)
(* For every set of connections, files and messages and every bound: the   *)
(* file table's lock keeps its promise (CriticalSection), the threads      *)
(* implement the serial machine of TableMachine.tla (SerialSpec), every    *)
(* listed address can still be removed (HoldersAccounted), and the list of *)
(* peers stays sound under the threads that change it (PeerListSound), so  *)
(* that broadcasts reach all they should (BroadcastComplete) and lose one  *)
(* peer at most to the monitor (OneLostPerBroadcast).                      *)
(***************************************************************************)
EXTENDS Tracker, FileTableLemmas

\* A thread that handles a message has one, from a peer that has registered.
MessageInv ==
  \A c \in Conns :
    /\ addr[c] \in {NoAddr, AddrOf[c]}
    /\ pc[c] \in {"print", "lock"} \cup Critical => msg[c] \in Message /\ addr[c] = AddrOf[c]
    /\ pc[c] \in {"print", "lock"} /\ msg[c].type = "FILE_UPDATE" => msg[c].events \in EventLists
    /\ pc[c] \in {"reply", "broadcast", "sent"} => msg[c].events = <<>>

\* While the monitor removes a peer it has one.
MonitorInv == monPc \in {"evict", "unlink", "cancel", "join"} => monCur \in Conns

TypeInv == TypeOK /\ GoodTable(table) /\ MessageInv /\ MonitorInv

LEMMA TypeInit == Init => TypeInv
<1>. SUFFICES ASSUME Init PROVE TypeInv
  OBVIOUS
<1>1. TypeOK
  BY EmptyTableGood DEF Init, TypeOK, GoodTable, HandshakePcs, MonitorPcs
<1>2. MessageInv
  BY DEF Init, MessageInv, Critical
<1>3. GoodTable(table)
  BY EmptyTableGood DEF Init
<1>4. MonitorInv
  BY DEF Init, MonitorInv
<1>. QED
  BY <1>1, <1>2, <1>3, <1>4 DEF TypeInv

\* Taking an event off a message leaves a message; so does filetable_fileDiff.
LEMMA MessageFacts ==
  ASSUME NEW m \in Message
  PROVE  /\ m.events # <<>> => /\ Head(m.events) \in FileEvent
                               /\ [m EXCEPT !.events = Tail(@)] \in Message
         /\ m.type = "REGISTER" => \A t : [m EXCEPT !.events = FileDiff(t, m.files)] \in Message
<1>1. m.events # <<>> => Head(m.events) \in FileEvent /\ Tail(m.events) \in Seq(FileEvent)
  BY DEF Message
<1>2. m.type = "REGISTER" => \A t : FileDiff(t, m.files) \in Seq(FileEvent)
  BY FileDiffType, MessagesAssumption DEF Message
<1>. QED
  BY <1>1, <1>2 DEF Message

LEMMA TypeNext == TypeInv /\ [Next]_vars => TypeInv'
<1>. SUFFICES ASSUME TypeInv, [Next]_vars PROVE TypeInv'
  OBVIOUS
<1>. USE ConnsAssumption DEF TypeInv, TypeOK, MessageInv, MonitorInv, HandshakePcs, MonitorPcs, Critical,
         tableVars, peerVars, threadVars, monitorVars, history, Defined, Outdate, Sent
<1>1. ASSUME NEW c \in Conns, Accept(c) PROVE TypeInv'
  BY <1>1 DEF Accept
<1>2. CASE PeertableAdd
  BY <1>2 DEF PeertableAdd
<1>3. ASSUME NEW c \in Conns, Receive(c) PROVE TypeInv'
  <2>1. ASSUME NEW files \in FileLists, ReceiveRegister(c, files) PROVE TypeInv'
    <3>1. [type |-> "REGISTER", files |-> files, events |-> <<>>] \in Message
      BY DEF Message
    <3>. QED
      BY <2>1, <3>1 DEF ReceiveRegister
  <2>2. CASE ReceiveKeepAlive(c)
    BY <2>2 DEF ReceiveKeepAlive
  <2>3. ASSUME NEW events \in EventLists, ReceiveFileUpdate(c, events) PROVE TypeInv'
    <3>1. [type |-> "FILE_UPDATE", files |-> <<>>, events |-> events] \in Message
      BY MessagesAssumption DEF Message
    <3>2. addr[c] = AddrOf[c]
      BY <2>3 DEF ReceiveFileUpdate
    <3>. QED
      BY <2>3, <3>1, <3>2 DEF ReceiveFileUpdate
  <2>4. CASE ReceiveEof(c)
    BY <2>4 DEF ReceiveEof
  <2>. QED
    BY <1>3, <2>1, <2>2, <2>3, <2>4 DEF Receive
<1>4. ASSUME NEW c \in Conns, Handle(c) PROVE TypeInv'
  <2>1. CASE TakeLock(c)
    <3>1. msg[c] \in Message
      BY <2>1 DEF TakeLock
    <3>2. msg' \in [Conns -> Message \cup {NoMessage}] /\ msg'[c] \in Message
      BY <2>1, <3>1, MessageFacts DEF TakeLock
    <3>3. \A d \in Conns \ {c} : msg'[d] = msg[d]
      BY <2>1 DEF TakeLock
    <3>. QED
      BY <2>1, <3>2, <3>3 DEF TakeLock
  <2>2. CASE MergeEvent(c)
    <3>1. msg[c] \in Message /\ addr[c] \in Addrs
      BY <2>2 DEF MergeEvent
    <3>2. GoodTable(table')
      BY <2>2, <3>1, MessageFacts, AppliedGood DEF MergeEvent
    <3>3. msg' \in [Conns -> Message \cup {NoMessage}] /\ msg'[c] \in Message
      BY <2>2, <3>1, MessageFacts DEF MergeEvent
    <3>4. \A d \in Conns \ {c} : msg'[d] = msg[d]
      BY <2>2 DEF MergeEvent
    <3>. QED
      <4>1. upToDate' \in [Conns -> BOOLEAN] /\ IsTable(table')
        BY <2>2, <3>2 DEF MergeEvent, GoodTable
      <4>2. /\ pc[c] = "merge" /\ pc' = pc /\ UNCHANGED ub
            /\ UNCHANGED <<tableLive, ftLock, peerVars, addr, stamp, pc, cur, cancelled,
                           monitorVars, received, first, audience>>
        BY <2>2 DEF MergeEvent
      <4>3. TypeOK'
        BY <3>3, <4>1, <4>2
      <4>4. MessageInv' /\ MonitorInv'
        BY <3>3, <3>4, <4>2
      <4>. QED
        BY <3>2, <4>3, <4>4
  <2>3. CASE MergeDone(c)
    BY <2>3 DEF MergeDone, StartBroadcast, Listed
  <2>4. CASE SendRegisterAck(c)
    BY <2>4 DEF SendRegisterAck, StartBroadcast, Listed
  <2>5. CASE BroadcastOne(c)
    <3>1. /\ cur[c] \in Conns /\ UNCHANGED ub /\ pc[c] = "broadcast"
          /\ pc' = [pc EXCEPT ![c] = "sent"]
          /\ first' = [first EXCEPT ![cur[c]] = IF @ = "NONE" THEN "TABLE_UPDATE" ELSE @]
          /\ upToDate' = [upToDate EXCEPT ![cur[c]] = TRUE]
          /\ UNCHANGED <<table, tableLive, ftLock, head, next, struct, starting, addr, stamp,
                         msg, cur, cancelled, monPc, monCur, monNext, scans, received, audience>>
      BY <2>5 DEF BroadcastOne
    <3>2. TypeOK'
      BY <3>1
    <3>3. GoodTable(table') /\ MessageInv' /\ MonitorInv'
      BY <3>1
    <3>. QED
      BY <3>2, <3>3
  <2>6. CASE BroadcastDone(c)
    BY <2>6 DEF BroadcastDone
  <2>7. CASE Exit(c)
    BY <2>7, RemovePeerAllGood DEF Exit, GoodTable
  <2>8. CASE Killed(c)
    BY <2>8 DEF Killed
  <2>9. CASE HandshakeUndefined(c)
    BY <2>9 DEF HandshakeUndefined, Undefined
  <2>10. CASE Printed(c)
    BY <2>10 DEF Printed
  <2>11. CASE BroadcastNext(c)
    BY <2>11 DEF BroadcastNext, Passed
  <2>12. CASE KilledMerging(c)
    <3>1. GoodTable(table')
      BY <2>12, CutShortGood DEF KilledMerging
    <3>. QED
      BY <2>12, <3>1 DEF KilledMerging, GoodTable
  <2>. QED
    BY <1>4, <2>1, <2>2, <2>3, <2>4, <2>5, <2>6, <2>7, <2>8, <2>9, <2>10, <2>11, <2>12 DEF Handle
<1>5. CASE MonitorWake
  BY <1>5 DEF MonitorWake
<1>6. CASE MonitorStep
  <2>1. CASE MonitorScan
    BY <2>1 DEF MonitorScan
  <2>2. CASE MonitorEvict
    BY <2>2, RemovePeerAllGood DEF MonitorEvict, GoodTable
  <2>3. CASE MonitorUnlink
    BY <2>3 DEF MonitorUnlink
  <2>4. CASE MonitorCancel
    BY <2>4 DEF MonitorCancel
  <2>5. CASE MonitorJoin
    BY <2>5 DEF MonitorJoin
  <2>6. CASE MonitorListEnd
    BY <2>6 DEF MonitorListEnd
  <2>7. CASE MonitorDestroyTable
    BY <2>7 DEF MonitorDestroyTable
  <2>8. CASE MonitorUndefined
    BY <2>8 DEF MonitorUndefined, Undefined
  <2>9. CASE MonitorNewTable
    BY <2>9, EmptyTableGood DEF MonitorNewTable, GoodTable
  <2>. QED
    BY <1>6, <2>1, <2>2, <2>3, <2>4, <2>5, <2>6, <2>7, <2>8, <2>9 DEF MonitorStep
<1>7. CASE UNCHANGED vars
  BY <1>7 DEF vars
<1>. QED
  BY <1>1, <1>2, <1>3, <1>4, <1>5, <1>6, <1>7 DEF Next

\* Every variable of the tracker has the type the code gives it.
THEOREM TypeCorrect == Spec => []TypeOK
<1>1. TypeInv => TypeOK
  BY DEF TypeInv
<1>. QED
  BY <1>1, TypeInit, TypeNext, PTL DEF Spec

----------------------------------------------------------------------------
\* The lock: a thread in its critical section owns it, and only such a thread or
\* one that was cancelled there does; the table is gone only while nobody is in.
LockInv ==
  /\ \A c \in Conns : pc[c] \in Critical => ftLock = c
  /\ ftLock # Nobody => pc[ftLock] \in Critical \cup {"killed"}
  /\ tableLive <=> monPc # "renew"
  /\ monPc = "renew" => \A c \in Conns : pc[c] \notin Critical
  /\ \A c \in Conns : struct[c] = "unused" => pc[c] = "none"

LEMMA LockInit == Init => LockInv
BY DEF Init, LockInv, HandshakePcs, MonitorPcs, Critical

\* Each step keeps the lock's invariant.
LEMMA LockNext == TypeInv /\ LockInv /\ [Next]_vars => LockInv'
<1>. SUFFICES ASSUME TypeOK, LockInv, [Next]_vars PROVE LockInv'
  BY DEF TypeInv
<1>. USE ConnsAssumption DEF TypeOK, LockInv, HandshakePcs, MonitorPcs, Critical,
         tableVars, peerVars, threadVars, monitorVars, history
<1>1. ASSUME NEW c \in Conns, Accept(c) PROVE LockInv'
  BY <1>1 DEF Accept
<1>2. CASE PeertableAdd
  BY <1>2 DEF PeertableAdd
<1>3. ASSUME NEW c \in Conns, Receive(c) PROVE LockInv'
  <2>1. ASSUME NEW files \in FileLists, ReceiveRegister(c, files) PROVE LockInv'
    BY <2>1 DEF ReceiveRegister
  <2>2. CASE ReceiveKeepAlive(c)
    BY <2>2 DEF ReceiveKeepAlive
  <2>3. ASSUME NEW events \in EventLists, ReceiveFileUpdate(c, events) PROVE LockInv'
    BY <2>3 DEF ReceiveFileUpdate
  <2>4. CASE ReceiveEof(c)
    BY <2>4 DEF ReceiveEof
  <2>. QED
    BY <1>3, <2>1, <2>2, <2>3, <2>4 DEF Receive
<1>4. ASSUME NEW c \in Conns, Handle(c) PROVE LockInv'
  <2>1. CASE TakeLock(c)
    BY <2>1 DEF TakeLock
  <2>2. CASE MergeEvent(c)
    BY <2>2 DEF MergeEvent
  <2>3. CASE MergeDone(c)
    BY <2>3 DEF MergeDone, StartBroadcast
  <2>4. CASE SendRegisterAck(c)
    BY <2>4 DEF SendRegisterAck, StartBroadcast
  <2>5. CASE BroadcastOne(c)
    BY <2>5 DEF BroadcastOne
  <2>6. CASE BroadcastDone(c)
    BY <2>6 DEF BroadcastDone
  <2>7. CASE Exit(c)
    BY <2>7 DEF Exit
  <2>8. CASE Killed(c)
    BY <2>8 DEF Killed
  <2>9. CASE HandshakeUndefined(c)
    BY <2>9 DEF HandshakeUndefined, Undefined
  <2>10. CASE Printed(c)
    BY <2>10 DEF Printed
  <2>11. CASE BroadcastNext(c)
    BY <2>11 DEF BroadcastNext, Passed
  <2>12. CASE KilledMerging(c)
    BY <2>12 DEF KilledMerging
  <2>. QED
    BY <1>4, <2>1, <2>2, <2>3, <2>4, <2>5, <2>6, <2>7, <2>8, <2>9, <2>10, <2>11, <2>12 DEF Handle
<1>5. CASE MonitorWake
  BY <1>5 DEF MonitorWake
<1>6. CASE MonitorStep
  <2>1. CASE MonitorScan
    BY <2>1 DEF MonitorScan
  <2>2. CASE MonitorEvict
    BY <2>2 DEF MonitorEvict
  <2>3. CASE MonitorUnlink
    BY <2>3 DEF MonitorUnlink
  <2>4. CASE MonitorCancel
    BY <2>4 DEF MonitorCancel
  <2>5. CASE MonitorJoin
    BY <2>5 DEF MonitorJoin
  <2>6. CASE MonitorListEnd
    BY <2>6 DEF MonitorListEnd
  <2>7. CASE MonitorDestroyTable
    BY <2>7 DEF MonitorDestroyTable
  <2>8. CASE MonitorUndefined
    BY <2>8 DEF MonitorUndefined, Undefined
  <2>9. CASE MonitorNewTable
    BY <2>9 DEF MonitorNewTable
  <2>. QED
    BY <1>6, <2>1, <2>2, <2>3, <2>4, <2>5, <2>6, <2>7, <2>8, <2>9 DEF MonitorStep
<1>7. CASE UNCHANGED vars
  BY <1>7 DEF vars
<1>. QED
  BY <1>1, <1>2, <1>3, <1>4, <1>5, <1>6, <1>7 DEF Next

\* Merging and broadcasting are mutually exclusive, on a live table, although
\* threads are cancelled inside the lock and the monitor replaces the table.
THEOREM Exclusion == Spec => []CriticalSection
<1>1. LockInv => CriticalSection
  BY DEF LockInv, CriticalSection, Critical
<1>. QED
  BY <1>1, TypeInit, TypeNext, LockInit, LockNext, PTL DEF Spec

----------------------------------------------------------------------------
\* The refinement of TableMachine.

\* The machine's file table operators are the tracker's.
LEMMA SameOperators ==
  /\ Serial!EmptyTable = EmptyTable
  /\ \A t, a : Serial!RemovePeerAll(t, a) = RemovePeerAll(t, a)
  /\ \A t, files : Serial!FileDiff(t, files) = FileDiff(t, files)
  /\ \A t, e, a : Serial!Applied(t, e, a) = Applied(t, e, a)
  /\ \A t, d : Serial!RemovalsCutShort(t, d) = RemovalsCutShort(t, d)
<1>. USE DEF Present, Serial!Present
<1>1. Serial!EmptyTable = EmptyTable
  BY DEF EmptyTable, Serial!EmptyTable
<1>2. \A t, a : Serial!RemovePeerAll(t, a) = RemovePeerAll(t, a)
  BY DEF RemovePeerAll, Serial!RemovePeerAll, EntryRemovePeer, Serial!EntryRemovePeer,
         WithPeers, Serial!WithPeers
<1>3. \A t, files : Serial!FileDiff(t, files) = FileDiff(t, files)
  BY DEF FileDiff, Serial!FileDiff, DiffEvent, Serial!DiffEvent
<1>4. \A t, n, e : Serial!WithEntry(t, n, e) = WithEntry(t, n, e)
  BY DEF WithEntry, Serial!WithEntry
<1>5. \A t, f, a : Serial!UpdateMod(t, f, a) = UpdateMod(t, f, a)
  BY <1>4 DEF UpdateMod, Serial!UpdateMod, SoleHolder, Serial!SoleHolder
<1>6. \A t, f, a : Serial!Insert(t, f, a) = Insert(t, f, a)
  BY <1>4, <1>5 DEF Insert, Serial!Insert, Sized, Serial!Sized, SoleHolder, Serial!SoleHolder
<1>7. \A t, f, a : Serial!AddPeer(t, f, a) = AddPeer(t, f, a)
  BY <1>4 DEF AddPeer, Serial!AddPeer, HasIp, Serial!HasIp, Joined, Serial!Joined,
              WithPeers, Serial!WithPeers
<1>10. \A t, e : Serial!Doomed(t, e) = Doomed(t, e)
  BY DEF Doomed, Serial!Doomed
<1>11. \A t, gone : Serial!Without(t, gone) = Without(t, gone)
  <2>1. \A S : Serial!Cardinality(S) = Cardinality(S)
    BY DEF Cardinality, Serial!Cardinality
  <2>. QED
    BY <2>1 DEF Without, Serial!Without
<1>8. ASSUME NEW t, NEW d PROVE Serial!RemoveResults(t, d) = RemoveResults(t, d)
  <2>1. \A e : Serial!Doomed(t, e) = Doomed(t, e)
    BY <1>10
  <2>2. Serial!RemovedSets(t, d) = RemovedSets(t, d)
    <3>1. \A S : Serial!Swept(t, d, S) <=> Swept(t, d, S)
      BY <2>1 DEF Swept, Serial!Swept
    <3>2. { S \in SUBSET Serial!Doomed(t, d) : Serial!Swept(t, d, S) }
            = { S \in SUBSET Doomed(t, d) : Swept(t, d, S) }
      BY <2>1, <3>1
    <3>. QED
      BY <3>2, Zenon DEF RemovedSets, Serial!RemovedSets
  <2>. QED
    BY <1>11, <2>2 DEF RemoveResults, Serial!RemoveResults
<1>9. \A t, e, a : Serial!Applied(t, e, a) = Applied(t, e, a)
  BY <1>5, <1>6, <1>7, <1>8 DEF Applied, Serial!Applied
<1>12. ASSUME NEW t, NEW d PROVE Serial!RemovalsCutShort(t, d) = RemovalsCutShort(t, d)
  <2>1. \A x : Serial!OnTheWay(t, d, x) = OnTheWay(t, d, x)
    BY <1>10 DEF OnTheWay, Serial!OnTheWay
  <2>2. \A x, inside : Serial!GoneBefore(t, d, x, inside) = GoneBefore(t, d, x, inside)
    BY <1>10 DEF GoneBefore, Serial!GoneBefore
  <2>3. \A dirs : Serial!Unmarked(t, dirs) = Unmarked(t, dirs)
    BY DEF Unmarked, Serial!Unmarked
  <2>. DEFINE Way(w) ==
                /\ w[2] \subseteq OnTheWay(t, d, w[1])
                /\ LET gone == GoneBefore(t, d, w[1], w[2])
                   IN \A s \in gone : t.entry[s].dir /\ Doomed(t, s) # {}
                                       => Doomed(t, s) \cap gone # {}
              SerialWay(w) ==
                /\ w[2] \subseteq Serial!OnTheWay(t, d, w[1])
                /\ LET gone == Serial!GoneBefore(t, d, w[1], w[2])
                   IN \A s \in gone : t.entry[s].dir /\ Serial!Doomed(t, s) # {}
                                       => Serial!Doomed(t, s) \cap gone # {}
              Left(w) == Without(Unmarked(t, {d} \cup w[2]), GoneBefore(t, d, w[1], w[2]))
              SerialLeft(w) == Serial!Without(Serial!Unmarked(t, {d} \cup w[2]),
                                              Serial!GoneBefore(t, d, w[1], w[2]))
              Ways == Doomed(t, d) \X SUBSET Doomed(t, d)
  <2>4. \A w : SerialWay(w) <=> Way(w)
    BY <1>10, <2>1, <2>2
  <2>5. \A w : SerialLeft(w) = Left(w)
    BY <1>11, <2>2, <2>3
  <2>6. RemovalsCutShort(t, d) = IF d \notin Present(t) \/ ~t.entry[d].dir THEN {}
                                 ELSE { Left(w) : w \in { v \in Ways : Way(v) } }
    BY DEF RemovalsCutShort
  <2>7. Serial!RemovalsCutShort(t, d)
          = IF d \notin Present(t) \/ ~t.entry[d].dir THEN {}
            ELSE { SerialLeft(w) : w \in { v \in Ways : SerialWay(v) } }
    BY <1>10 DEF Serial!RemovalsCutShort
  <2>8. { Left(w) : w \in { v \in Ways : Way(v) } } = { SerialLeft(w) : w \in { v \in Ways : SerialWay(v) } }
    <3>. HIDE DEF Way, SerialWay, Left, SerialLeft, Ways
    <3>. QED
      BY <2>4, <2>5
  <2>. QED
    <3>. HIDE DEF Way, SerialWay, Left, SerialLeft, Ways
    <3>. QED
      BY <2>6, <2>7, <2>8
<1>. QED
  BY <1>1, <1>2, <1>3, <1>9, <1>12

\* While the lock is free, or its owner does not merge, the machine is idle.
LEMMA IdleHolder ==
  ASSUME TypeInv, LockInv, ftLock = Nobody \/ pc[ftLock] # "merge"
  PROVE  holder = NoMessage
BY ConnsAssumption DEF holder

\* A thread that merges is the one whose message the machine works on.
LEMMA BusyHolder ==
  ASSUME TypeInv, LockInv, NEW c \in Conns, pc[c] = "merge"
  PROVE  ftLock = c /\ holder = msg[c]
BY DEF holder, LockInv, Critical

\* Nothing the machine sees has changed.
SameMachine == /\ table' = table
               /\ holder' = holder
               /\ holder.events # <<>> => addr'[ftLock'] = addr[ftLock]
               /\ Abandoned' <=> Abandoned

LEMMA Stutters == SameMachine => UNCHANGED Serial!vars
BY DEF SameMachine, Serial!vars, Serial!NoAddr

\* Only who was killed in the middle of a merge has left the machine abandoned.
LEMMA FreeIsIdle ==
  ASSUME ftLock \notin Conns \/ pc[ftLock] # "killed"
  PROVE  ~Abandoned
BY DEF Abandoned

\* A thread or the monitor that takes nothing from the lock and leaves the merging
\* thread alone makes no step of the machine.
LEMMA NoChange ==
  ASSUME TypeInv, LockInv, ftLock' = ftLock, table' = table,
         ftLock \in Conns =>
           /\ pc'[ftLock] = "merge" <=> pc[ftLock] = "merge"
           /\ pc[ftLock] = "merge" => msg'[ftLock] = msg[ftLock] /\ addr'[ftLock] = addr[ftLock],
         Abandoned' <=> Abandoned
  PROVE  SameMachine
<1>1. CASE ftLock \in Conns /\ pc[ftLock] = "merge"
  BY <1>1 DEF SameMachine, holder
<1>2. CASE ~(ftLock \in Conns /\ pc[ftLock] = "merge")
  <2>1. holder = NoMessage /\ holder' = NoMessage
    BY <1>2 DEF holder
  <2>. QED
    BY <2>1 DEF SameMachine, NoMessage
<1>. QED
  BY <1>1, <1>2

LEMMA ThreadsStutter ==
  ASSUME TypeInv, LockInv, ftLock' = ftLock, table' = table,
         ftLock \in Conns =>
           /\ pc'[ftLock] = "merge" <=> pc[ftLock] = "merge"
           /\ pc'[ftLock] = "killed" <=> pc[ftLock] = "killed"
           /\ pc[ftLock] \in {"merge", "killed"}
                => msg'[ftLock] = msg[ftLock] /\ addr'[ftLock] = addr[ftLock]
  PROVE  SameMachine
<1>1. Abandoned' <=> Abandoned
  BY DEF Abandoned
<1>. QED
  BY <1>1, NoChange

\* Removing the address of a connection is a step of the machine, or no step at
\* all if the connection never registered.
LEMMA RemovalStep ==
  ASSUME TypeInv, LockInv, NEW c \in Conns, ftLock = Nobody, ftLock' = Nobody,
         table' = RemovePeerAll(table, addr[c])
  PROVE  Serial!Next \/ UNCHANGED Serial!vars
<1>1. holder = NoMessage /\ holder' = NoMessage
  BY ConnsAssumption DEF holder
<1>2. UNCHANGED <<holder.events, IF holder.events = <<>> THEN NoAddr ELSE addr[ftLock],
                  CASE Abandoned -> "abandoned"
                    [] ~Abandoned /\ holder.events # <<>> -> holder.type
                    [] OTHER -> "idle">>
  <2>1. ~Abandoned /\ ~Abandoned'
    BY ConnsAssumption DEF Abandoned
  <2>. QED
    BY <1>1, <2>1 DEF NoMessage
<1>3. CASE addr[c] \in Addrs
  <2>1. Serial!Leave(addr[c])
    <3>1. ~Abandoned
      BY ConnsAssumption, FreeIsIdle
    <3>. QED
      BY <1>1, <1>2, <3>1, SameOperators DEF Serial!Leave, NoMessage
  <2>. QED
    BY <1>3, <2>1 DEF Serial!Next
<1>4. CASE addr[c] \notin Addrs
  <2>1. \A n \in Present(table) : addr[c] \notin table.entry[n].peers
    BY <1>4, GoodEntries DEF TypeInv, GoodEntry, Entry
  <2>2. \A n \in Present(table) : EntryRemovePeer(table.entry[n], addr[c]) = table.entry[n]
    BY <2>1 DEF EntryRemovePeer
  <2>3. table' = table
    BY <2>2 DEF TypeInv, GoodTable, IsTable, Present, RemovePeerAll
  <2>. QED
    BY <1>2, <2>3 DEF Serial!vars
<1>. QED
  BY <1>3, <1>4

LEMMA SerialInit == Init => Serial!Init
BY SameOperators, ConnsAssumption
   DEF Init, Serial!Init, holder, Abandoned, NoMessage, NoAddr, Serial!NoAddr

\* Every step of the tracker is a step of the machine or changes nothing in it.
LEMMA SerialNext == TypeInv /\ LockInv /\ [Next]_vars => [Serial!Next]_(Serial!vars)
<1>. SUFFICES ASSUME TypeInv, LockInv, [Next]_vars
              PROVE  Serial!Next \/ UNCHANGED Serial!vars
  OBVIOUS
<1>. USE DEF tableVars, peerVars, threadVars, monitorVars, history, Critical
<1>0. /\ pc \in [Conns -> HandshakePcs] /\ msg \in [Conns -> Message \cup {NoMessage}]
      /\ addr \in [Conns -> Addrs \cup {NoAddr}] /\ ftLock \in Conns \cup {Nobody}
      /\ Nobody \notin Conns
      /\ \A c \in Conns : pc[c] \in Critical => ftLock = c
  BY ConnsAssumption DEF TypeInv, TypeOK, LockInv
<1>1. ASSUME NEW c \in Conns, Accept(c) PROVE SameMachine
  <2>1. pc[c] = "none"
    BY <1>1 DEF Accept, LockInv
  <2>. QED
    BY <1>0, <1>1, <2>1, ThreadsStutter DEF Accept, LockInv
<1>2. CASE PeertableAdd
  BY <1>0, <1>2, ThreadsStutter, Stutters DEF PeertableAdd
<1>3. ASSUME NEW c \in Conns, Receive(c) PROVE SameMachine
  <2>1. pc[c] = "recv" /\ ftLock # c
    BY <1>0, <1>3 DEF Receive, ReceiveRegister, ReceiveKeepAlive, ReceiveFileUpdate, ReceiveEof,
                      LockInv
  <2>2. /\ ftLock' = ftLock /\ table' = table
        /\ \A d \in Conns \ {c} : pc'[d] = pc[d] /\ msg'[d] = msg[d] /\ addr'[d] = addr[d]
    BY <1>0, <1>3 DEF Receive, ReceiveRegister, ReceiveKeepAlive, ReceiveFileUpdate, ReceiveEof
  <2>. QED
    BY <1>0, <2>1, <2>2, ThreadsStutter
<1>4. ASSUME NEW c \in Conns, Handle(c) PROVE Serial!Next \/ UNCHANGED Serial!vars
  <2>1. CASE TakeLock(c)
    <3>1. holder = NoMessage
      BY <2>1, IdleHolder DEF TakeLock
    <3>2. ftLock' = c /\ pc'[c] = "merge" /\ holder' = msg'[c] /\ addr'[c] = AddrOf[c]
      BY <1>0, <2>1 DEF TakeLock, holder, TypeInv, MessageInv
    <3>3. msg[c] \in Message /\ AddrOf[c] \in Addrs /\ table' = table
      BY <2>1, ConnsAssumption DEF TakeLock, TypeInv, MessageInv
    <3>6. ~Abandoned /\ ~Abandoned'
      BY <1>0, <2>1, <3>2 DEF Abandoned, TakeLock
    <3>4. CASE msg[c].type = "REGISTER"
      <4>1. msg[c].files \in FileLists
        BY <3>3, <3>4 DEF Message
      <4>2. holder'.events = FileDiff(table, msg[c].files) /\ holder'.type = "REGISTER"
        BY <1>0, <2>1, <3>2, <3>3, <3>4 DEF TakeLock, Message
      <4>3. Serial!Register(AddrOf[c], msg[c].files)
        BY <3>1, <3>2, <3>3, <3>6, <4>2, SameOperators
           DEF Serial!Register, Serial!Continue, NoMessage, NoAddr, Serial!NoAddr
      <4>. QED
        BY <3>3, <4>1, <4>3 DEF Serial!Next
    <3>5. CASE msg[c].type = "FILE_UPDATE"
      <4>1. msg[c].events \in EventLists
        BY <2>1, <3>5 DEF TakeLock, TypeInv, MessageInv
      <4>2. holder' = msg[c]
        BY <2>1, <3>2, <3>5 DEF TakeLock
      <4>3. Serial!Update(AddrOf[c], msg[c].events)
        BY <3>1, <3>2, <3>3, <3>5, <3>6, <4>2
           DEF Serial!Update, Serial!Continue, NoMessage, NoAddr, Serial!NoAddr
      <4>. QED
        BY <3>3, <4>1, <4>3 DEF Serial!Next
    <3>. QED
      BY <3>3, <3>4, <3>5 DEF Message
  <2>2. CASE MergeEvent(c)
    <3>1. ftLock = c /\ holder = msg[c] /\ msg[c].events # <<>>
      BY <2>2, BusyHolder DEF MergeEvent
    <3>2. ftLock' = c /\ pc'[c] = "merge" /\ holder' = msg'[c] /\ addr'[c] = addr[c]
      BY <2>2, <3>1 DEF MergeEvent, holder
    <3>3. holder'.events = Tail(holder.events) /\ holder'.type = holder.type
      BY <1>0, <2>2, <3>1, <3>2 DEF MergeEvent, Message, NoMessage
    <3>5. ~Abandoned /\ ~Abandoned'
      BY <2>2, <3>1, <3>2 DEF MergeEvent, Abandoned
    <3>4. Serial!ApplyNext
      BY <2>2, <3>1, <3>2, <3>3, <3>5, SameOperators
         DEF MergeEvent, Serial!ApplyNext, Serial!Continue, NoAddr, Serial!NoAddr
    <3>. QED
      BY <3>4 DEF Serial!Next
  <2>3. CASE MergeDone(c)
    <3>1. ftLock = c /\ ftLock' = c /\ holder = msg[c] /\ msg[c].events = <<>> /\ table' = table
      BY <2>3, BusyHolder DEF MergeDone, StartBroadcast
    <3>2. holder'.events = <<>>
      BY <1>0, <2>3, <3>1 DEF MergeDone, StartBroadcast, holder, NoMessage
    <3>3. ~Abandoned /\ ~Abandoned'
      <4>1. pc[c] = "merge" /\ pc'[c] # "killed"
        BY <1>0, <2>3 DEF MergeDone, StartBroadcast
      <4>. QED
        BY <3>1, <4>1 DEF Abandoned
    <3>. QED
      BY <3>1, <3>2, <3>3 DEF Serial!vars
  <2>4. CASE SendRegisterAck(c)
    BY <1>0, <2>4, ThreadsStutter, Stutters DEF SendRegisterAck, StartBroadcast
  <2>5. CASE BroadcastOne(c)
    BY <1>0, <2>5, ThreadsStutter, Stutters DEF BroadcastOne
  <2>6. CASE BroadcastDone(c)
    <3>1. ftLock = c /\ pc[c] # "merge" /\ ftLock' = Nobody /\ table' = table
      BY <1>0, <2>6 DEF BroadcastDone
    <3>2. holder = NoMessage /\ holder' = NoMessage
      BY <1>0, <3>1 DEF holder
    <3>3. ~Abandoned /\ ~Abandoned'
      BY <1>0, <2>6, <3>1 DEF BroadcastDone, Abandoned
    <3>. QED
      BY <3>1, <3>2, <3>3 DEF Serial!vars, NoMessage
  <2>7. CASE Exit(c)
    BY <2>7, RemovalStep DEF Exit
  <2>8. CASE Killed(c)
    <3>1. ftLock = c => ~Abandoned /\ ~Abandoned'
      <4>1. pc[c] # "killed" /\ (pc[c] \in Critical => msg[c].events = <<>>)
        BY <2>8 DEF Killed, TypeInv, MessageInv
      <4>2. ftLock = c => pc[c] \in Critical
        BY <1>0, <4>1 DEF LockInv
      <4>. QED
        BY <2>8, <4>1, <4>2 DEF Killed, Abandoned
    <3>2. ftLock # c => (Abandoned' <=> Abandoned)
      BY <1>0, <2>8 DEF Killed, Abandoned
    <3>3. SameMachine
      BY <1>0, <2>8, <3>1, <3>2, NoChange DEF Killed
    <3>. QED
      BY <3>3, Stutters
  <2>9. CASE HandshakeUndefined(c)
    BY <1>0, <2>9, ThreadsStutter, Stutters DEF HandshakeUndefined, Undefined
  <2>10. CASE Printed(c)
    <3>1. ftLock # c
      BY <1>0, <2>10 DEF Printed, LockInv
    <3>. QED
      BY <1>0, <2>10, <3>1, ThreadsStutter, Stutters DEF Printed
  <2>11. CASE BroadcastNext(c)
    BY <1>0, <2>11, ThreadsStutter, Stutters DEF BroadcastNext, Passed
  <2>12. CASE KilledMerging(c)
    <3>1. ftLock = c /\ holder = msg[c] /\ msg[c].events # <<>>
      BY <2>12, BusyHolder DEF KilledMerging
    <3>2. ftLock' = c /\ pc'[c] = "killed" /\ msg' = msg
      BY <1>0, <2>12, <3>1 DEF KilledMerging
    <3>3. holder' = NoMessage /\ Abandoned'
      BY <3>1, <3>2 DEF holder, Abandoned
    <3>4. Serial!Abandon
      BY <2>12, <3>1, <3>3, SameOperators
         DEF KilledMerging, Serial!Abandon, NoMessage, NoAddr, Serial!NoAddr
    <3>. QED
      BY <3>4 DEF Serial!Next
  <2>. QED
    BY <1>4, <2>1, <2>2, <2>3, <2>4, <2>5, <2>6, <2>7, <2>8, <2>9, <2>10, <2>11, <2>12 DEF Handle
<1>5. CASE MonitorWake
  BY <1>0, <1>5, ThreadsStutter, Stutters DEF MonitorWake
<1>6. CASE MonitorStep
  <2>1. CASE MonitorEvict
    BY <2>1, RemovalStep DEF MonitorEvict, TypeInv, MonitorInv
  <2>2. CASE MonitorNewTable
    <3>1. ftLock = Nobody \/ pc[ftLock] # "merge"
      BY <1>0, <2>2 DEF MonitorNewTable, LockInv
    <3>2. holder = NoMessage /\ holder' = NoMessage
      BY <1>0, <2>2, <3>1 DEF holder, MonitorNewTable
    <3>4. ~Abandoned'
      BY <1>0, <2>2 DEF MonitorNewTable, Abandoned
    <3>3. Serial!Reset
      BY <2>2, <3>2, <3>4, SameOperators DEF MonitorNewTable, Serial!Reset, NoMessage
    <3>. QED
      BY <3>3 DEF Serial!Next
  <2>3. CASE \/ MonitorScan \/ MonitorUnlink \/ MonitorCancel \/ MonitorJoin
             \/ MonitorListEnd \/ MonitorDestroyTable \/ MonitorUndefined
    <3>1. UNCHANGED <<table, ftLock, pc, msg, addr>>
      BY <2>3 DEF MonitorScan, MonitorUnlink, MonitorCancel, MonitorJoin, MonitorListEnd,
                  MonitorDestroyTable, MonitorUndefined, Undefined
    <3>. QED
      BY <3>1, ThreadsStutter, Stutters
  <2>. QED
    BY <1>6, <2>1, <2>2, <2>3 DEF MonitorStep
<1>7. CASE UNCHANGED vars
  BY <1>7, ThreadsStutter, Stutters DEF vars
<1>. QED
  BY <1>1, <1>2, <1>3, <1>4, <1>5, <1>6, <1>7, Stutters DEF Next

\* Registrations, updates and departures take effect one at a time, as
\* TableMachine.tla says, however the threads of the tracker interleave.
THEOREM Serializable == Spec => SerialSpec
BY SerialInit, SerialNext, TypeInit, TypeNext, LockInit, LockNext, PTL
   DEF Spec, SerialSpec, Serial!Spec
----------------------------------------------------------------------------
\* Who is listed, and what is freed.

LEMMA AccountInit == Init => HoldersAccounted
<1>. SUFFICES ASSUME Init PROVE HoldersAccounted
  OBVIOUS
<1>1. Present(table) = {}
  BY DEF Init, EmptyTable, Present
<1>. QED
  BY <1>1 DEF HoldersAccounted, Holders

\* How a step may treat a thread and its struct: what cannot be undone, and what
\* the last step of a thread leaves of its address.
Forward(c) ==
  /\ cancelled[c] => cancelled'[c]
  /\ addr[c] # NoAddr => addr'[c] = addr[c]
  /\ pc[c] \in {"exited", "killed"} => pc'[c] = pc[c]
  /\ struct'[c] = "freed" => struct[c] = "freed" \/ pc[c] \in {"exited", "killed"}
  /\ (pc[c] \notin {"none", "exited"} /\ pc'[c] \in {"none", "exited"})
       => table' = RemovePeerAll(table, addr[c])

LEMMA StepsForward == TypeInv /\ LockInv /\ [Next]_vars => \A c \in Conns : Forward(c)
<1>. SUFFICES ASSUME TypeOK, LockInv, [Next]_vars PROVE \A c \in Conns : Forward(c)
  BY DEF TypeInv
<1>. USE DEF TypeOK, HandshakePcs, Forward, tableVars, peerVars, threadVars, monitorVars, history
<1>1. ASSUME NEW c \in Conns, Accept(c) PROVE \A d \in Conns : Forward(d)
  BY <1>1 DEF Accept, LockInv
<1>2. CASE PeertableAdd
  BY <1>2 DEF PeertableAdd
<1>3. ASSUME NEW c \in Conns, Receive(c) PROVE \A d \in Conns : Forward(d)
  BY <1>3 DEF Receive, ReceiveRegister, ReceiveKeepAlive, ReceiveFileUpdate, ReceiveEof
<1>4. ASSUME NEW c \in Conns, Handle(c) PROVE \A d \in Conns : Forward(d)
  <2>1. CASE TakeLock(c) \/ MergeEvent(c) \/ MergeDone(c) \/ SendRegisterAck(c)
    BY <2>1 DEF TakeLock, MergeEvent, MergeDone, SendRegisterAck, StartBroadcast
  <2>2. CASE Printed(c) \/ BroadcastOne(c) \/ BroadcastNext(c) \/ BroadcastDone(c)
    BY <2>2 DEF Printed, BroadcastOne, BroadcastNext, BroadcastDone, Passed
  <2>3. CASE Exit(c)
    BY <2>3 DEF Exit
  <2>4. CASE Killed(c) \/ KilledMerging(c) \/ HandshakeUndefined(c)
    BY <2>4 DEF Killed, KilledMerging, HandshakeUndefined, Undefined
  <2>. QED
    BY <1>4, <2>1, <2>2, <2>3, <2>4 DEF Handle
<1>5. CASE MonitorWake
  BY <1>5 DEF MonitorWake
<1>6. CASE MonitorStep
  <2>1. CASE MonitorCancel
    BY <2>1 DEF MonitorCancel
  <2>2. CASE MonitorJoin
    BY <2>2 DEF MonitorJoin
  <2>3. CASE \/ MonitorScan \/ MonitorEvict \/ MonitorUnlink \/ MonitorListEnd
             \/ MonitorDestroyTable \/ MonitorUndefined \/ MonitorNewTable
    BY <2>3 DEF MonitorScan, MonitorEvict, MonitorUnlink, MonitorListEnd, MonitorDestroyTable,
                MonitorUndefined, Undefined, MonitorNewTable
  <2>. QED
    BY <1>6, <2>1, <2>2, <2>3 DEF MonitorStep
<1>7. CASE UNCHANGED vars
  BY <1>7 DEF vars
<1>. QED
  BY <1>1, <1>2, <1>3, <1>4, <1>5, <1>6, <1>7 DEF Next

\* What a step may list: addresses listed before, and that of a thread that merges.
LEMMA StepsList ==
  TypeInv /\ [Next]_vars =>
    \A a \in Holders' : a \in Holders \/ \E c \in Conns : addr'[c] = a /\ pc'[c] = "merge"
<1>. SUFFICES ASSUME TypeInv, [Next]_vars, NEW a \in Holders', a \notin Holders
              PROVE  \E c \in Conns : addr'[c] = a /\ pc'[c] = "merge"
  OBVIOUS
<1>. USE DEF tableVars, peerVars, threadVars, monitorVars, history
<1>1. Holders = Listing(table) /\ Holders' = Listing(table')
  BY DEF Holders, Listing
<1>2. \A b : a \notin Listing(RemovePeerAll(table, b))
  BY <1>1, RemovePeerAllListing DEF TypeInv
<1>3. table' # table /\ table' # EmptyTable /\ \A b : table' # RemovePeerAll(table, b)
  BY <1>1, <1>2 DEF EmptyTable, Listing, Present
<1>7. \A c \in Conns : ~KilledMerging(c)
  BY <1>1, CutShortListing DEF KilledMerging, TypeInv
<1>4. PICK c \in Conns : MergeEvent(c)
  <2>1. \A c \in Conns : ~Accept(c) /\ ~Receive(c)
    BY <1>3 DEF Accept, Receive, ReceiveRegister, ReceiveKeepAlive, ReceiveFileUpdate, ReceiveEof
  <2>2. ~PeertableAdd /\ ~MonitorWake /\ table' # table
    BY <1>3 DEF PeertableAdd, MonitorWake
  <2>3. ~MonitorStep
    BY <1>3 DEF MonitorStep, MonitorScan, MonitorEvict, MonitorUnlink, MonitorCancel, MonitorJoin,
                MonitorListEnd, MonitorDestroyTable, MonitorUndefined, Undefined, MonitorNewTable
  <2>4. \A c \in Conns : Handle(c) => MergeEvent(c)
    BY <1>3, <1>7 DEF Handle, Printed, TakeLock, MergeDone, SendRegisterAck, BroadcastOne,
                BroadcastNext, BroadcastDone, Exit, Killed, HandshakeUndefined, Undefined
  <2>. QED
    BY <2>1, <2>2, <2>3, <2>4 DEF Next, vars
<1>5. msg[c] \in Message /\ Head(msg[c].events) \in FileEvent
  BY <1>4, MessageFacts DEF MergeEvent, TypeInv, MessageInv, Critical
<1>6. a = addr[c]
  BY <1>1, <1>4, <1>5, AppliedListing DEF MergeEvent
<1>. QED
  BY <1>4, <1>6 DEF MergeEvent

\* No listed address is NoAddr.
LEMMA HoldersAreAddresses == TypeInv => NoAddr \notin Holders
<1>. SUFFICES ASSUME TypeInv PROVE NoAddr \notin Holders
  OBVIOUS
<1>1. Holders \subseteq Addrs
  BY GoodEntries DEF TypeInv, Holders, GoodEntry, Entry
<1>2. \A a \in Nat \X Nat : a # NoAddr
  BY DEF NoAddr
<1>. QED
  BY <1>1, <1>2, DataAssumption

LEMMA AccountNext == TypeInv /\ LockInv /\ HoldersAccounted /\ [Next]_vars => HoldersAccounted'
<1>. SUFFICES ASSUME TypeInv, LockInv, HoldersAccounted, [Next]_vars, NEW a \in Holders'
              PROVE  \E c \in Conns :
                       addr'[c] = a /\ (cancelled'[c] \/ pc'[c] \notin {"none", "exited"})
  BY DEF HoldersAccounted
<1>1. CASE \E c \in Conns : addr'[c] = a /\ pc'[c] = "merge"
  BY <1>1
<1>2. CASE a \in Holders
  <2>1. PICK c \in Conns : addr[c] = a /\ (cancelled[c] \/ pc[c] \notin {"none", "exited"})
    BY <1>2 DEF HoldersAccounted
  <2>2. Forward(c) /\ a # NoAddr
    BY <1>2, StepsForward, HoldersAreAddresses
  <2>3. a \notin Listing(RemovePeerAll(table, a)) /\ Holders' = Listing(table')
    BY RemovePeerAllListing DEF TypeInv, Holders, Listing
  <2>. QED
    BY <2>1, <2>2, <2>3 DEF Forward
<1>. QED
  BY <1>1, <1>2, StepsList

\* An address in the table belongs to a connection whose thread has still to clean
\* up, or has been cancelled: a peer that hung up in order is listed nowhere.
THEOREM AlwaysAccounted == Spec => []HoldersAccounted
BY AccountInit, AccountNext, TypeInit, TypeNext, LockInit, LockNext, PTL DEF Spec

-----------------------------------------------------------------------------
\* What a broadcast loses to the monitor.

\* The list as a broadcast finds it has nothing that is freed.
LEMMA FewLostAtStart ==
  ASSUME NEW c \in Conns, StartBroadcast(c), UNCHANGED <<struct, monPc, monCur>>,
         NEW d \in Lost', NEW e \in Lost'
  PROVE  d = e
<1>1. \A x \in Listed : struct[x] = "live"
  BY DEF Listed
<1>. QED
  BY <1>1 DEF Lost, StartBroadcast

\* While a thread broadcasts the monitor can finish with one peer, and begin with none.
LEMMA FewLostNext == TypeInv /\ LockInv /\ OneLostPerBroadcast /\ [Next]_vars => OneLostPerBroadcast'
<1>. SUFFICES ASSUME TypeInv, LockInv, OneLostPerBroadcast, [Next]_vars,
                     NEW c \in Conns, pc'[c] \in {"broadcast", "sent"}
              PROVE  \A d, e \in Lost' : d = e
  BY DEF OneLostPerBroadcast
<1>. USE DEF tableVars, peerVars, threadVars, monitorVars, history
<1>0. /\ pc \in [Conns -> HandshakePcs] /\ struct \in [Conns -> {"unused", "live", "freed"}]
      /\ Nobody \notin Conns
      /\ \A e, g \in Conns : pc[e] \in Critical /\ pc[g] \in Critical => e = g
  BY ConnsAssumption DEF TypeInv, TypeOK, LockInv
<1>1. ASSUME pc[c] \in {"broadcast", "sent"}, Lost' \subseteq Lost
      PROVE  \A d, e \in Lost' : d = e
  BY <1>1 DEF OneLostPerBroadcast
<1>2. ASSUME pc' = pc, UNCHANGED <<struct, audience, monPc, monCur>>
      PROVE  \A d, e \in Lost' : d = e
  BY <1>1, <1>2 DEF Lost
<1>3. ASSUME NEW h \in Conns, Accept(h) PROVE \A d, e \in Lost' : d = e
  BY <1>0, <1>1, <1>3 DEF Accept, Lost
<1>4. ASSUME NEW h \in Conns, Receive(h) PROVE \A d, e \in Lost' : d = e
  BY <1>0, <1>1, <1>4 DEF Receive, ReceiveRegister, ReceiveKeepAlive, ReceiveFileUpdate, ReceiveEof, Lost
<1>5. ASSUME NEW h \in Conns, Handle(h) PROVE \A d, e \in Lost' : d = e
  <2>1. CASE MergeDone(h)
    <3>1. CASE StartBroadcast(h)
      BY <2>1, <3>1, FewLostAtStart DEF MergeDone
    <3>2. CASE ~StartBroadcast(h)
      BY <1>0, <1>1, <2>1, <3>2 DEF MergeDone, Lost
    <3>. QED
      BY <3>1, <3>2
  <2>2. CASE SendRegisterAck(h)
    BY <2>2, FewLostAtStart DEF SendRegisterAck
  <2>3. CASE BroadcastDone(h)
    BY <2>3 DEF BroadcastDone, Lost
  <2>4. CASE \/ Printed(h) \/ TakeLock(h) \/ Exit(h) \/ Killed(h) \/ KilledMerging(h)
    BY <1>0, <1>1, <2>4 DEF Printed, TakeLock, Exit, Killed, KilledMerging, Lost
  <2>5. CASE MergeEvent(h) \/ HandshakeUndefined(h)
    BY <1>2, <2>5 DEF MergeEvent, HandshakeUndefined, Undefined
  <2>6. CASE BroadcastOne(h) \/ BroadcastNext(h)
    BY <1>0, <1>1, <2>6 DEF BroadcastOne, BroadcastNext, Passed, Lost
  <2>. QED
    BY <1>5, <2>1, <2>2, <2>3, <2>4, <2>5, <2>6 DEF Handle
<1>6. CASE PeertableAdd \/ UNCHANGED vars
  BY <1>2, <1>6 DEF PeertableAdd, vars
<1>7. CASE MonitorWake \/ MonitorStep
  <2>1. CASE MonitorEvict
    BY <1>0, <2>1 DEF MonitorEvict, LockInv, Critical
  <2>2. CASE MonitorJoin
    BY <1>1, <2>2 DEF MonitorJoin, Lost
  <2>3. CASE \/ MonitorWake \/ MonitorScan \/ MonitorUnlink \/ MonitorCancel \/ MonitorListEnd
             \/ MonitorDestroyTable \/ MonitorNewTable
    BY <1>1, <2>3 DEF MonitorWake, MonitorScan, MonitorUnlink, MonitorCancel, MonitorListEnd,
                      MonitorDestroyTable, MonitorNewTable, Lost
  <2>4. CASE MonitorUndefined
    BY <1>2, <2>4 DEF MonitorUndefined, Undefined
  <2>. QED
    BY <1>7, <2>1, <2>2, <2>3, <2>4 DEF MonitorStep
<1>. QED
  BY <1>3, <1>4, <1>5, <1>6, <1>7 DEF Next

\* A broadcast holds the lock an eviction begins with, so that of the peers it finds
\* in the list one at most is unlinked and freed before it ends.
THEOREM OneIsLost == Spec => []OneLostPerBroadcast
<1>1. Init => OneLostPerBroadcast
  BY DEF Init, OneLostPerBroadcast
<1>. QED
  BY <1>1, FewLostNext, TypeInit, TypeNext, LockInit, LockNext, PTL DEF Spec

-----------------------------------------------------------------------------
(***************************************************************************)
(* The peer table.  peertable_add puts each struct in front of all that    *)
(* were there, so the list is sorted by the age of its members: older ones *)
(* are further on.  Numbers can be found for the ages (age, all below n)   *)
(* that show it to have neither gaps nor cycles.                           *)
(***************************************************************************)
\* The structs that have been put into the list and not been freed.
Entered(c) == struct[c] = "live" /\ c # starting

\* A pointer leads to what is in the list.
PointersIn ==
  /\ head # Nobody => InList(head)
  /\ \A c \in Conns : next[c] # Nobody => InList(next[c])
  /\ \A c \in Conns : ~Entered(c) => next[c] = Nobody
  /\ starting # Nobody => struct[starting] = "live"

\* The next of each is the youngest of the older ones.
Sorted(age) ==
  /\ \A c, d \in Conns : Entered(c) /\ Entered(d) /\ age[c] = age[d] => c = d
  /\ \A d \in Conns : InList(d) => head # Nobody /\ age[d] <= age[head]
  /\ \A c \in Conns : next[c] # Nobody => age[next[c]] < age[c]
  /\ \A c, d \in Conns :
       Entered(c) /\ InList(d) /\ age[d] < age[c] => next[c] # Nobody /\ age[d] <= age[next[c]]

Preceded == \A c \in Conns : InList(c) /\ c # head => \E d \in Conns : InList(d) /\ next[d] = c

\* The monitor's pointers.
Scanning ==
  /\ monPc \in {"sleep", "reset", "renew"} => monCur = Nobody /\ monNext = Nobody
  /\ monPc = "scan" => monNext \in {Nobody, monCur}
  /\ monPc \in {"evict", "unlink", "cancel", "join"} => monCur # Nobody /\ monNext = next[monCur]
  /\ monCur # Nobody => Entered(monCur)

Ages(age, n) == age \in [Conns -> Nat] /\ n \in Nat /\ \A c \in Conns : age[c] < n

\* Where a thread goes down the list.
Sending == {"broadcast", "sent"}

\* Who is to be sent the table and has not been is further on in the list.
Ahead(age) ==
  \A c \in Conns : pc[c] \in Sending =>
    /\ pc[c] = "sent" => cur[c] # Nobody /\ upToDate[cur[c]]
    /\ cur[c] # Nobody => struct[cur[c]] # "unused" /\ cur[c] # starting
    /\ \A d \in audience :
         /\ struct[d] # "unused" /\ d # starting
         /\ InList(d) => upToDate[d] \/ d = Excluded(c)
                           \/ (cur[c] # Nobody /\ age[d] <= age[cur[c]])

ListOf(age, n) ==
  Ages(age, n) /\ PointersIn /\ Sorted(age) /\ Preceded /\ Scanning /\ Ahead(age)

ListInv == \E age, n : ListOf(age, n)

Shape(age) == PointersIn /\ Sorted(age) /\ Preceded /\ Scanning

listVars == <<head, next, struct, starting, monPc, monCur, monNext>>

LEMMA ListTypes ==
  ASSUME TypeInv
  PROVE  /\ head \in Conns \cup {Nobody} /\ next \in [Conns -> Conns \cup {Nobody}]
         /\ starting \in Conns \cup {Nobody} /\ monCur \in Conns \cup {Nobody}
         /\ monNext \in Conns \cup {Nobody} /\ Nobody \notin Conns
         /\ struct \in [Conns -> {"unused", "live", "freed"}] /\ monPc \in MonitorPcs
BY ConnsAssumption DEF TypeInv, TypeOK

LEMMA ShapeInit == \A age \in [Conns -> Nat] : Init => Shape(age)
BY ConnsAssumption DEF Init, Shape, PointersIn, Sorted, Preceded, Scanning, Entered, InList

LEMMA ShapeSame ==
  ASSUME NEW age, Shape(age), UNCHANGED listVars
  PROVE  Shape(age)'
BY DEF Shape, PointersIn, Sorted, Preceded, Scanning, Entered, InList, listVars

LEMMA ShapeAccept ==
  ASSUME TypeInv, NEW age, Shape(age), NEW c \in Conns, Accept(c)
  PROVE  Shape(age)'
<1>1. /\ starting = Nobody /\ struct[c] = "unused" /\ starting' = c
      /\ struct' = [struct EXCEPT ![c] = "live"] /\ UNCHANGED <<head, next, monPc, monCur, monNext>>
  BY DEF Accept, monitorVars
<1>2. /\ \A d \in Conns : Entered(d)' <=> Entered(d)
      /\ \A d \in Conns : InList(d)' <=> InList(d)
  BY <1>1, ListTypes DEF Entered, InList
<1>3. head \in Conns \cup {Nobody} /\ \A d \in Conns : next[d] \in Conns \cup {Nobody}
  BY ListTypes
<1>4. PointersIn'
  BY <1>1, <1>2, <1>3, ListTypes DEF Shape, PointersIn
<1>5. Sorted(age)'
  BY <1>1, <1>2 DEF Shape, Sorted
<1>6. Preceded'
  BY <1>1, <1>2 DEF Shape, Preceded
<1>7. Scanning'
  BY <1>1, <1>2, ListTypes DEF Shape, Scanning
<1> QED
  BY <1>4, <1>5, <1>6, <1>7 DEF Shape

\* The struct added is younger than all.
LEMMA ShapeAdd ==
  ASSUME TypeInv, NEW age, NEW n, Ages(age, n), Shape(age), PeertableAdd
  PROVE  \E new : /\ Ages(new, n + 1) /\ Shape(new)'
                  /\ \A c \in Conns : c # starting => new[c] = age[c]
<1>1. PICK s \in Conns : s = starting
  BY ListTypes DEF PeertableAdd
<1>2. PICK new : new = [age EXCEPT ![s] = n]
  OBVIOUS
<1>3. /\ struct[s] = "live" /\ starting = s /\ starting' = Nobody /\ next' = [next EXCEPT ![s] = head]
      /\ head' = s /\ UNCHANGED <<struct, monPc, monCur, monNext>> /\ s # Nobody
  BY <1>1, ListTypes DEF Shape, PointersIn, PeertableAdd, monitorVars
<1>4. /\ n \in Nat /\ \A c \in Conns : age[c] \in Nat /\ age[c] < n
      /\ \A c \in Conns \ {s} : new[c] = age[c]
      /\ new[s] = n /\ new \in [Conns -> Nat]
  BY <1>2 DEF Ages
<1>5. monCur # s /\ ~Entered(s) /\ ~InList(s)
  BY <1>3 DEF Shape, Scanning, Entered, InList
<1>6. /\ \A c \in Conns \ {s} : Entered(c)' <=> Entered(c)
      /\ \A c \in Conns \ {s} : InList(c)' <=> InList(c)
      /\ Entered(s)' /\ InList(s)'
  BY <1>3, <1>5, ListTypes DEF Entered, InList
<1>7. /\ next'[s] = head /\ \A c \in Conns \ {s} : next'[c] = next[c]
      /\ head \in Conns \cup {Nobody} /\ \A c \in Conns : next[c] \in Conns \cup {Nobody}
      /\ Nobody \notin Conns
  BY <1>3, ListTypes
<1>8. /\ head # Nobody => InList(head) /\ head # s
      /\ \A c \in Conns : next[c] # Nobody => InList(next[c]) /\ next[c] # s
  BY <1>5 DEF Shape, PointersIn
<1>9. Ages(new, n + 1)
  <2>1. \A c \in Conns : new[c] < n + 1
    BY <1>4
  <2> QED
    BY <1>4, <2>1 DEF Ages
<1>10. PointersIn'
  BY <1>3, <1>6, <1>7, <1>8 DEF Shape, PointersIn
<1>11. Sorted(new)'
  <2>1. \A c, d \in Conns : Entered(c)' /\ Entered(d)' /\ new[c] = new[d] => c = d
    BY <1>4, <1>6 DEF Shape, Sorted
  <2>2. \A d \in Conns : InList(d)' => head' # Nobody /\ new[d] <= new[head']
    BY <1>3, <1>4
  <2>3. \A c \in Conns : next'[c] # Nobody => new[next'[c]] < new[c]
    BY <1>4, <1>7, <1>8 DEF Shape, Sorted
  <2>4. ASSUME NEW c \in Conns, NEW d \in Conns, Entered(c)', InList(d)', new[d] < new[c]
        PROVE  next'[c] # Nobody /\ new[d] <= new[next'[c]]
    <3>1. d # s
      BY <1>4, <2>4
    <3>2. CASE c = s
      BY <1>4, <1>6, <1>7, <1>8, <2>4, <3>1, <3>2 DEF Shape, Sorted
    <3>3. CASE c # s
      BY <1>4, <1>6, <1>7, <1>8, <2>4, <3>1, <3>3 DEF Shape, Sorted
    <3> QED
      BY <3>2, <3>3
  <2> QED
    BY <2>1, <2>2, <2>3, <2>4 DEF Sorted
<1>12. Preceded'
  <2> SUFFICES ASSUME NEW c \in Conns, InList(c)', c # s
               PROVE  \E d \in Conns : InList(d)' /\ next'[d] = c
    BY <1>3 DEF Preceded
  <2>1. CASE c = head
    BY <1>6, <1>7, <2>1
  <2>2. CASE c # head
    <3>1. PICK d \in Conns : InList(d) /\ next[d] = c
      BY <1>6, <2>2 DEF Shape, Preceded
    <3> QED
      BY <1>5, <1>6, <1>7, <3>1
  <2> QED
    BY <2>1, <2>2
<1>13. Scanning'
  <2>1. PICK m \in Conns \cup {Nobody} : m = monCur
    BY ListTypes
  <2>2. m # Nobody => m \in Conns /\ Entered(m)' /\ next'[m] = next[m]
    BY <1>5, <1>6, <1>7, <2>1 DEF Shape, Scanning
  <2>3. m # Nobody => Entered(monCur)' /\ next'[monCur] = next[monCur]
    BY <1>3, <2>1, <2>2 DEF Entered
  <2> QED
    BY <1>3, <2>1, <2>3 DEF Shape, Scanning
<1>14. \A c \in Conns : c # starting => new[c] = age[c]
  BY <1>1, <1>4
<1> QED
  BY <1>14, <1>9, <1>10, <1>11, <1>12, <1>13 DEF Shape

LEMMA ShapeMonitor ==
  ASSUME TypeInv, NEW age, Shape(age),
         \/ MonitorWake \/ MonitorScan \/ MonitorEvict \/ MonitorCancel \/ MonitorListEnd
         \/ MonitorDestroyTable \/ MonitorNewTable
  PROVE  Shape(age)'
<1>1. UNCHANGED <<head, next, struct, starting>>
  BY DEF MonitorWake, MonitorScan, MonitorEvict, MonitorCancel, MonitorListEnd,
         MonitorDestroyTable, MonitorNewTable, peerVars
<1>2. /\ \A c \in Conns : InList(c)' <=> InList(c)
      /\ \A c \in Conns : Entered(c)' <=> Entered(c)
  BY <1>1, ListTypes DEF InList, Entered, MonitorWake, MonitorScan, MonitorEvict, MonitorCancel, MonitorListEnd,
         MonitorDestroyTable, MonitorNewTable, monitorVars
<1>3. head \in Conns \cup {Nobody} /\ (\A d \in Conns : next[d] \in Conns \cup {Nobody})
      /\ monCur \in Conns \cup {Nobody}
  BY ListTypes
<1>4. PointersIn' /\ Sorted(age)' /\ Preceded'
  <2>1. PointersIn'
    BY <1>1, <1>2, <1>3 DEF Shape, PointersIn
  <2>2. Sorted(age)'
    BY <1>1, <1>2 DEF Shape, Sorted
  <2>3. Preceded'
    BY <1>1, <1>2 DEF Shape, Preceded
  <2> QED
    BY <2>1, <2>2, <2>3
<1>5. \A d \in Conns : InList(d) => Entered(d)
  BY DEF InList, Entered
<1>6. Scanning'
  <2> USE <1>1, <1>2, <1>3, <1>5, ListTypes DEF Shape, Scanning, PointersIn
  <2>1. CASE MonitorWake
    BY <2>1 DEF MonitorWake
  <2>2. CASE MonitorScan
    BY <2>2 DEF MonitorScan
  <2>3. CASE MonitorEvict \/ MonitorCancel
    BY <2>3 DEF MonitorEvict, MonitorCancel
  <2>4. CASE MonitorListEnd \/ MonitorDestroyTable \/ MonitorNewTable
    BY <2>4 DEF MonitorListEnd, MonitorDestroyTable, MonitorNewTable
  <2> QED
    BY <2>1, <2>2, <2>3, <2>4
<1> QED
  BY <1>4, <1>6 DEF Shape

\* peertable_remove: the pointers to the struct now lead past it.
LEMMA ShapeUnlink ==
  ASSUME TypeInv, NEW age, NEW n, Ages(age, n), Shape(age), MonitorUnlink
  PROVE  Shape(age)'
<1>1. /\ monPc = "unlink" /\ monPc' = "cancel" /\ UNCHANGED <<struct, starting, monCur, monNext>>
      /\ head' = IF head = monCur THEN next[monCur] ELSE head
      /\ next' = [c \in Conns |-> IF next[c] = monCur THEN next[monCur] ELSE next[c]]
  BY DEF MonitorUnlink
<1>2. PICK m \in Conns : m = monCur /\ Entered(m) /\ InList(m)
  BY <1>1, ListTypes DEF Shape, Scanning, Entered, InList
<1>3. /\ \A c \in Conns : Entered(c)' <=> Entered(c)
      /\ \A c \in Conns : InList(c)' <=> InList(c) /\ c # m
  BY <1>1, <1>2 DEF Entered, InList
<1>4. /\ head \in Conns \cup {Nobody} /\ m # Nobody
      /\ \A c \in Conns : next[c] \in Conns \cup {Nobody} /\ age[c] \in Int
      /\ head' = IF head = m THEN next[m] ELSE head
      /\ \A c \in Conns : next'[c] = IF next[c] = m THEN next[m] ELSE next[c]
  BY <1>1, <1>2, ListTypes DEF Ages
<1>5. next[m] # m
  BY <1>2, <1>4 DEF Shape, Sorted
<1>6. PointersIn'
  BY <1>1, <1>2, <1>3, <1>4, <1>5 DEF Shape, PointersIn
<1>7. Sorted(age)'
  <2>1. \A c, d \in Conns : Entered(c)' /\ Entered(d)' /\ age[c] = age[d] => c = d
    BY <1>3 DEF Shape, Sorted
  <2>2. ASSUME NEW d \in Conns, InList(d), d # m
        PROVE  /\ age[d] <= age[m] => next[m] # Nobody /\ age[d] <= age[next[m]]
    <3>1. age[d] # age[m]
      BY <1>2, <2>2 DEF Shape, Sorted, Entered, InList
    <3> QED
      BY <1>2, <1>4, <2>2, <3>1 DEF Shape, Sorted
  <2>3. \A d \in Conns : InList(d)' => head' # Nobody /\ age[d] <= age[head']
    BY <1>3, <1>4, <2>2 DEF Shape, Sorted
  <2>4. ASSUME NEW c \in Conns, next'[c] # Nobody PROVE age[next'[c]] < age[c]
    BY <1>2, <1>4, <2>4 DEF Shape, Sorted
  <2>5. ASSUME NEW c \in Conns, NEW d \in Conns, Entered(c)', InList(d)', age[d] < age[c]
        PROVE  next'[c] # Nobody /\ age[d] <= age[next'[c]]
    BY <1>3, <1>4, <2>2, <2>5 DEF Shape, Sorted
  <2> QED
    BY <2>1, <2>3, <2>4, <2>5 DEF Sorted
<1>8. Preceded'
  <2> SUFFICES ASSUME NEW c \in Conns, InList(c)', c # head'
               PROVE  \E d \in Conns : InList(d)' /\ next'[d] = c
    BY DEF Preceded
  <2>1. InList(c) /\ c # m
    BY <1>3
  <2>2. CASE c = next[m]
    <3>1. m # head
      BY <1>4, <2>2
    <3>2. PICK d \in Conns : InList(d) /\ next[d] = m
      BY <1>2, <3>1 DEF Shape, Preceded
    <3> QED
      BY <1>3, <1>4, <1>5, <2>2, <3>2
  <2>3. CASE c # next[m]
    <3>1. c # head
      BY <1>4, <2>1
    <3>2. PICK d \in Conns : InList(d) /\ next[d] = c
      BY <2>1, <3>1 DEF Shape, Preceded
    <3> QED
      BY <1>3, <1>4, <2>1, <2>3, <3>2
  <2> QED
    BY <2>2, <2>3
<1>9. Scanning'
  <2>1. next'[m] = next[m]
    BY <1>4, <1>5
  <2>2. Entered(m)'
    BY <1>2, <1>3
  <2>3. Entered(monCur)'
    BY <1>1, <1>2, <2>2 DEF Entered
  <2> QED
    BY <1>1, <1>2, <1>4, <2>1, <2>3 DEF Shape, Scanning
<1> QED
  BY <1>6, <1>7, <1>8, <1>9 DEF Shape

\* The struct that is freed is not in the list any more.
LEMMA ShapeJoin ==
  ASSUME TypeInv, NEW age, NEW n, Ages(age, n), Shape(age), MonitorJoin
  PROVE  Shape(age)'
<1>1. /\ monPc = "join" /\ monPc' = "scan" /\ UNCHANGED <<head, starting, monNext>>
      /\ monCur' = monNext /\ next' = [next EXCEPT ![monCur] = Nobody]
      /\ struct' = [struct EXCEPT ![monCur] = "freed"]
  BY DEF MonitorJoin
<1>2. PICK m \in Conns : m = monCur /\ Entered(m) /\ ~InList(m)
  BY <1>1, ListTypes DEF Shape, Scanning, Entered, InList
<1>3. /\ \A c \in Conns : Entered(c)' <=> Entered(c) /\ c # m
      /\ \A c \in Conns : InList(c)' <=> InList(c)
      /\ \A c \in Conns : InList(c) <=> Entered(c) /\ c # m
  BY <1>1, <1>2, ListTypes DEF Entered, InList
<1>4. /\ head \in Conns \cup {Nobody} /\ m # Nobody
      /\ \A c \in Conns : next[c] \in Conns \cup {Nobody} /\ age[c] \in Int
      /\ next'[m] = Nobody /\ \A c \in Conns \ {m} : next'[c] = next[c]
  BY <1>1, <1>2, ListTypes DEF Ages
<1>5. monNext = next[m] /\ (next[m] # Nobody => InList(next[m]))
  BY <1>1, <1>2 DEF Shape, Scanning, PointersIn
<1>6. starting # Nobody => starting # m /\ starting \in Conns
  BY <1>2, ListTypes DEF Entered
<1>7. PointersIn'
  <2>1. starting' # Nobody => struct'[starting'] = "live"
    BY <1>1, <1>2, <1>6, ListTypes DEF Shape, PointersIn
  <2> QED
    BY <1>1, <1>3, <1>4, <2>1 DEF Shape, PointersIn
<1>8. Sorted(age)'
  <2>1. \A c, d \in Conns : Entered(c)' /\ Entered(d)' /\ age[c] = age[d] => c = d
    BY <1>3 DEF Shape, Sorted
  <2>2. \A d \in Conns : InList(d)' => head' # Nobody /\ age[d] <= age[head']
    BY <1>1, <1>3 DEF Shape, Sorted
  <2>3. \A c \in Conns : next'[c] # Nobody => age[next'[c]] < age[c]
    BY <1>4 DEF Shape, Sorted
  <2>4. \A c, d \in Conns : Entered(c)' /\ InList(d)' /\ age[d] < age[c]
                               => next'[c] # Nobody /\ age[d] <= age[next'[c]]
    BY <1>3, <1>4 DEF Shape, Sorted
  <2> QED
    BY <2>1, <2>2, <2>3, <2>4 DEF Sorted
<1>9. Preceded'
  BY <1>1, <1>3, <1>4 DEF Shape, Preceded
<1>10. Scanning'
  <2>1. PICK k \in Conns \cup {Nobody} : k = next[m]
    BY <1>4
  <2>2. k # Nobody => Entered(k)'
    BY <1>3, <1>5, <2>1
  <2>3. monCur' # Nobody => Entered(monCur)'
    BY <1>1, <1>5, <2>1, <2>2 DEF Entered
  <2> QED
    BY <1>1, <2>3 DEF Scanning
<1> QED
  BY <1>7, <1>8, <1>9, <1>10 DEF Shape

LEMMA OtherSteps ==
  ASSUME [Next]_vars
  PROVE  \/ \E c \in Conns : Accept(c)
         \/ PeertableAdd \/ MonitorUnlink \/ MonitorJoin
         \/ MonitorWake \/ MonitorScan \/ MonitorEvict \/ MonitorCancel \/ MonitorListEnd
         \/ MonitorDestroyTable \/ MonitorNewTable
         \/ UNCHANGED listVars
<1> USE DEF listVars, peerVars, monitorVars
<1>1. ASSUME NEW c \in Conns, Receive(c) PROVE UNCHANGED listVars
  BY <1>1 DEF Receive, ReceiveRegister, ReceiveKeepAlive, ReceiveFileUpdate, ReceiveEof
<1>2. ASSUME NEW c \in Conns, Handle(c) PROVE UNCHANGED listVars
  BY <1>2 DEF Handle, Printed, TakeLock, MergeEvent, MergeDone, SendRegisterAck, BroadcastOne,
              BroadcastNext, BroadcastDone, Exit, Killed, KilledMerging, HandshakeUndefined, Undefined,
              Passed
<1>3. CASE MonitorUndefined
  BY <1>3 DEF MonitorUndefined, Undefined
<1>4. CASE UNCHANGED vars
  BY <1>4 DEF vars
<1> QED
  BY <1>1, <1>2, <1>3, <1>4 DEF Next, MonitorStep

\* Each step keeps the shape, for the same ages or with one more.
LEMMA ShapeNext ==
  ASSUME TypeInv, NEW age, NEW n, Ages(age, n), Shape(age), [Next]_vars
  PROVE  \E new, m : /\ Ages(new, m) /\ Shape(new)'
                     /\ \A c \in Conns : c # starting => new[c] = age[c]
<1>1. CASE Shape(age)'
  BY <1>1
<1>2. CASE PeertableAdd
  BY <1>2, ShapeAdd
<1>3. CASE MonitorUnlink \/ MonitorJoin
  BY <1>1, <1>3, ShapeUnlink, ShapeJoin
<1>4. ASSUME NEW c \in Conns, Accept(c) PROVE Shape(age)'
  BY <1>4, ShapeAccept
<1> QED
  BY <1>1, <1>2, <1>3, <1>4, ShapeMonitor, ShapeSame, OtherSteps

\* Who has been put into the list once never comes back to it.
LEMMA NoReturn ==
  ASSUME TypeInv, NEW age, Shape(age), [Next]_vars,
         NEW d \in Conns, struct[d] # "unused", d # starting
  PROVE  struct'[d] # "unused" /\ d # starting' /\ (InList(d)' => InList(d))
<1> USE ListTypes DEF InList
<1>1. ASSUME NEW c \in Conns, Accept(c)
      PROVE  struct'[d] # "unused" /\ d # starting' /\ (InList(d)' => InList(d))
  BY <1>1 DEF Accept, monitorVars
<1>2. CASE PeertableAdd
  BY <1>2, ConnsAssumption DEF PeertableAdd, monitorVars
<1>3. CASE MonitorUnlink
  BY <1>3 DEF MonitorUnlink
<1>4. CASE MonitorJoin
  BY <1>4 DEF MonitorJoin, Shape, Scanning, Entered
<1>5. CASE \/ MonitorWake \/ MonitorScan \/ MonitorEvict \/ MonitorCancel \/ MonitorListEnd
           \/ MonitorDestroyTable \/ MonitorNewTable
  BY <1>5 DEF MonitorWake, MonitorScan, MonitorEvict, MonitorCancel, MonitorListEnd,
              MonitorDestroyTable, MonitorNewTable, peerVars, monitorVars
<1>6. CASE UNCHANGED listVars
  BY <1>6 DEF listVars
<1> QED
  BY <1>1, <1>2, <1>3, <1>4, <1>5, <1>6, OtherSteps

\* Broadcasts are kept by a step that does not take part in one, ...
LEMMA AheadKept ==
  ASSUME TypeInv, NEW age, NEW new, Shape(age), Ahead(age), [Next]_vars,
         \A c \in Conns : c # starting => new[c] = age[c],
         \A c \in Conns : pc'[c] \in Sending =>
            pc[c] = pc'[c] /\ msg'[c] = msg[c] /\ cur'[c] = cur[c],
         UNCHANGED <<audience, upToDate>>
  PROVE  Ahead(new)'
<1> SUFFICES ASSUME NEW c \in Conns, pc'[c] \in Sending
             PROVE  /\ pc'[c] = "sent" => cur[c] # Nobody /\ upToDate[cur[c]]
                    /\ cur[c] # Nobody => struct'[cur[c]] # "unused" /\ cur[c] # starting'
                    /\ \A d \in audience :
                         /\ struct'[d] # "unused" /\ d # starting'
                         /\ InList(d)' => upToDate[d] \/ d = Excluded(c)
                                           \/ (cur[c] # Nobody /\ new[d] <= new[cur[c]])
  BY DEF Ahead, Excluded
<1>1. /\ cur[c] \in Conns \cup {Nobody} /\ audience \subseteq Conns /\ pc[c] \in Sending
      /\ pc'[c] = "sent" => cur[c] # Nobody /\ upToDate[cur[c]]
      /\ cur[c] # Nobody => struct[cur[c]] # "unused" /\ cur[c] # starting
  BY DEF TypeInv, TypeOK, Ahead
<1>2. ASSUME NEW d \in audience
      PROVE  /\ struct[d] # "unused" /\ d # starting
             /\ InList(d) => upToDate[d] \/ d = Excluded(c)
                               \/ (cur[c] # Nobody /\ age[d] <= age[cur[c]])
  BY <1>1 DEF Ahead
<1>3. cur[c] # Nobody => struct'[cur[c]] # "unused" /\ cur[c] # starting' /\ new[cur[c]] = age[cur[c]]
  BY <1>1, NoReturn
<1>4. ASSUME NEW d \in audience
      PROVE  /\ struct'[d] # "unused" /\ d # starting'
             /\ InList(d)' => InList(d)
             /\ new[d] = age[d]
  BY <1>1, <1>2, NoReturn
<1> QED
  BY <1>1, <1>2, <1>3, <1>4

\* ... by one after which there is none, ...
LEMMA NoneAhead ==
  ASSUME NEW new, \A c \in Conns : pc'[c] \notin Sending
  PROVE  Ahead(new)'
BY DEF Ahead

\* ... by one that sends the table to the next peer, ...
LEMMA AheadSends ==
  ASSUME TypeInv, LockInv, NEW age, Ahead(age), NEW c \in Conns, BroadcastOne(c)
  PROVE  Ahead(age)'
<1>1. PICK x \in Conns : x = cur[c]
  BY DEF BroadcastOne, TypeInv, TypeOK
<1>2. /\ pc[c] = "broadcast" /\ pc' = [pc EXCEPT ![c] = "sent"] /\ x # Nobody
      /\ UNCHANGED <<struct, starting, monPc, monCur, msg, cur, audience>>
      /\ upToDate' = [upToDate EXCEPT ![x] = TRUE]
  BY <1>1 DEF BroadcastOne, peerVars, monitorVars
<1>3. \A e \in Conns : pc'[e] \in Sending => e = c
  BY <1>2 DEF LockInv, Critical, Sending, TypeInv, TypeOK
<1>4. /\ upToDate'[x] /\ audience \subseteq Conns
      /\ \A d \in Conns : upToDate[d] => upToDate'[d]
  BY <1>2 DEF TypeInv, TypeOK
<1>5. \A d \in Conns : InList(d)' <=> InList(d)
  BY <1>2 DEF InList
<1>6. Excluded(c)' = Excluded(c)
  BY <1>2 DEF Excluded
<1>7. /\ struct[x] # "unused" /\ x # starting
      /\ \A d \in audience :
           /\ struct[d] # "unused" /\ d # starting
           /\ InList(d) => upToDate[d] \/ d = Excluded(c) \/ age[d] <= age[x]
  BY <1>1, <1>2 DEF Ahead, Sending
<1> SUFFICES ASSUME NEW e \in Conns, pc'[e] \in Sending
             PROVE  /\ cur'[e] # Nobody /\ upToDate'[cur'[e]]
                    /\ struct'[cur'[e]] # "unused" /\ cur'[e] # starting'
                    /\ \A d \in audience' :
                         /\ struct'[d] # "unused" /\ d # starting'
                         /\ InList(d)' => upToDate'[d] \/ d = Excluded(e)'
                                           \/ (cur'[e] # Nobody /\ age[d] <= age[cur'[e]])
  BY DEF Ahead, Excluded
<1>8. e = c
  BY <1>3
<1> QED
  BY <1>1, <1>2, <1>4, <1>5, <1>6, <1>7, <1>8

\* ... and by one that goes on to the peer after it.
LEMMA AheadAdvances ==
  ASSUME TypeInv, LockInv, NEW age, NEW n, Ages(age, n), Shape(age), Ahead(age),
         NEW c \in Conns, BroadcastNext(c)
  PROVE  Ahead(age)'
<1>1. PICK x \in Conns : x = cur[c]
  BY DEF BroadcastNext, TypeInv, TypeOK
<1>2. /\ pc[c] \in Sending /\ x # Nobody /\ struct[x] = "live" /\ x # starting
      /\ UNCHANGED <<head, next, struct, starting, monPc, monCur, monNext, msg, audience, upToDate>>
      /\ cur' = [cur EXCEPT ![c] = next[x]] /\ pc' = [pc EXCEPT ![c] = "broadcast"]
      /\ x = Excluded(c) \/ upToDate[x]
  BY <1>1 DEF BroadcastNext, Passed, Ahead, Sending, peerVars, monitorVars, history
<1>3. PICK y \in Conns \cup {Nobody} : y = next[x]
  BY ListTypes
<1>4. cur'[c] = y
  BY <1>2, <1>3 DEF TypeInv, TypeOK
<1>5. y # Nobody => struct[y] # "unused" /\ y # starting
  BY <1>3 DEF Shape, PointersIn, InList
<1>6. \A e \in Conns : pc'[e] \in Sending => e = c /\ pc'[e] = "broadcast"
  BY <1>2 DEF LockInv, Critical, Sending, TypeInv, TypeOK
<1>7. \A d \in Conns : InList(d)' <=> InList(d)
  BY <1>2 DEF InList
<1>8. Excluded(c)' = Excluded(c)
  BY <1>2 DEF Excluded
<1>9. ASSUME NEW d \in audience
      PROVE  /\ struct[d] # "unused" /\ d # starting
             /\ InList(d)' => upToDate'[d] \/ d = Excluded(c) \/ (y # Nobody /\ age[d] <= age[y])
  <2>1. d \in Conns
    BY DEF TypeInv, TypeOK
  <2>2. /\ struct[d] # "unused" /\ d # starting
        /\ InList(d) => upToDate[d] \/ d = Excluded(c) \/ age[d] <= age[x]
    BY <1>1, <1>2 DEF Ahead
  <2>3. CASE d = x
    BY <1>2, <2>1, <2>2, <2>3 DEF TypeInv, TypeOK
  <2>4. CASE d # x
    <3>1. upToDate'[d] = upToDate[d]
      BY <1>2, <2>1, <2>4 DEF TypeInv, TypeOK
    <3>2. ASSUME InList(d), age[d] <= age[x] PROVE y # Nobody /\ age[d] <= age[y]
      <4>1. Entered(x) /\ Entered(d)
        BY <1>2, <3>2 DEF Entered, InList
      <4>2. age[d] # age[x]
        BY <2>1, <2>4, <4>1 DEF Shape, Sorted
      <4>3. age[d] \in Nat /\ age[x] \in Nat
        BY <2>1 DEF Ages
      <4>4. age[d] < age[x]
        BY <3>2, <4>2, <4>3
      <4> QED
        BY <1>3, <2>1, <3>2, <4>1, <4>4 DEF Shape, Sorted
    <3> QED
      BY <1>7, <2>1, <2>2, <3>1, <3>2
  <2> QED
    BY <2>3, <2>4
<1>10. SUFFICES ASSUME NEW e \in Conns, pc'[e] \in Sending
             PROVE  /\ pc'[e] = "sent" => cur'[e] # Nobody /\ upToDate'[cur'[e]]
                    /\ cur'[e] # Nobody => struct'[cur'[e]] # "unused" /\ cur'[e] # starting'
                    /\ \A d \in audience' :
                         /\ struct'[d] # "unused" /\ d # starting'
                         /\ InList(d)' => upToDate'[d] \/ d = Excluded(e)'
                                           \/ (cur'[e] # Nobody /\ age[d] <= age[cur'[e]])
  BY DEF Ahead, Excluded
<1>11. e = c
  BY <1>2, <1>6, <1>10
<1>12. pc'[e] # "sent"
  BY <1>6, <1>10
<1> QED
  BY <1>2, <1>4, <1>5, <1>8, <1>9, <1>11, <1>12

\* A broadcast begins at the head.
LEMMA AheadBegins ==
  ASSUME TypeInv, LockInv, NEW age, Shape(age), NEW c \in Conns, pc[c] \in Critical,
         StartBroadcast(c), UNCHANGED listVars
  PROVE  Ahead(age)'
<1>1. /\ pc' = [pc EXCEPT ![c] = "broadcast"] /\ cur' = [cur EXCEPT ![c] = head]
      /\ audience' = Listed /\ UNCHANGED <<head, struct, starting, monPc, monCur>>
  BY DEF StartBroadcast, listVars
<1>2. \A e \in Conns : pc'[e] \in Sending => e = c /\ pc'[e] = "broadcast"
  BY <1>1 DEF LockInv, Critical, Sending, TypeInv, TypeOK
<1>3. cur'[c] = head
  BY <1>1 DEF TypeInv, TypeOK
<1>4. head # Nobody => struct[head] # "unused" /\ head # starting
  BY DEF Shape, PointersIn, InList
<1>5. \A d \in Listed : d \in Conns /\ struct[d] # "unused" /\ d # starting
  BY DEF Listed
<1>6. \A d \in Conns : InList(d)' => head # Nobody /\ age[d] <= age[head]
  BY <1>1 DEF Shape, Sorted, InList
<1>7. SUFFICES ASSUME NEW e \in Conns, pc'[e] \in Sending
             PROVE  /\ pc'[e] = "sent" => cur'[e] # Nobody /\ upToDate'[cur'[e]]
                    /\ cur'[e] # Nobody => struct'[cur'[e]] # "unused" /\ cur'[e] # starting'
                    /\ \A d \in audience' :
                         /\ struct'[d] # "unused" /\ d # starting'
                         /\ InList(d)' => upToDate'[d] \/ d = Excluded(e)'
                                           \/ (cur'[e] # Nobody /\ age[d] <= age[cur'[e]])
  BY DEF Ahead, Excluded
<1> QED
  BY <1>1, <1>2, <1>3, <1>4, <1>5, <1>6, <1>7

LEMMA AheadNext ==
  ASSUME TypeInv, LockInv, NEW age, NEW n, Ages(age, n), Shape(age), Ahead(age), [Next]_vars,
         NEW new, \A c \in Conns : c # starting => new[c] = age[c]
  PROVE  Ahead(new)' \/ (UNCHANGED listVars /\ Ahead(age)')
<1>0. \A c, e \in Conns : pc[c] \in Critical /\ pc[e] \in Sending => e = c
  BY DEF LockInv, Critical, Sending
<1>1. ASSUME NEW c \in Conns, Accept(c) PROVE Ahead(new)'
  <2>1. \A e \in Conns : pc'[e] \in Sending => pc[e] = pc'[e]
    BY <1>1 DEF Accept, Sending, TypeInv, TypeOK
  <2> QED
    BY <1>1, <2>1, AheadKept DEF Accept, history
<1>2. CASE PeertableAdd \/ UNCHANGED vars
  <2>1. UNCHANGED <<pc, msg, cur, audience, upToDate>>
    BY <1>2 DEF PeertableAdd, vars, threadVars, history
  <2> QED
    BY <2>1, AheadKept
<1>3. ASSUME NEW c \in Conns, Receive(c) PROVE Ahead(new)'
  <2>1. /\ \A e \in Conns : pc'[e] \in Sending => pc[e] = pc'[e] /\ msg'[e] = msg[e]
        /\ UNCHANGED <<cur, audience, upToDate>>
    BY <1>3 DEF Receive, ReceiveRegister, ReceiveKeepAlive, ReceiveFileUpdate, ReceiveEof, TypeInv, TypeOK,
                Sending, threadVars, history
  <2> QED
    BY <2>1, AheadKept
<1>4. ASSUME NEW c \in Conns, Handle(c) PROVE Ahead(new)' \/ (UNCHANGED listVars /\ Ahead(age)')
  <2>1. CASE Printed(c) \/ TakeLock(c) \/ Killed(c) \/ HandshakeUndefined(c)
    <3>1. /\ \A e \in Conns : pc'[e] \in Sending => pc[e] = pc'[e] /\ msg'[e] = msg[e]
          /\ UNCHANGED <<cur, audience, upToDate>>
      BY <2>1 DEF Printed, TakeLock, Killed, HandshakeUndefined, Undefined, TypeInv, TypeOK, Sending,
                  threadVars, history
    <3> QED
      BY <3>1, AheadKept
  <2>2. CASE MergeEvent(c)
    <3>1. \A e \in Conns : pc'[e] \notin Sending
      BY <1>0, <2>2 DEF MergeEvent, Critical, Sending
    <3> QED
      BY <3>1, NoneAhead
  <2>3. CASE Exit(c)
    <3>1. \A e \in Conns : pc'[e] \notin Sending
      BY <2>3, ConnsAssumption DEF Exit, LockInv, Critical, Sending, TypeInv, TypeOK
    <3> QED
      BY <3>1, NoneAhead
  <2>4. CASE BroadcastDone(c)
    <3>1. \A e \in Conns : pc'[e] \notin Sending
      BY <1>0, <2>4 DEF BroadcastDone, Critical, Sending, TypeInv, TypeOK
    <3> QED
      BY <3>1, NoneAhead
  <2>5. CASE MergeDone(c)
    <3>1. pc[c] = "merge" /\ pc[c] \in Critical /\ UNCHANGED listVars
      BY <2>5 DEF MergeDone, Critical, listVars, peerVars, monitorVars
    <3>2. CASE StartBroadcast(c)
      BY <3>1, <3>2, AheadBegins
    <3>3. CASE pc' = [pc EXCEPT ![c] = "reply"]
      <4>1. \A e \in Conns : pc'[e] \notin Sending
        BY <1>0, <3>1, <3>3 DEF Sending, TypeInv, TypeOK
      <4> QED
        BY <4>1, NoneAhead
    <3> QED
      BY <2>5, <3>2, <3>3 DEF MergeDone
  <2>6. CASE SendRegisterAck(c)
    <3>1. pc[c] \in Critical /\ UNCHANGED listVars /\ StartBroadcast(c)
      BY <2>6 DEF SendRegisterAck, Critical, listVars, peerVars, monitorVars
    <3> QED
      BY <3>1, AheadBegins
  <2>7. CASE BroadcastOne(c)
    <3>1. UNCHANGED listVars
      BY <2>7 DEF BroadcastOne, listVars, peerVars, monitorVars
    <3> QED
      BY <2>7, <3>1, AheadSends
  <2>8. CASE BroadcastNext(c)
    <3>1. UNCHANGED listVars
      BY <2>8 DEF BroadcastNext, listVars, peerVars, monitorVars
    <3> QED
      BY <2>8, <3>1, AheadAdvances
  <2>9. CASE KilledMerging(c)
    <3>1. \A e \in Conns : pc'[e] \notin Sending
      BY <1>0, <2>9 DEF KilledMerging, Critical, Sending, TypeInv, TypeOK
    <3> QED
      BY <3>1, NoneAhead
  <2> QED
    BY <1>4, <2>1, <2>2, <2>3, <2>4, <2>5, <2>6, <2>7, <2>8, <2>9 DEF Handle
<1>5. CASE MonitorEvict \/ MonitorNewTable
  <2>1. \A e \in Conns : pc'[e] \notin Sending
    BY <1>5, ConnsAssumption DEF MonitorEvict, MonitorNewTable, LockInv, Critical, Sending, threadVars
  <2> QED
    BY <2>1, NoneAhead
<1>6. CASE \/ MonitorWake \/ MonitorScan \/ MonitorUnlink \/ MonitorCancel \/ MonitorJoin
           \/ MonitorListEnd \/ MonitorDestroyTable \/ MonitorUndefined
  <2>1. UNCHANGED <<pc, msg, cur, audience, upToDate>>
    BY <1>6 DEF MonitorWake, MonitorScan, MonitorUnlink, MonitorCancel, MonitorJoin, MonitorListEnd,
                MonitorDestroyTable, MonitorUndefined, Undefined, threadVars, history
  <2> QED
    BY <2>1, AheadKept
<1> QED
  BY <1>1, <1>2, <1>3, <1>4, <1>5, <1>6 DEF Next, MonitorStep

LEMMA ListInit == Init => ListInv
<1> SUFFICES ASSUME Init PROVE \E age, n : ListOf(age, n)
  BY DEF ListInv
<1> DEFINE age == [c \in Conns |-> 0]
<1>1. Ages(age, 1) /\ age \in [Conns -> Nat]
  BY DEF Ages
<1>2. Shape(age)
  BY <1>1, ShapeInit
<1>3. Ahead(age)
  BY DEF Init, Ahead, Sending
<1> QED
  BY <1>1, <1>2, <1>3 DEF ListOf, Shape

LEMMA ListNext == TypeInv /\ LockInv /\ ListInv /\ [Next]_vars => ListInv'
<1> SUFFICES ASSUME TypeInv, LockInv, ListInv, [Next]_vars PROVE \E age, n : ListOf(age, n)'
  BY DEF ListInv
<1>1. PICK age, n : Ages(age, n) /\ Shape(age) /\ Ahead(age)
  BY DEF ListInv, ListOf, Shape
<1>2. PICK new, m : /\ Ages(new, m) /\ Shape(new)'
                    /\ \A c \in Conns : c # starting => new[c] = age[c]
  BY <1>1, ShapeNext
<1>3. CASE Ahead(new)'
  BY <1>2, <1>3 DEF ListOf, Shape, Ages
<1>4. CASE UNCHANGED listVars /\ Ahead(age)'
  <2>1. Shape(age)'
    BY <1>1, <1>4, ShapeSame
  <2> QED
    BY <1>1, <1>4, <2>1 DEF ListOf, Shape, Ages
<1> QED
  BY <1>1, <1>2, <1>3, <1>4, AheadNext

\* What the shape of the list means for its pointers.
LEMMA ShapeIsSound ==
  ASSUME TypeInv, NEW age, NEW n, Ages(age, n), Shape(age)
  PROVE  PeerListSound
<1>1. /\ head \in Conns \cup {Nobody} /\ monCur \in Conns \cup {Nobody} /\ Nobody \notin Conns
      /\ \A c \in Conns : next[c] \in Conns \cup {Nobody} /\ age[c] \in Nat
  BY ListTypes DEF Ages
<1>2. ASSUME NEW c \in {head, monCur, monNext} \cup { next[d] : d \in Conns }, c # Nobody
      PROVE  struct[c] = "live"
  <2>1. CASE c = head \/ c = monCur
    BY <1>2, <2>1 DEF Shape, PointersIn, Scanning, InList, Entered
  <2>2. CASE \E d \in Conns : c = next[d]
    BY <1>2, <2>2 DEF Shape, PointersIn, InList
  <2>3. CASE c = monNext
    <3>1. monNext = Nobody \/ monNext = monCur \/ (monCur # Nobody /\ monNext = next[monCur])
      BY ListTypes DEF Shape, Scanning, MonitorPcs
    <3> QED
      BY <1>1, <1>2, <2>1, <2>2, <2>3, <3>1
  <2> QED
    BY <1>2, <2>1, <2>2, <2>3
<1>3. ASSUME NEW c \in Conns
      PROVE  LET pointers == { d \in Conns : InList(d) /\ next[d] = c }
             IN IF InList(c) THEN IF head = c THEN pointers = {} ELSE Cardinality(pointers) = 1
                             ELSE head # c /\ pointers = {}
  <2> DEFINE pointers == { d \in Conns : InList(d) /\ next[d] = c }
  <2>1. CASE ~InList(c)
    BY <1>1, <2>1 DEF Shape, PointersIn
  <2>2. CASE InList(c) /\ head = c
    <3> SUFFICES ASSUME NEW d \in Conns, InList(d), next[d] = c PROVE FALSE
      BY <2>2
    <3>1. age[c] < age[d] /\ age[d] <= age[c]
      BY <1>1, <2>2 DEF Shape, Sorted
    <3> QED
      BY <1>1, <3>1
  <2>3. CASE InList(c) /\ head # c
    <3>1. PICK d \in Conns : InList(d) /\ next[d] = c
      BY <2>3 DEF Shape, Preceded
    <3>2. ASSUME NEW e \in Conns, InList(e), next[e] = c PROVE e = d
      <4>1. age[c] < age[d] /\ age[c] < age[e]
        BY <1>1, <3>1, <3>2 DEF Shape, Sorted
      <4>2. ~(age[e] < age[d]) /\ ~(age[d] < age[e])
        <5>1. Entered(d) /\ Entered(e)
          BY <3>1, <3>2 DEF Entered, InList
        <5>2. age[e] < age[d] => age[e] <= age[c]
          BY <3>1, <3>2, <5>1 DEF Shape, Sorted
        <5>3. age[d] < age[e] => age[d] <= age[c]
          BY <3>1, <3>2, <5>1 DEF Shape, Sorted
        <5> QED
          BY <1>1, <4>1, <5>2, <5>3
      <4>3. age[e] = age[d]
        BY <1>1, <4>2
      <4> QED
        BY <3>1, <3>2, <4>3 DEF Shape, Sorted, Entered, InList
    <3>3. pointers = {d}
      BY <3>1, <3>2
    <3> QED
      BY <2>3, <3>3, FS_Singleton
  <2> QED
    BY <2>1, <2>2, <2>3
<1> QED
  BY <1>2, <1>3 DEF PeerListSound

LEMMA ListAlways == Spec => [](TypeInv /\ LockInv /\ ListInv)
BY TypeInit, TypeNext, LockInit, LockNext, ListInit, ListNext, PTL DEF Spec

(***************************************************************************)
(* The peer table: main's additions and the monitor's removals leave no    *)
(* pointer to a freed struct, and nobody is lost or listed twice.          *)
(***************************************************************************)
THEOREM ListStaysSound == Spec => []PeerListSound
<1>1. TypeInv /\ ListInv => PeerListSound
  BY ShapeIsSound DEF ListInv, ListOf, Shape
<1> QED
  BY <1>1, ListAlways, PTL

(***************************************************************************)
(* A broadcast that goes down the list without its lock reaches everyone   *)
(* who was listed when it began and still is.                              *)
(***************************************************************************)
THEOREM BroadcastsReachAll == Spec => BroadcastComplete
<1> DEFINE Reaches ==
             \A c \in Conns :
               (pc[c] = "broadcast" /\ pc'[c] = "recv") =>
                 \A d \in audience : InList(d) => upToDate[d] \/ d = Excluded(c)
<1>1. TypeInv /\ LockInv /\ ListInv /\ [Next]_vars => [Reaches]_vars
  <2> SUFFICES ASSUME TypeInv, LockInv, ListInv, Next, NEW c \in Conns, pc[c] = "broadcast", pc'[c] = "recv",
                      NEW d \in audience, InList(d)
               PROVE  upToDate[d] \/ d = Excluded(c)
    OBVIOUS
  <2>1. PICK age : Ahead(age)
    BY DEF ListInv, ListOf
  <2>2. cur[c] = Nobody
    <3>1. ASSUME NEW e \in Conns, Accept(e) \/ Receive(e) PROVE FALSE
      <4>1. CASE Accept(e)
        BY <4>1 DEF Accept, LockInv, TypeInv, TypeOK
      <4>2. CASE Receive(e)
        <5>1. pc[e] = "recv" /\ (UNCHANGED pc \/ \E v \in {"print", "exit"} : pc' = [pc EXCEPT ![e] = v])
          BY <4>2 DEF Receive, ReceiveRegister, ReceiveKeepAlive, ReceiveFileUpdate, ReceiveEof, threadVars
        <5> QED
          BY <5>1 DEF TypeInv, TypeOK
      <4> QED
        BY <3>1, <4>1, <4>2
    <3>2. ASSUME NEW e \in Conns, Handle(e) PROVE BroadcastDone(c)
      BY <3>2 DEF Handle, Printed, TakeLock, MergeEvent, MergeDone, StartBroadcast, SendRegisterAck,
                  BroadcastOne, BroadcastNext, BroadcastDone, Exit, Killed, KilledMerging, HandshakeUndefined, Undefined, TypeInv, TypeOK, threadVars
    <3>3. CASE PeertableAdd \/ MonitorWake \/ MonitorStep
      BY <3>3 DEF PeertableAdd, MonitorWake, MonitorStep, MonitorScan, MonitorEvict, MonitorUnlink,
                  MonitorCancel, MonitorJoin, MonitorListEnd, MonitorDestroyTable, MonitorUndefined,
                  MonitorNewTable, Undefined, threadVars
    <3> QED
      BY <3>1, <3>2, <3>3 DEF Next, BroadcastDone
  <2> QED
    BY <2>1, <2>2 DEF Ahead, Sending
<1> QED
  BY <1>1, ListAlways, PTL DEF BroadcastComplete, Spec
=============================================================================
