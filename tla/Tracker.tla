------------------------------ MODULE Tracker ------------------------------
(***************************************************************************)
(* The tracker process (src/tracker): the main thread accepts connections  *)
(* and starts a handshake thread for each; handshake threads merge what    *)
(* peers report into the file table and broadcast the table; the monitor   *)
(* thread evicts peers that have gone quiet.                               *)
(*                                                                         *)
(* Threads interleave at lock operations, socket calls and accesses to     *)
(* shared memory.  The first access to freed memory sets ub and the model  *)
(* stops there: nothing is claimed of what the program does afterwards.    *)
(***************************************************************************)
EXTENDS FileTable

CONSTANTS Conns,       \* connections; each has one Peer struct and one thread
          Nobody,      \* a null Peer pointer; the lock's owner when it is free
          AddrOf,      \* AddrOf[c]: where the peer behind c listens for uploads
          FileLists,   \* what a peer may send with REGISTER
          EventLists,  \* what a peer may send with FILE_UPDATE
          MaxMessages, \* bound: messages the tracker receives
          MaxScans     \* bound: rounds of the monitor

\* Peers listen on random ports: no two connections have one address.
ASSUME ConnsAssumption ==
  /\ Nobody \notin Conns
  /\ IsFiniteSet(Conns)
  /\ AddrOf \in [Conns -> Addrs]
  /\ \A c, d \in Conns : AddrOf[c] = AddrOf[d] => c = d

ASSUME MessagesAssumption ==
  /\ FileLists \subseteq Seq(FileInfo)
  /\ EventLists \subseteq Seq(FileEvent)
  /\ MaxMessages \in Nat /\ MaxScans \in Nat

VARIABLES
  table,      \* *file_table
  tableLive,  \* file_table points to a table that has not been destroyed
  ftLock,     \* the owner of file_table->lock
  head,       \* peer_table->head
  next,       \* next[c]: the next pointer of c's Peer struct
  struct,     \* struct[c]: whether c's Peer struct is allocated
  addr,       \* addr[c]: ip and listen_port in the struct
  stamp,      \* stamp[c]: last_timestamp, against the clock the monitor last read
  starting,   \* the connection start_peer has a thread for but no table entry yet
  pc,         \* pc[c]: where c's handshake thread is
  msg,        \* msg[c]: the message it handles
  cur,        \* cur[c]: cur of broadcast_table
  cancelled,  \* cancelled[c]: pthread_cancel has been called on it
  monPc,      \* where the monitor thread is
  monCur,     \* its p
  monNext,    \* its tmp
  ub,         \* freed memory has been accessed
  received,   \* messages received so far
  scans,      \* rounds of the monitor so far
  first,      \* history: the kind of the first message sent on each connection
  upToDate,   \* history: the last table sent on a connection is the current one
  audience    \* history: the connections in the peer table when a broadcast began

tableVars   == <<table, tableLive, ftLock>>
peerVars    == <<head, next, struct, starting>>
threadVars  == <<pc, msg, cur>>
monitorVars == <<monPc, monCur, monNext, scans>>
history     == <<first, upToDate, audience>>
vars == <<tableVars, peerVars, addr, stamp, threadVars, cancelled, monitorVars,
          ub, received, history>>

----------------------------------------------------------------------------
NoAddr == <<>>   \* listen_port is 0 until the peer registers

Message == [type : {"REGISTER"}, files : FileLists, events : Seq(FileEvent)]
             \cup [type : {"FILE_UPDATE"}, files : {<<>>}, events : Seq(FileEvent)]

NoMessage == [type |-> "NONE", files |-> <<>>, events |-> <<>>]

HandshakePcs == {"none", "recv", "print", "lock", "merge", "reply", "broadcast",
                 "sent", "exit", "exited", "killed"}
MonitorPcs == {"sleep", "scan", "evict", "unlink", "cancel", "join", "reset", "renew"}

\* Where a handshake thread holds file_table->lock.
Critical == {"merge", "reply", "broadcast", "sent"}

TypeOK ==
  /\ IsTable(table)
  /\ tableLive \in BOOLEAN
  /\ ftLock \in Conns \cup {Nobody}
  /\ head \in Conns \cup {Nobody}
  /\ next \in [Conns -> Conns \cup {Nobody}]
  /\ struct \in [Conns -> {"unused", "live", "freed"}]
  /\ addr \in [Conns -> Addrs \cup {NoAddr}]
  /\ stamp \in [Conns -> {"zero", "fresh", "old"}]
  /\ starting \in Conns \cup {Nobody}
  /\ pc \in [Conns -> HandshakePcs]
  /\ msg \in [Conns -> Message \cup {NoMessage}]
  /\ cur \in [Conns -> Conns \cup {Nobody}]
  /\ cancelled \in [Conns -> BOOLEAN]
  /\ monPc \in MonitorPcs
  /\ monCur \in Conns \cup {Nobody}
  /\ monNext \in Conns \cup {Nobody}
  /\ ub \in BOOLEAN
  /\ received \in Nat /\ scans \in Nat
  /\ first \in [Conns -> {"NONE", "REGISTER_ACK", "TABLE_UPDATE"}]
  /\ upToDate \in [Conns -> BOOLEAN]
  /\ audience \in SUBSET Conns

Init ==
  /\ table = EmptyTable
  /\ tableLive = TRUE
  /\ ftLock = Nobody
  /\ head = Nobody
  /\ next = [c \in Conns |-> Nobody]
  /\ struct = [c \in Conns |-> "unused"]
  /\ addr = [c \in Conns |-> NoAddr]
  /\ stamp = [c \in Conns |-> "zero"]
  /\ starting = Nobody
  /\ pc = [c \in Conns |-> "none"]
  /\ msg = [c \in Conns |-> NoMessage]
  /\ cur = [c \in Conns |-> Nobody]
  /\ cancelled = [c \in Conns |-> FALSE]
  /\ monPc = "sleep"
  /\ monCur = Nobody
  /\ monNext = Nobody
  /\ ub = FALSE
  /\ received = 0
  /\ scans = 0
  /\ first = [c \in Conns |-> "NONE"]
  /\ upToDate = [c \in Conns |-> FALSE]
  /\ audience = {}

\* Nothing undefined has happened, nor does it in this step ...
Defined == ~ub /\ UNCHANGED ub

\* ... or this step touches memory the program has freed.
Undefined ==
  /\ ~ub
  /\ ub' = TRUE
  /\ UNCHANGED <<tableVars, peerVars, addr, stamp, threadVars, cancelled, monitorVars,
                 received, history>>

\* The table changes: what has been sent is no longer current.
Outdate == upToDate' = [c \in Conns |-> FALSE]

----------------------------------------------------------------------------
\* The main thread.

\* start_peer allocates the struct (calloc: last_timestamp and listen_port are 0)
\* and creates the thread ...
Accept(c) ==
  /\ Defined
  /\ starting = Nobody
  /\ struct[c] = "unused"
  /\ struct' = [struct EXCEPT ![c] = "live"]
  /\ pc' = [pc EXCEPT ![c] = "recv"]
  /\ starting' = c
  /\ UNCHANGED <<tableVars, head, next, addr, stamp, msg, cur, cancelled, monitorVars,
                 received, history>>

\* ... and only then calls peertable_add, which puts the struct at the head.
PeertableAdd ==
  /\ Defined
  /\ starting # Nobody
  /\ next' = [next EXCEPT ![starting] = head]
  /\ head' = starting
  /\ starting' = Nobody
  /\ UNCHANGED <<tableVars, struct, addr, stamp, threadVars, cancelled, monitorVars,
                 received, history>>

----------------------------------------------------------------------------
\* Handshake threads.  A peer sends REGISTER once, before anything else.

\* Mutant of ReceiveRegister: the listen port is not stored.
ReceiveRegisterPortless(c, files) ==
  /\ Defined
  /\ pc[c] = "recv" /\ ~cancelled[c]
  /\ addr[c] = NoAddr
  /\ received < MaxMessages
  /\ received' = received + 1
  /\ stamp' = [stamp EXCEPT ![c] = "fresh"]
  /\ msg' = [msg EXCEPT ![c] = [type |-> "REGISTER", files |-> files, events |-> <<>>]]
  /\ pc' = [pc EXCEPT ![c] = "print"]
  /\ UNCHANGED <<tableVars, peerVars, addr, cur, cancelled, monitorVars, history>>

ReceiveRegister(c, files) ==
  /\ Defined
  /\ pc[c] = "recv" /\ ~cancelled[c]
  /\ addr[c] = NoAddr
  /\ received < MaxMessages
  /\ received' = received + 1
  /\ stamp' = [stamp EXCEPT ![c] = "fresh"]
  /\ addr' = [addr EXCEPT ![c] = AddrOf[c]]
  /\ msg' = [msg EXCEPT ![c] = [type |-> "REGISTER", files |-> files, events |-> <<>>]]
  /\ pc' = [pc EXCEPT ![c] = "print"]
  /\ UNCHANGED <<tableVars, peerVars, cur, cancelled, monitorVars, history>>

ReceiveKeepAlive(c) ==
  /\ Defined
  /\ pc[c] = "recv" /\ ~cancelled[c]
  /\ addr[c] # NoAddr
  /\ received < MaxMessages
  /\ received' = received + 1
  /\ stamp' = [stamp EXCEPT ![c] = "fresh"]
  /\ UNCHANGED <<tableVars, peerVars, addr, threadVars, cancelled, monitorVars,
                 history>>

ReceiveFileUpdate(c, events) ==
  /\ Defined
  /\ pc[c] = "recv" /\ ~cancelled[c]
  /\ addr[c] # NoAddr
  /\ received < MaxMessages
  /\ received' = received + 1
  /\ stamp' = [stamp EXCEPT ![c] = "fresh"]
  /\ msg' = [msg EXCEPT ![c] = [type |-> "FILE_UPDATE", files |-> <<>>, events |-> events]]
  /\ pc' = [pc EXCEPT ![c] = "print"]
  /\ UNCHANGED <<tableVars, peerVars, addr, cur, cancelled, monitorVars, history>>

\* The peer hangs up: recv_message returns -1 and the loop ends.
ReceiveEof(c) ==
  /\ Defined
  /\ pc[c] = "recv" /\ ~cancelled[c]
  /\ pc' = [pc EXCEPT ![c] = "exit"]
  /\ UNCHANGED <<tableVars, peerVars, addr, stamp, msg, cur, cancelled, monitorVars,
                 received, history>>

\* What was received is printed, before the lock is asked for.
Printed(c) ==
  /\ Defined
  /\ pc[c] = "print"
  /\ pc' = [pc EXCEPT ![c] = "lock"]
  /\ UNCHANGED <<tableVars, peerVars, addr, stamp, msg, cur, cancelled, monitorVars,
                 received, history>>

\* Mutant of TakeLock: the lock is not waited for.
TakeLockAtOnce(c) ==
  /\ Defined
  /\ pc[c] = "lock"
  /\ tableLive
  /\ ftLock' = c
  /\ msg' = IF msg[c].type = "REGISTER"
              THEN [msg EXCEPT ![c].events = FileDiff(table, msg[c].files)]
              ELSE msg
  /\ pc' = [pc EXCEPT ![c] = "merge"]
  /\ UNCHANGED <<table, tableLive, peerVars, addr, stamp, cur, cancelled, monitorVars,
                 received, history>>

\* pthread_mutex_lock(file_table->lock); filetable_merge then compares the files
\* of a REGISTER with the table.
TakeLock(c) ==
  /\ Defined
  /\ pc[c] = "lock"
  /\ tableLive
  /\ ftLock = Nobody
  /\ ftLock' = c
  /\ msg' = IF msg[c].type = "REGISTER"
              THEN [msg EXCEPT ![c].events = FileDiff(table, msg[c].files)]
              ELSE msg
  /\ pc' = [pc EXCEPT ![c] = "merge"]
  /\ UNCHANGED <<table, tableLive, peerVars, addr, stamp, cur, cancelled, monitorVars,
                 received, history>>

\* One round of the loop of filetable_eventMerge.
MergeEvent(c) ==
  /\ Defined
  /\ pc[c] = "merge"
  /\ msg[c].events # <<>>
  /\ table' \in Applied(table, Head(msg[c].events), addr[c])
  /\ msg' = [msg EXCEPT ![c].events = Tail(@)]
  /\ Outdate
  /\ UNCHANGED <<tableLive, ftLock, peerVars, addr, stamp, pc, cur, cancelled,
                 monitorVars, received, first, audience>>

\* Everything between here and the end of the broadcast runs under the lock.
\* audience records the list as broadcast_table finds it.
Listed == { c \in Conns : struct[c] = "live" /\ c # starting /\
                          (head = c \/ \E d \in Conns : next[d] = c) }

StartBroadcast(c) ==
  /\ pc' = [pc EXCEPT ![c] = "broadcast"]
  /\ cur' = [cur EXCEPT ![c] = head]
  /\ audience' = Listed

\* A REGISTER is acknowledged before the broadcast, a FILE_UPDATE is not.
MergeDone(c) ==
  /\ Defined
  /\ pc[c] = "merge"
  /\ msg[c].events = <<>>
  /\ IF msg[c].type = "REGISTER"
       THEN pc' = [pc EXCEPT ![c] = "reply"] /\ UNCHANGED <<cur, audience>>
       ELSE StartBroadcast(c)
  /\ UNCHANGED <<tableVars, peerVars, addr, stamp, msg, cancelled, monitorVars,
                 received, first, upToDate>>

\* What is sent first on a connection is what the peer receives first.
Sent(c, kind) ==
  first' = [first EXCEPT ![c] = IF @ = "NONE" THEN kind ELSE @]

\* send is a cancellation point: a cancelled thread ends there instead (Killed).
SendRegisterAck(c) ==
  /\ Defined
  /\ pc[c] = "reply" /\ ~cancelled[c]
  /\ Sent(c, "REGISTER_ACK")
  /\ StartBroadcast(c)
  /\ UNCHANGED <<tableVars, peerVars, addr, stamp, msg, cancelled, monitorVars,
                 received, upToDate>>

\* A REGISTER is broadcast to all, a FILE_UPDATE to all but its sender.
Excluded(c) == IF msg[c].type = "FILE_UPDATE" THEN c ELSE Nobody

\* One round of the loop of broadcast_table, which takes no lock of the peer table:
\* the table is sent ...
BroadcastOne(c) ==
  LET d == cur[c] IN
  /\ Defined
  /\ pc[c] = "broadcast" /\ ~cancelled[c]
  /\ d \notin {Nobody, Excluded(c)}
  /\ struct[d] = "live"
  /\ Sent(d, "TABLE_UPDATE")
  /\ upToDate' = [upToDate EXCEPT ![d] = TRUE]
  /\ pc' = [pc EXCEPT ![c] = "sent"]
  /\ UNCHANGED <<tableVars, peerVars, addr, stamp, msg, cur, cancelled, monitorVars,
                 received, audience>>

\* The peer it was sent to, or need not be sent to.
Passed(c) == pc[c] = "sent" \/ (pc[c] = "broadcast" /\ cur[c] = Excluded(c))

\* Mutant of BroadcastNext: the loop ends at the excluded peer.
BroadcastNextStops(c) ==
  LET d == cur[c] IN
  /\ Defined
  /\ Passed(c)
  /\ d # Nobody /\ struct[d] = "live"
  /\ cur' = [cur EXCEPT ![c] = IF d = Excluded(c) THEN Nobody ELSE next[d]]
  /\ pc' = [pc EXCEPT ![c] = "broadcast"]
  /\ UNCHANGED <<tableVars, peerVars, addr, stamp, msg, cancelled, monitorVars,
                 received, history>>

\* ... and only then cur->next is read.
BroadcastNext(c) ==
  LET d == cur[c] IN
  /\ Defined
  /\ Passed(c)
  /\ d # Nobody /\ struct[d] = "live"
  /\ cur' = [cur EXCEPT ![c] = next[d]]
  /\ pc' = [pc EXCEPT ![c] = "broadcast"]
  /\ UNCHANGED <<tableVars, peerVars, addr, stamp, msg, cancelled, monitorVars,
                 received, history>>

\* Mutant of BroadcastDone: the lock is not given back.
BroadcastDoneLocked(c) ==
  /\ Defined
  /\ pc[c] = "broadcast"
  /\ cur[c] = Nobody
  /\ pc' = [pc EXCEPT ![c] = "recv"]
  /\ msg' = [msg EXCEPT ![c] = NoMessage]
  /\ audience' = {}
  /\ UNCHANGED <<tableVars, peerVars, addr, stamp, cur, cancelled, monitorVars,
                 received, first, upToDate>>

\* The list has ended: unlock, free the message, receive again.
BroadcastDone(c) ==
  /\ Defined
  /\ pc[c] = "broadcast"
  /\ cur[c] = Nobody
  /\ ftLock' = Nobody
  /\ pc' = [pc EXCEPT ![c] = "recv"]
  /\ msg' = [msg EXCEPT ![c] = NoMessage]
  /\ audience' = {}
  /\ UNCHANGED <<table, tableLive, peerVars, addr, stamp, cur, cancelled, monitorVars,
                 received, first, upToDate>>

\* Mutants of Exit: the thread ends without its clean-up ...
ExitAtOnce(c) ==
  /\ Defined
  /\ pc[c] = "exit"
  /\ pc' = [pc EXCEPT ![c] = "exited"]
  /\ UNCHANGED <<tableVars, peerVars, addr, stamp, msg, cur, cancelled, monitorVars,
                 received, history>>

\* ... or cleans up without taking the lock.
ExitUnlocked(c) ==
  /\ Defined
  /\ pc[c] = "exit"
  /\ tableLive
  /\ table' = RemovePeerAll(table, addr[c])
  /\ Outdate
  /\ pc' = [pc EXCEPT ![c] = "exited"]
  /\ UNCHANGED <<tableLive, ftLock, peerVars, addr, stamp, msg, cur, cancelled,
                 monitorVars, received, first, audience>>

\* After the loop: lock, filetable_removePeerAll, unlock, pthread_exit.  The
\* struct stays in the peer table and the socket stays open.
Exit(c) ==
  /\ Defined
  /\ pc[c] = "exit"
  /\ tableLive
  /\ ftLock = Nobody
  /\ table' = RemovePeerAll(table, addr[c])
  /\ Outdate
  /\ pc' = [pc EXCEPT ![c] = "exited"]
  /\ UNCHANGED <<tableLive, ftLock, peerVars, addr, stamp, msg, cur, cancelled,
                 monitorVars, received, first, audience>>

\* A cancelled thread ends at recv, at send or in what it prints, with whatever locks
\* it holds: nothing is registered with pthread_cleanup_push.
Killed(c) ==
  /\ Defined
  /\ cancelled[c]
  /\ pc[c] \in {"recv", "print", "reply", "broadcast"}
  /\ pc' = [pc EXCEPT ![c] = "killed"]
  /\ UNCHANGED <<tableVars, peerVars, addr, stamp, msg, cur, cancelled, monitorVars,
                 received, history>>

\* filetable_remove prints the files of a directory, in the middle of a merge: the
\* thread ends with part of the directory removed and its other events dropped.
KilledMerging(c) ==
  /\ Defined
  /\ cancelled[c]
  /\ pc[c] = "merge"
  /\ msg[c].events # <<>> /\ Head(msg[c].events).action = "FILE_DELETED"
  /\ table' \in RemovalsCutShort(table, Head(msg[c].events).file.name)
  /\ pc' = [pc EXCEPT ![c] = "killed"]
  /\ Outdate
  /\ UNCHANGED <<tableLive, ftLock, peerVars, addr, stamp, msg, cur, cancelled,
                 monitorVars, received, first, audience>>

\* Reading cur->sockfd or cur->next of a struct peer_destroy has freed, or locking a mutex of
\* a table filetable_destroy has freed.
HandshakeUndefined(c) ==
  /\ \/ pc[c] \in {"broadcast", "sent"} /\ cur[c] # Nobody /\ struct[cur[c]] = "freed"
     \/ pc[c] \in {"lock", "exit"} /\ ~tableLive
  /\ Undefined

----------------------------------------------------------------------------
\* The monitor thread.

\* It sleeps, reads the clock and starts down the list.  late are the connections
\* whose last_timestamp is by now more than INTERVAL old; one that is still zero
\* always is.
MonitorWake ==
  /\ Defined
  /\ monPc = "sleep"
  /\ scans < MaxScans
  /\ scans' = scans + 1
  /\ \E late \in SUBSET { c \in Conns : stamp[c] = "fresh" } :
       stamp' = [c \in Conns |-> IF c \in late THEN "old" ELSE stamp[c]]
  /\ monCur' = head
  /\ monPc' = "scan"
  /\ UNCHANGED <<tableVars, peerVars, addr, threadVars, cancelled, monNext, received,
                 history>>

Expired(c) == stamp[c] # "fresh"

\* The head of the loop, and its step over a peer that is in time.
MonitorScan ==
  /\ Defined
  /\ monPc = "scan"
  /\ monCur # Nobody
  /\ monNext' = next[monCur]
  /\ IF Expired(monCur)
       THEN monPc' = "evict" /\ UNCHANGED monCur
       ELSE monCur' = next[monCur] /\ UNCHANGED monPc
  /\ UNCHANGED <<tableVars, peerVars, addr, stamp, threadVars, cancelled, scans,
                 received, history>>

\* Mutant of MonitorEvict: the lock is not taken.
MonitorEvictUnlocked ==
  /\ Defined
  /\ monPc = "evict"
  /\ table' = RemovePeerAll(table, addr[monCur])
  /\ Outdate
  /\ monPc' = "unlink"
  /\ UNCHANGED <<tableLive, ftLock, peerVars, addr, stamp, threadVars, cancelled,
                 monCur, monNext, scans, received, first, audience>>

\* lock, filetable_removePeerAll, unlock.  Nothing is broadcast.
MonitorEvict ==
  /\ Defined
  /\ monPc = "evict"
  /\ ftLock = Nobody
  /\ table' = RemovePeerAll(table, addr[monCur])
  /\ Outdate
  /\ monPc' = "unlink"
  /\ UNCHANGED <<tableLive, ftLock, peerVars, addr, stamp, threadVars, cancelled,
                 monCur, monNext, scans, received, first, audience>>

\* Mutant of MonitorUnlink: only the head is looked after.
MonitorUnlinkHead ==
  /\ Defined
  /\ monPc = "unlink"
  /\ head' = IF head = monCur THEN next[monCur] ELSE head
  /\ monPc' = "cancel"
  /\ UNCHANGED <<tableVars, struct, starting, next, addr, stamp, threadVars, cancelled,
                 monCur, monNext, scans, received, history>>

\* peertable_remove: whoever points to the struct now points past it.
MonitorUnlink ==
  /\ Defined
  /\ monPc = "unlink"
  /\ head' = IF head = monCur THEN next[monCur] ELSE head
  /\ next' = [c \in Conns |-> IF next[c] = monCur THEN next[monCur] ELSE next[c]]
  /\ monPc' = "cancel"
  /\ UNCHANGED <<tableVars, struct, starting, addr, stamp, threadVars, cancelled,
                 monCur, monNext, scans, received, history>>

\* peer_destroy: pthread_cancel ...
MonitorCancel ==
  /\ Defined
  /\ monPc = "cancel"
  /\ cancelled' = [cancelled EXCEPT ![monCur] = TRUE]
  /\ monPc' = "join"
  /\ UNCHANGED <<tableVars, peerVars, addr, stamp, threadVars, monCur, monNext, scans,
                 received, history>>

\* ... pthread_join, close, free; and on to the next peer of the list.
MonitorJoin ==
  /\ Defined
  /\ monPc = "join"
  /\ pc[monCur] \in {"exited", "killed"}
  /\ struct' = [struct EXCEPT ![monCur] = "freed"]
  /\ next' = [next EXCEPT ![monCur] = Nobody]
  /\ monCur' = monNext
  /\ monPc' = "scan"
  /\ UNCHANGED <<tableVars, head, starting, addr, stamp, threadVars, cancelled,
                 monNext, scans, received, history>>

\* The end of the list.  If the list is empty by now, the file table is destroyed
\* with its lock, without taking it.  A thread that is inside the lock goes on
\* with freed memory.
MonitorListEnd ==
  /\ Defined
  /\ monPc = "scan"
  /\ monCur = Nobody
  /\ monPc' = IF head = Nobody THEN "reset" ELSE "sleep"
  /\ monNext' = Nobody
  /\ UNCHANGED <<tableVars, peerVars, addr, stamp, threadVars, cancelled, monCur,
                 scans, received, history>>

\* filetable_destroy.
MonitorDestroyTable ==
  /\ Defined
  /\ monPc = "reset"
  /\ \A c \in Conns : pc[c] \notin Critical
  /\ tableLive' = FALSE
  /\ monPc' = "renew"
  /\ UNCHANGED <<table, ftLock, peerVars, addr, stamp, threadVars, cancelled, monCur,
                 monNext, scans, received, history>>

MonitorUndefined ==
  /\ monPc = "reset"
  /\ \E c \in Conns : pc[c] \in Critical
  /\ Undefined

\* filetable_init: a new table with a new lock, free even if the old one was held.
MonitorNewTable ==
  /\ Defined
  /\ monPc = "renew"
  /\ table' = EmptyTable
  /\ tableLive' = TRUE
  /\ ftLock' = Nobody
  /\ Outdate
  /\ monPc' = "sleep"
  /\ UNCHANGED <<peerVars, addr, stamp, threadVars, cancelled, monCur, monNext, scans,
                 received, first, audience>>

----------------------------------------------------------------------------
Receive(c) ==
  \/ \E files \in FileLists : ReceiveRegister(c, files)
  \/ ReceiveKeepAlive(c)
  \/ \E events \in EventLists : ReceiveFileUpdate(c, events)
  \/ ReceiveEof(c)

\* What a handshake thread does without waiting for its peer.
Handle(c) ==
  \/ Printed(c)
  \/ TakeLock(c)
  \/ MergeEvent(c)
  \/ MergeDone(c)
  \/ SendRegisterAck(c)
  \/ BroadcastOne(c)
  \/ BroadcastNext(c)
  \/ BroadcastDone(c)
  \/ Exit(c)
  \/ Killed(c)
  \/ KilledMerging(c)
  \/ HandshakeUndefined(c)

MonitorStep ==
  \/ MonitorScan
  \/ MonitorEvict
  \/ MonitorUnlink
  \/ MonitorCancel
  \/ MonitorJoin
  \/ MonitorListEnd
  \/ MonitorDestroyTable
  \/ MonitorUndefined
  \/ MonitorNewTable

Next ==
  \/ \E c \in Conns : Accept(c) \/ Receive(c) \/ Handle(c)
  \/ PeertableAdd
  \/ MonitorWake
  \/ MonitorStep

Spec == Init /\ [][Next]_vars

\* Threads that can run do; peers may fall silent, and no mutex is promised to a
\* thread that always finds it taken, but each thread takes it boundedly often.
Fairness ==
  /\ WF_vars(PeertableAdd)
  /\ WF_vars(MonitorStep)
  /\ \A c \in Conns : WF_vars(Handle(c))

FairSpec == Spec /\ Fairness

----------------------------------------------------------------------------
\* Properties.

\* file_table->lock protects the table and the order of broadcasts, although a
\* cancelled thread may die holding it and the monitor may replace it: before
\* anything undefined happens, one thread at most merges or broadcasts, on a
\* table that has not been destroyed.
CriticalSection ==
  \A c \in Conns : pc[c] \in Critical => ftLock = c /\ tableLive

\* The peer table under main's and the monitor's changes, read by broadcasts
\* without its lock: no pointer that the list itself or the monitor follows leads
\* to a freed struct, and each peer that belongs in the list is in it once.
InList(c) == struct[c] = "live" /\ c # starting
               /\ ~(monPc \in {"cancel", "join"} /\ monCur = c)

PeerListSound ==
  /\ \A c \in {head, monCur, monNext} \cup { next[d] : d \in Conns } :
       c # Nobody => struct[c] = "live"
  /\ \A c \in Conns :
       LET pointers == { d \in Conns : InList(d) /\ next[d] = c }
       IN IF InList(c) THEN IF head = c THEN pointers = {} ELSE Cardinality(pointers) = 1
                       ELSE head # c /\ pointers = {}

\* A broadcast follows the list without the lock of the peer table, while the monitor
\* frees structs of it.  But before the monitor unlinks a peer it needs the lock the
\* broadcast holds: at most one of the peers that were listed when a broadcast began
\* is lost to it, the one whose eviction was under way.
Lost == { d \in audience : struct[d] = "freed"
                            \/ (monPc \in {"unlink", "cancel", "join"} /\ monCur = d) }

OneLostPerBroadcast ==
  (\E c \in Conns : pc[c] \in {"broadcast", "sent"}) => \A d, e \in Lost : d = e

\* An address in the table can always be removed from it: its connection has
\* registered, and its thread still has its own clean-up before it or has been
\* cancelled.  In particular a peer that hung up in order is listed nowhere.
Holders == UNION { table.entry[n].peers : n \in Present(table) }

HoldersAccounted ==
  \A a \in Holders : \E c \in Conns :
     addr[c] = a /\ (cancelled[c] \/ pc[c] \notin {"none", "exited"})

\* A broadcast reaches everyone it should, while main adds peers and the monitor
\* unlinks them: when it ends, each peer that was listed when it began and still
\* is has been sent the table as it is now, the sender of an update excepted.
BroadcastComplete ==
  [][\A c \in Conns :
       (pc[c] = "broadcast" /\ pc'[c] = "recv") =>
         \A d \in audience : InList(d) => upToDate[d] \/ d = Excluded(c)]_vars

\* The threads together implement TableMachine: registrations and updates are
\* applied one at a time, each against the table it was compared with; one that is
\* cut short is the last before the table is replaced.
holder == IF ftLock \in Conns /\ pc[ftLock] = "merge" THEN msg[ftLock] ELSE NoMessage

\* The thread that has the lock was cancelled before it had applied its events.
Abandoned == ftLock \in Conns /\ pc[ftLock] = "killed" /\ msg[ftLock].events # <<>>

Serial == INSTANCE TableMachine WITH
  work  <- holder.events,
  owner <- IF holder.events = <<>> THEN NoAddr ELSE addr[ftLock],
  mode  <- CASE Abandoned -> "abandoned"
             [] ~Abandoned /\ holder.events # <<>> -> holder.type
             [] OTHER -> "idle"

SerialSpec == Serial!Spec

\* A thread that wants the lock gets it, unless a thread was cancelled while it
\* held it (or freed memory was used).
Orphaned == ftLock # Nobody /\ pc[ftLock] = "killed"

LockGranted ==
  \A c \in Conns : pc[c] \in {"lock", "exit"} ~> (pc[c] \notin {"lock", "exit"} \/ Orphaned \/ ub)

----------------------------------------------------------------------------
\* What comments say and the code does not do.

\* "should always be a REGISTER_ACK; assert so" (peer.c:440): the first message a
\* registering peer receives; the peer exits when it is another.
RegisterAckFirst == \A c \in Conns : first[c] # "TABLE_UPDATE"
=============================================================================
