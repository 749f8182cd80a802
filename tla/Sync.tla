-------------------------------- MODULE Sync --------------------------------
(***************************************************************************)
(* Whole peers around the tracker: how a change of one user reaches the    *)
(* disks of the others (src/peer/peer.c), and what happens when several    *)
(* users, or a restart, come in between.                                   *)
(*                                                                         *)
(* One plain file.  The tracker is the table of FileTable.tla and handles  *)
(* one message at a time, as Tracker.tla shows it does.  A peer observes   *)
(* its own directory (Monitor.tla: in order, its own changes ignored),     *)
(* handles one TABLE_UPDATE after another and downloads a file whole       *)
(* (Download.tla).  The clocks of the peers agree, and they count whole    *)
(* seconds: what is written in one second has one modification time.       *)
(***************************************************************************)
EXTENDS FileTable

CONSTANTS Peers,      \* the machines: their ips
          Restarting, \* bound: the peers that may stop and start again,
          MaxStarts,  \* and how often a peer may start, each time on another port
          MaxWrites,  \* bound: versions of the file
          MaxSeconds, \* bound: seconds in which something is written
          MaxActs     \* bound: writes, deletions and restarts together

ASSUME SyncAssumption ==
  /\ Names = {1} /\ DotNames = {}
  /\ Addrs = Peers \X (1..MaxStarts)
  /\ Times = 0..MaxSeconds /\ 1 \in Sizes
  /\ IsFiniteSet(Peers)
  /\ MaxStarts \in Nat \ {0} /\ MaxWrites \in Nat \ {0}
  /\ MaxSeconds \in Nat \ {0} /\ MaxActs \in Nat

VARIABLES
  disk,     \* disk[p]: the copy of the file on p, or NoCopy
  raw,      \* raw[p]: changes of its user that p has not observed yet
  up,       \* up[a]: what the connection from address a has still to deliver
  down,     \* down[p]: the TABLE_UPDATEs p has not handled
  table,    \* the tracker's file table
  port,     \* port[p]: the port p chose when it last started
  listed,   \* the peers whose present connection has registered
  main,     \* main[p]: the main thread of p
  job,      \* job[p]: its download, which is also its mark in ignore_modify
  deaf,     \* the peers whose upload threads wait for a mutex nobody will release
  now,      \* the second in which a file was last written
  writes,   \* versions so far
  acts,     \* what users did and restarts so far
  made,     \* history: made[p]: how many changes the user of p has made
  heard,    \* history: heard[p]: how many of them the tracker has handled
  last,     \* history: the version of the last change of any user, 0 a deletion
  wrote,    \* history: wrote[k]: the time and the size of version k
  overlap,  \* history: a user or a restart came while something was on its way
  harm      \* history: the places where the code lost or mistook a version

clock == <<now, wrote>>
disks == <<disk, raw, made, last, writes, acts, overlap, clock>>
network == <<up, down, port, listed>>
tracker == <<table, heard>>
vars == <<disks, network, tracker, main, job, deaf, harm>>

(***************************************************************************)
(* A copy: what stat says of it, and the version whose bytes it has (0 for *)
(* bytes that no user wrote).                                              *)
(***************************************************************************)
Copies == [mtime : Times, size : Sizes, version : 0..MaxWrites]
NoCopy == [mtime |-> 0, size |-> 0, version |-> 0]

Info(c) == [name |-> 1, mtime |-> c.mtime, size |-> c.size, dir |-> FALSE]

NoEntry == [mtime |-> 0, size |-> 0, dir |-> FALSE, peers |-> {}, numpeers |-> 0]
EntryOf(t) == IF 1 \in Present(t) THEN t.entry[1] ELSE NoEntry

Address(p) == <<p, port[p]>>

\* What is written now is written in second t: the last one, or a later one.  Of the
\* seconds in between only that they have passed can be told.
InSecond(t) == t \in {now, now + 1} /\ t \in Times /\ now' = t

\* All that the program knows of a version, and the versions it can be.
Stamp(f) == [mtime |-> f.mtime, size |-> f.size]
Versions(e) == {k \in 1..writes : wrote[k] = Stamp(e)}

\* The copy has the bytes of the entry: all empty files are alike.
SameBytes(c, e) ==
  c # NoCopy /\ c.size = e.size /\ (c.size = 0 \/ Versions(e) = {c.version})

Message(type, items, n) == [type |-> type, items |-> items, n |-> n]

Idle == [pc |-> "idle", entry |-> NoEntry, heard |-> 0]
NoJob == [phase |-> "none", entry |-> NoEntry, heard |-> 0]

Harms == {"deleted", "overwritten", "skipped", "ignored", "older", "mixed",
          "unheld", "revived", "alike", "again"}

TypeOK ==
  /\ disk \in [Peers -> Copies]
  /\ \A p \in Peers : disk[p].mtime = 0 => disk[p] = NoCopy
  /\ IsTable(table)
  /\ port \in [Peers -> 1..MaxStarts] /\ listed \subseteq Peers /\ deaf \subseteq Peers
  /\ \A a \in Addrs : \A i \in DOMAIN up[a] :
       /\ up[a][i].type \in {"REGISTER", "FILE_UPDATE", "EOF"}
       /\ up[a][i].type = "EOF" => a # Address(a[1]) /\ i = Len(up[a])
  /\ \A p \in Peers :
       /\ main[p].pc \in {"idle", "drop", "show", "get", "wait"}
       /\ job[p].phase \in {"none", "fetch", "wait", "hung"}
       /\ main[p].entry \in Entry /\ job[p].entry \in Entry
       /\ main[p].pc = "wait" => job[p].phase = "wait"
       /\ heard[p] <= made[p]
  /\ last \in 0..MaxWrites /\ writes \in 1..MaxWrites /\ acts \in 0..MaxActs
  /\ wrote \in [1..MaxWrites -> [mtime : Times, size : Sizes]] /\ now \in Times \ {0}
  /\ overlap \in BOOLEAN /\ harm \subseteq Harms

\* Every peer is registered, and all have version 1 or none has the file.
Init ==
  \E there \in BOOLEAN :
    /\ disk = [p \in Peers |-> IF there THEN [mtime |-> 1, size |-> 1, version |-> 1] ELSE NoCopy]
    /\ table = IF there
               THEN [entry |-> [n \in Names |-> [mtime |-> 1, size |-> 1, dir |-> FALSE,
                                                 peers |-> Peers \X {1},
                                                 numpeers |-> Cardinality(Peers)]],
                     numfiles |-> 1]
               ELSE EmptyTable
    /\ last = IF there THEN 1 ELSE 0
    /\ wrote = [k \in 1..MaxWrites |-> IF there /\ k = 1 THEN [mtime |-> 1, size |-> 1]
                                      ELSE Stamp(NoCopy)]
    /\ now = 1
    /\ raw = [p \in Peers |-> <<>>]
    /\ up = [a \in Addrs |-> <<>>] /\ down = [p \in Peers |-> <<>>]
    /\ port = [p \in Peers |-> 1] /\ listed = Peers
    /\ main = [p \in Peers |-> Idle] /\ job = [p \in Peers |-> NoJob]
    /\ deaf = {}
    /\ writes = 1 /\ acts = 0
    /\ made = [p \in Peers |-> 0] /\ heard = [p \in Peers |-> 0]
    /\ overlap = FALSE /\ harm = {}

Quiet ==
  /\ \A a \in Addrs : up[a] = <<>>
  /\ \A p \in Peers : /\ raw[p] = <<>> /\ down[p] = <<>>
                      /\ main[p].pc = "idle" /\ job[p].phase \in {"none", "hung"}
-----------------------------------------------------------------------------
(***************************************************************************)
(* The users.  A history is followed to its end, but users and restarts    *)
(* keep quiet after its first harm.  A download begun again alone is none. *)
(***************************************************************************)
Unharmed == harm \subseteq {"again"}

Act == acts < MaxActs /\ Unharmed /\ acts' = acts + 1

Changed(p, copy, kind) ==
  /\ Act
  /\ disk' = [disk EXCEPT ![p] = copy]
  /\ raw' = [raw EXCEPT ![p] = Append(@, [action |-> kind, n |-> made[p] + 1])]
  /\ made' = [made EXCEPT ![p] = @ + 1]
  /\ last' = copy.version
  /\ overlap' = (overlap \/ ~Quiet)
  /\ UNCHANGED <<network, tracker, main, job, deaf>>

\* Nothing but time and size tells one version from another: two of one size in one
\* second are one to the program.
Alike(stamp) == stamp.size > 0 /\ \E k \in 1..writes : wrote[k] = stamp

UserWrites(p, size, t) ==
  /\ writes < MaxWrites
  /\ writes' = writes + 1
  /\ InSecond(t)
  /\ LET copy == [mtime |-> t, size |-> size, version |-> writes']
     IN /\ wrote' = [wrote EXCEPT ![writes'] = Stamp(copy)]
        /\ harm' = IF Alike(Stamp(copy)) THEN harm \cup {"alike"} ELSE harm
        /\ Changed(p, copy, IF disk[p] = NoCopy THEN "FILE_CREATED" ELSE "FILE_MODIFIED")
UserDeletes(p) ==
  /\ disk[p] # NoCopy
  /\ Changed(p, NoCopy, "FILE_DELETED")
  /\ UNCHANGED <<writes, clock, harm>>
-----------------------------------------------------------------------------
(***************************************************************************)
(* The observer of p: monitor_thread and read_monitor_thread.              *)
(***************************************************************************)
Marked(p) == job[p].phase # "none"

Send(a, m) == up' = [up EXCEPT ![a] = Append(@, m)]

Observe(p) ==
  /\ raw[p] # <<>>
  /\ raw' = [raw EXCEPT ![p] = Tail(@)]
  /\ LET e == Head(raw[p])
         deleted == e.action = "FILE_DELETED"
         ignored == IF deleted THEN main[p].pc = "show" ELSE Marked(p)
         event == [action |-> e.action, file |-> Info(IF deleted THEN NoCopy ELSE disk[p])]
     IN CASE ~deleted /\ disk[p] = NoCopy -> UNCHANGED <<up, harm>>
          [] (deleted \/ disk[p] # NoCopy) /\ ignored ->
               harm' = harm \cup {"ignored"} /\ UNCHANGED up
          [] OTHER -> Send(Address(p), Message("FILE_UPDATE", <<event>>, e.n)) /\ UNCHANGED harm
  /\ UNCHANGED <<disk, made, last, writes, acts, overlap, clock, down, port, listed,
                 tracker, main, job, deaf>>
-----------------------------------------------------------------------------
(***************************************************************************)
(* The tracker, one message at a time.                                     *)
(***************************************************************************)
\* Mutant of Broadcast: the table as it was before the message.
BroadcastBefore(to) ==
  down' = [p \in Peers |->
             IF p \in to THEN Append(down[p], [entry |-> EntryOf(table), heard |-> heard[p]])
             ELSE down[p]]

Broadcast(to) ==
  down' = [p \in Peers |->
             IF p \in to THEN Append(down[p], [entry |-> EntryOf(table'), heard |-> heard'[p]])
             ELSE down[p]]

\* The last writer to be handled wins, be it older, and be it the former connection
\* of a peer that has registered again.
Mistake(a, e) ==
  LET old == EntryOf(table) IN
  CASE 1 \notin Present(table) -> {}
    [] e.action = "FILE_DELETED" /\ (\E b \in old.peers \ {a} : b[1] = a[1]) -> {"older"}
    [] e.action \in {"FILE_CREATED", "FILE_MODIFIED"} /\ e.file.mtime < old.mtime -> {"older"}
    [] OTHER -> {}

\* A change is heard of when its event is merged, and whatever a peer has when it
\* registers.
Hear(p, n) == heard' = [heard EXCEPT ![p] = IF n > @ THEN n ELSE @]

HandleRegister(a) ==
  /\ up[a] # <<>> /\ Head(up[a]).type = "REGISTER"
  /\ LET events == FileDiff(table, Head(up[a]).items)
     IN IF events = <<>> THEN UNCHANGED table ELSE table' \in Applied(table, Head(events), a)
  /\ Hear(a[1], Head(up[a]).n)
  /\ up' = [up EXCEPT ![a] = Tail(@)]
  /\ listed' = IF a = Address(a[1]) THEN listed \cup {a[1]} ELSE listed
  /\ Broadcast(listed')
  /\ UNCHANGED <<disks, port, main, job, deaf, harm>>

HandleUpdate(a) ==
  /\ up[a] # <<>> /\ Head(up[a]).type = "FILE_UPDATE"
  /\ LET e == Head(up[a]).items[1]
     IN /\ table' \in Applied(table, e, a)
        /\ harm' = harm \cup Mistake(a, e)
  /\ Hear(a[1], Head(up[a]).n)
  /\ up' = [up EXCEPT ![a] = Tail(@)]
  /\ Broadcast({p \in listed : Address(p) # a})
  /\ UNCHANGED <<disks, port, listed, main, job, deaf>>

HandleEof(a) ==
  /\ up[a] # <<>> /\ Head(up[a]).type = "EOF"
  /\ table' = RemovePeerAll(table, a)
  /\ up' = [up EXCEPT ![a] = Tail(@)]
  /\ UNCHANGED <<disks, down, port, listed, heard, main, job, deaf, harm>>
-----------------------------------------------------------------------------
(***************************************************************************)
(* The main thread of p.                                                   *)
(***************************************************************************)
\* The user of p has changed the file since what the table knew.
News(p, h) == h < made[p]

\* Mutant of WorthDownloading: the comparison of times the wrong way round.
WorthDownloadingOlder(p, e) ==
  Address(p) \notin e.peers /\ (disk[p].mtime > e.mtime \/ disk[p].size # e.size)

\* The modification times are off or the size is off.
Off(c, e) == c.mtime < e.mtime \/ c.size # e.size

WorthDownloading(p, e) == Address(p) \notin e.peers /\ Off(disk[p], e)

\* The download under way is one of another version.
Missed(p, e) == e # NoEntry /\ job[p].phase = "fetch" /\ Stamp(job[p].entry) # Stamp(e)

\* update_from_filetable: the scan and the verdict.  Nothing is to be done for a table
\* whose version looks like the placeholder of the download of another: it is missed.
TakeTable(p) ==
  /\ main[p].pc = "idle" /\ down[p] # <<>>
  /\ down' = [down EXCEPT ![p] = Tail(@)]
  /\ LET m == Head(down[p])
         verdict == CASE disk[p] = NoCopy /\ m.entry # NoEntry -> "get"
                      [] disk[p] # NoCopy /\ m.entry = NoEntry -> "drop"
                      [] disk[p] # NoCopy /\ m.entry # NoEntry /\ WorthDownloading(p, m.entry) -> "get"
                      [] OTHER -> "idle"
     IN /\ main' = [main EXCEPT ![p] =
                      IF verdict = "idle" THEN Idle
                      ELSE [pc |-> verdict, entry |-> m.entry, heard |-> m.heard]]
        /\ harm' = IF verdict = "idle" /\ Missed(p, m.entry) THEN harm \cup {"skipped"} ELSE harm
  /\ UNCHANGED <<disks, up, port, listed, tracker, job, deaf>>

\* delete_file unlinks whatever has the name by now.  It does not stop a download,
\* which will write the file again.
Drop(p) ==
  /\ main[p].pc = "drop"
  /\ disk' = [disk EXCEPT ![p] = NoCopy]
  /\ harm' = harm \cup (IF disk[p] # NoCopy /\ News(p, main[p].heard) THEN {"deleted"} ELSE {})
                   \cup (IF job[p].phase = "fetch" THEN {"revived"} ELSE {})
  /\ main' = [main EXCEPT ![p] = [Idle EXCEPT !.pc = "show"]]
  /\ UNCHANGED <<raw, made, last, writes, acts, overlap, clock, network, tracker, job, deaf>>

Show(p) ==
  /\ main[p].pc = "show"
  /\ main' = [main EXCEPT ![p] = Idle]
  /\ UNCHANGED <<disks, network, tracker, job, deaf, harm>>

\* download_file of a path that is being downloaded does nothing.  That is right
\* when the copy is that version, or the download will make it so.
Coming(p, e) == IF job[p].phase = "fetch" THEN ~Missed(p, e) ELSE SameBytes(disk[p], e)

Skip(p) ==
  /\ main[p].pc = "get" /\ Marked(p)
  /\ main' = [main EXCEPT ![p] = Idle]
  /\ harm' = IF Coming(p, main[p].entry) THEN harm ELSE harm \cup {"skipped"}
  /\ UNCHANGED <<disks, network, tracker, job, deaf>>

Report(p, e) ==
  Send(Address(p), Message("FILE_UPDATE", <<[action |-> "DOWNLOAD_COMPLETE", file |-> Info(e)]>>, 0))

Overwrites(p, h) == IF News(p, h) THEN {"overwritten"} ELSE {}

\* The verdict of TakeTable is old: the download it found under way is complete.
Begins(p, e) == IF Off(disk[p], e) THEN {} ELSE {"again"}

\* Mutant of Place: the main thread waits for every download.
PlaceBlocking(p, t) ==
  /\ main[p].pc = "get" /\ ~Marked(p)
  /\ InSecond(t)
  /\ LET e == main[p].entry IN
       /\ disk' = [disk EXCEPT ![p] = [mtime |-> t, size |-> 0, version |-> 0]]
       /\ job' = [job EXCEPT ![p] = [phase |-> IF e.size = 0 THEN "wait" ELSE "fetch",
                                     entry |-> e, heard |-> main[p].heard]]
       /\ main' = [main EXCEPT ![p] = [Idle EXCEPT !.pc = "wait"]]
       /\ IF e.size = 0 THEN Report(p, e) ELSE UNCHANGED up
       /\ harm' = harm \cup Overwrites(p, main[p].heard) \cup Begins(p, e)
  /\ UNCHANGED <<raw, made, last, writes, acts, overlap, wrote, down, port, listed, tracker, deaf>>

\* download_file: the placeholder.  A file of 0 bytes is complete at once, and the
\* main thread itself waits before it removes the mark.
Place(p, t) ==
  /\ main[p].pc = "get" /\ ~Marked(p)
  /\ InSecond(t)
  /\ LET e == main[p].entry
         empty == e.size = 0
     IN /\ disk' = [disk EXCEPT ![p] = [mtime |-> t, size |-> 0, version |-> 0]]
        /\ job' = [job EXCEPT ![p] = [phase |-> IF empty THEN "wait" ELSE "fetch",
                                      entry |-> e, heard |-> main[p].heard]]
        /\ main' = [main EXCEPT ![p] = IF empty THEN [Idle EXCEPT !.pc = "wait"] ELSE Idle]
        /\ IF empty THEN Report(p, e) ELSE UNCHANGED up
        /\ harm' = harm \cup Overwrites(p, main[p].heard) \cup Begins(p, e)
  /\ UNCHANGED <<raw, made, last, writes, acts, overlap, wrote, down, port, listed, tracker, deaf>>
-----------------------------------------------------------------------------
(***************************************************************************)
(* The download of p.                                                      *)
(***************************************************************************)
Reachable(e) == {q \in Peers : Address(q) \in e.peers}

\* A holder that has gone, or has started again on another port.
Unreachable(e) == {b \in e.peers : b # Address(b[1])}

\* With a holder that has a file of that size its bytes arrive; of another size,
\* bytes nobody wrote.  The user may have removed the name from the open file.
Fetch(p, q) ==
  /\ job[p].phase = "fetch"
  /\ LET e == job[p].entry
         version == IF disk[q].size = e.size THEN disk[q].version ELSE 0
     IN /\ q \in Reachable(e) /\ q \notin deaf /\ disk[q] # NoCopy
        /\ \/ disk' = [disk EXCEPT ![p] = [mtime |-> e.mtime, size |-> e.size, version |-> version]]
           \/ disk[p] = NoCopy /\ UNCHANGED disk
        /\ harm' = harm \cup Overwrites(p, job[p].heard)
                        \cup (IF Versions(e) = {version} THEN {} ELSE {"mixed"})
        /\ Report(p, e)
  /\ job' = [job EXCEPT ![p].phase = "wait"]
  /\ UNCHANGED <<raw, made, last, writes, acts, overlap, clock, down, port, listed, tracker, main, deaf>>

\* send_file does not find the file, and ends with fileMutex taken.
Hang(p, q) ==
  /\ job[p].phase = "fetch"
  /\ q \in Reachable(job[p].entry) /\ (q \in deaf \/ disk[q] = NoCopy)
  /\ deaf' = deaf \cup {q}
  /\ job' = [job EXCEPT ![p].phase = "hung"]
  /\ harm' = harm \cup {"unheld"}
  /\ UNCHANGED <<disks, network, tracker, main>>

\* A thread for a holder that cannot be reached finds no slot, or asks on whatever its
\* socket is: it may bring bytes nobody wrote ...
Spoil(p) ==
  /\ job[p].phase = "fetch"
  /\ LET e == job[p].entry
     IN /\ Unreachable(e) # {}
        /\ \/ disk' = [disk EXCEPT ![p] = [mtime |-> e.mtime, size |-> e.size, version |-> 0]]
           \/ disk[p] = NoCopy /\ UNCHANGED disk
        /\ harm' = harm \cup Overwrites(p, job[p].heard) \cup {"mixed"}
        /\ Report(p, e)
  /\ job' = [job EXCEPT ![p].phase = "wait"]
  /\ UNCHANGED <<raw, made, last, writes, acts, overlap, clock, down, port, listed, tracker, main,
                 deaf>>

\* ... or mark a segment as there that never comes: the saver waits for ever, as it
\* does when no holder can be reached at all.
Strand(p) ==
  /\ job[p].phase = "fetch"
  /\ Unreachable(job[p].entry) # {} \/ Reachable(job[p].entry) = {}
  /\ job' = [job EXCEPT ![p].phase = "hung"]
  /\ harm' = harm \cup {"unheld"}
  /\ UNCHANGED <<disks, network, tracker, main, deaf>>

\* Mutant of Resume: the main thread is not woken.
ResumeKeepingMain(p) ==
  /\ job[p].phase = "wait"
  /\ job' = [job EXCEPT ![p] = NoJob]
  /\ UNCHANGED <<main, disks, network, tracker, deaf, harm>>

\* download_complete_callback after WAIT_TIME.
Resume(p) ==
  /\ job[p].phase = "wait"
  /\ job' = [job EXCEPT ![p] = NoJob]
  /\ main' = IF main[p].pc = "wait" THEN [main EXCEPT ![p] = Idle] ELSE main
  /\ UNCHANGED <<disks, network, tracker, deaf, harm>>
-----------------------------------------------------------------------------
\* p stops, wherever it is, and starts again: its old connection ends, and on a new
\* one it registers what it finds on disk.
Restart(p) ==
  /\ p \in Restarting /\ port[p] < MaxStarts
  /\ Act
  /\ port' = [port EXCEPT ![p] = @ + 1]
  /\ LET files == IF disk[p] = NoCopy THEN <<>> ELSE <<Info(disk[p])>>
     IN up' = [up EXCEPT ![Address(p)] = Append(@, Message("EOF", <<>>, 0)),
                         ![<<p, port[p] + 1>>] = <<Message("REGISTER", files, made[p])>>]
  /\ down' = [down EXCEPT ![p] = <<>>]
  /\ listed' = listed \ {p}
  /\ raw' = [raw EXCEPT ![p] = <<>>]
  /\ main' = [main EXCEPT ![p] = Idle]
  /\ job' = [job EXCEPT ![p] = NoJob]
  /\ deaf' = deaf \ {p}
  /\ overlap' = (overlap \/ ~Quiet)
  /\ UNCHANGED <<disk, made, last, writes, clock, tracker, harm>>

User == \E p \in Peers : UserDeletes(p) \/ \E size \in Sizes, t \in Times : UserWrites(p, size, t)
Handle(a) == HandleRegister(a) \/ HandleUpdate(a) \/ HandleEof(a)
MainThread(p) == TakeTable(p) \/ Drop(p) \/ Show(p) \/ Skip(p) \/ \E t \in Times : Place(p, t)
Download(p) == Spoil(p) \/ Strand(p) \/ Resume(p) \/ \E q \in Peers : Fetch(p, q) \/ Hang(p, q)

Next ==
  \/ User
  \/ \E a \in Addrs : Handle(a)
  \/ \E p \in Peers : Observe(p) \/ MainThread(p) \/ Download(p) \/ Restart(p)

Spec == Init /\ [][Next]_vars

\* Every thread runs; users and restarts come as they like.
FairSpec ==
  /\ Spec
  /\ \A a \in Addrs : WF_vars(Handle(a))
  /\ \A p \in Peers : WF_vars(Observe(p)) /\ WF_vars(MainThread(p)) /\ WF_vars(Download(p))
-----------------------------------------------------------------------------
Agree ==
  \A p \in Peers : IF 1 \in Present(table)
                   THEN SameBytes(disk[p], EntryOf(table))
                   ELSE disk[p] = NoCopy

(***************************************************************************)
(* Users who take turns, each waiting until the others have the last       *)
(* change, never lose anything: no step of the code does any harm, and     *)
(* what everybody ends up with is the last change, also when peers stop    *)
(* and start in between.  Except that with more than three peers the       *)
(* placeholder of a download begun again may be sent as the file, and that *)
(* a turn may be over within one second: if the next one then writes as    *)
(* many bytes, nobody fetches them.                                        *)
(***************************************************************************)
TurnsAreSafe ==
  \/ overlap \/ harm \cap {"again", "alike"} # {}
  \/ /\ harm = {}
     /\ Quiet => Agree /\ \A p \in Peers : disk[p].size > 0 => disk[p].version = last

(***************************************************************************)
(* "we only download when ... 2. the modification times are off or the     *)
(* size is off" (peer.c:354): never over a copy that is up to date, when   *)
(* users take turns.                                                       *)
(***************************************************************************)
OnlyWhenOff == overlap \/ "again" \notin harm

(***************************************************************************)
(* Whatever overlaps, when nothing is on its way any more all peers have   *)
(* the file of the table, unless one of the nine harms was done.  (After  *)
(* a restart that file may be the placeholder of an unfinished download.)  *)
(***************************************************************************)
Converged == Quiet /\ Unharmed => Agree

(***************************************************************************)
(* Whatever goes on elsewhere, a holder named by the table that can be     *)
(* reached and has no table or download of its own before it has the bytes *)
(* of the version described, or its user has changed the file and the      *)
(* tracker will hear of it; unless harm was done.  (In between it can have *)
(* begun a download anew, or carried out the deletion of an older table.)  *)
(***************************************************************************)
AtWork(q) == down[q] # <<>> \/ main[q].pc # "idle" \/ job[q].phase \in {"fetch", "wait"}

HoldersHold ==
  Unharmed =>
    \A q \in Reachable(EntryOf(table)) :
      SameBytes(disk[q], EntryOf(table)) \/ AtWork(q) \/ News(q, heard[q])

(***************************************************************************)
(* The exchange of updates and tables comes to an end: once the users      *)
(* leave the file alone, peers do not go on downloading from each other.   *)
(***************************************************************************)
Settles == <>[]Quiet
==============================================================================
