------------------------------- MODULE Monitor -------------------------------
(***************************************************************************)
(* How a peer tells its user's changes from its own                        *)
(* (src/monitor/monitor.c, fileset.c, fileobserver.c and the threads of    *)
(* src/peer/peer.c that use them).                                         *)
(*                                                                         *)
(* A change to the directory travels: kernel queue (kq), one read of it    *)
(* (batch), the list fileobserver_get_events builds back to front (list),  *)
(* the filter of monitor_thread, the event queue, one FILE_UPDATE, the     *)
(* tracker.  The main thread and the savers of downloads mark a path,      *)
(* change it, wait WAIT_TIME and remove the mark; the filter drops the     *)
(* events of marked paths.                                                 *)
(*                                                                         *)
(* Files carry the number of the user's change that wrote them, which      *)
(* stands for what stat returns.                                           *)
(***************************************************************************)
EXTENDS Integers, Sequences, FiniteSets

CONSTANTS Root,       \* the directory that is watched
          Dirs,       \* the paths below it that are directories
          Files,      \* and those that are files
          Parent,     \* Parent[p]: the directory of p
          Prompt,     \* whether WAIT_TIME outlasts what the observer has to read
          MaxUser,    \* bound: changes by the user
          MaxOrders   \* bound: downloads and deletions that updates order

Paths == Dirs \cup Files

ASSUME PathsAssumption ==
  /\ Dirs \cap Files = {}
  /\ Root \notin Paths
  /\ Parent \in [Paths -> Dirs \cup {Root}]
ASSUME BoundsAssumption == Prompt \in BOOLEAN /\ MaxUser \in Nat /\ MaxOrders \in Nat

VARIABLES
  disk,         \* disk[p]: Absent, or the version that is there
  watched,      \* the directories inotify watches, beside Root
  kq,           \* what the kernel has queued
  batch,        \* the rest of what one read returned
  list,         \* the FileEvents made of it, or what is left to filter
  obs,          \* monitor_thread: "convert" (read included), "filter"
  ignoreModify, \* ignoreModify[p]: how often p is in m->ignore_modify
  ignoreDelete, \* and in m->ignore_delete
  queue,        \* m->event_queue
  sending,      \* the events read_monitor_thread has taken
  told,         \* told[p]: what the tracker last heard of p from this peer
  main,         \* the main thread: where it is, and the path it is at
  todo,         \* what update_from_filetable has still to do
  job,          \* job[p]: how many savers of p have got how far
  changes, orders, \* how many changes and orders so far
  byUser,       \* history: the paths the user changed last
  lost,         \* history: the paths of which an event was missed, filtered or overtaken
  early,        \* history: the paths with events of this batch that have been taken
  stuck,        \* history: the paths whose mark nobody will remove
  torn,         \* history: a mark was freed while download_file was reading the set
  crashed       \* whether the process has ended

tree == <<disk, watched, kq, byUser>>
observer == <<batch, list, obs, queue, early>>
marks == <<ignoreModify, ignoreDelete, stuck, torn>>
peer == <<main, todo, job, orders, crashed>>
vars == <<tree, observer, marks, peer, sending, told, changes, lost>>

Absent == 0
Fetched == 1     \* a version that came from another peer, and every directory
Versions == 0..(MaxUser + 1)

Kinds == {"CREATED", "MODIFIED", "DELETED"}
Authors == {"user", "peer", "stray"}   \* stray: the parent mkdir makes, unmarked
KernelEvents == [kind : Kinds, path : Paths, by : Authors]
Orders == {"get", "drop", "add"} \X Paths
Savings == [placed : Nat, open : Nat, detached : Nat, written : Nat]

TypeOK ==
  /\ disk \in [Paths -> Versions] /\ told \in [Paths -> Versions]
  /\ watched \subseteq Dirs
  /\ kq \in Seq(KernelEvents) /\ batch \in Seq(KernelEvents)
  /\ \A s \in {list, queue, sending} : \A i \in DOMAIN s :
       /\ s[i].kind \in Kinds /\ s[i].path \in Paths /\ s[i].by \in Authors
       /\ s[i].version \in Versions
       /\ s[i].kind = "DELETED" <=> s[i].version = Absent
  /\ obs \in {"convert", "filter"}
  /\ ignoreModify \in [Paths -> Nat] /\ ignoreDelete \in [Paths -> Nat]
  /\ main.pc \in {"idle", "walk", "mark", "make", "resume", "hide", "unlink", "show"}
  /\ main.path \in Paths
  /\ todo \subseteq Orders
  /\ job \in [Paths -> Savings]
  /\ changes \in 0..MaxUser /\ orders \in 0..MaxOrders
  /\ byUser \subseteq Paths /\ lost \subseteq Paths
  /\ early \subseteq Paths /\ stuck \subseteq Paths
  /\ torn \in BOOLEAN /\ crashed \in BOOLEAN

Exists(p) == IF p = Root THEN TRUE ELSE disk[p] # Absent

\* The peer has registered what it has, and nothing is on its way.  main.path is
\* only read after it has been set.
Init ==
  /\ disk \in {d \in [Paths -> {Absent, Fetched}] :
                 \A p \in Paths : d[p] # Absent => Parent[p] = Root \/ d[Parent[p]] # Absent}
  /\ watched = {d \in Dirs : disk[d] # Absent}
  /\ kq = <<>> /\ batch = <<>> /\ list = <<>> /\ queue = <<>> /\ sending = <<>>
  /\ obs = "convert"
  /\ ignoreModify = [p \in Paths |-> 0] /\ ignoreDelete = [p \in Paths |-> 0]
  /\ told = disk
  /\ main = [pc |-> "idle", path |-> CHOOSE p \in Paths : TRUE]
  /\ todo = {}
  /\ job = [p \in Paths |-> [placed |-> 0, open |-> 0, detached |-> 0, written |-> 0]]
  /\ changes = 0 /\ orders = 0
  /\ byUser = {} /\ lost = {} /\ early = {} /\ stuck = {}
  /\ torn = FALSE /\ crashed = FALSE
-----------------------------------------------------------------------------
(***************************************************************************)
(* The directory.  The kernel queues an event when the directory the path  *)
(* is in is watched, and merges it with the last one when they are alike.  *)
(***************************************************************************)
Watching(p) == Parent[p] \in watched \cup {Root}

Queued(kind, p, by) ==
  LET n == Len(kq)
      alike == n > 0 /\ kq[n].kind = kind /\ kq[n].path = p
      author == IF alike /\ kq[n].by = "user" THEN "user" ELSE by
  IN Append(IF alike THEN SubSeq(kq, 1, n - 1) ELSE kq,
            [kind |-> kind, path |-> p, by |-> author])

Change(kind, p, version, by) ==
  /\ disk' = [disk EXCEPT ![p] = version]
  /\ kq' = IF Watching(p) THEN Queued(kind, p, by) ELSE kq
  /\ watched' = IF kind = "DELETED" THEN watched \ {p} ELSE watched
  /\ byUser' = IF by = "user" THEN byUser \cup {p} ELSE byUser \ {p}
  /\ lost' = IF by = "user" /\ ~Watching(p) THEN lost \cup {p} ELSE lost

\* What opening p for writing does to a directory entry.
Overwritten(p) == IF Exists(p) THEN "MODIFIED" ELSE "CREATED"

Saving(p, savers) == job' = [job EXCEPT ![p] = savers]

\* A file that is removed stays open in the savers that write it.
Detach(p) == Saving(p, [job[p] EXCEPT !.open = 0, !.detached = @ + job[p].open])

UserWrites(p) ==
  /\ changes < MaxUser
  /\ changes' = changes + 1
  /\ Exists(Parent[p])
  /\ p \in Dirs => ~Exists(p)
  /\ Change(Overwritten(p), p, IF p \in Dirs THEN Fetched ELSE changes + 2, "user")
  /\ UNCHANGED <<observer, marks, peer, sending, told>>

Empty(p) == \A q \in Paths : Parent[q] = p => ~Exists(q)

UserDeletes(p) ==
  /\ changes < MaxUser
  /\ changes' = changes + 1
  /\ Exists(p) /\ Empty(p)
  /\ Change("DELETED", p, Absent, "user")
  /\ Detach(p)
  /\ UNCHANGED <<observer, marks, main, todo, orders, crashed, sending, told>>
-----------------------------------------------------------------------------
(***************************************************************************)
(* monitor_thread.                                                         *)
(***************************************************************************)
Read ==
  /\ obs = "convert" /\ batch = <<>> /\ list = <<>>
  /\ kq # <<>>
  /\ batch' = kq
  /\ kq' = <<>>
  /\ UNCHANGED <<disk, watched, byUser, list, obs, queue, early, marks, peer,
                 sending, told, changes, lost>>

\* Mutant of InotifyToFileevent: stat of deleted files too.
InotifyToFileeventStat(e) ==
  [kind |-> e.kind, path |-> e.path, by |-> e.by, new |-> TRUE, version |-> disk[e.path]]

InotifyToFileevent(e) ==
  [kind |-> e.kind, path |-> e.path, by |-> e.by, new |-> TRUE,
   version |-> IF e.kind = "DELETED" THEN Absent ELSE disk[e.path]]

\* stat fails, and the event is skipped.
Vanished(e) == e.kind # "DELETED" /\ ~Exists(e.path)

\* Mutant of Convert: the list is built front to back.
ConvertForward ==
  /\ obs = "convert" /\ batch # <<>>
  /\ LET e == Head(batch) IN
       /\ list' = IF Vanished(e) THEN list ELSE Append(list, InotifyToFileevent(e))
       /\ watched' = IF ~Vanished(e) /\ e.kind = "CREATED" /\ e.path \in Dirs
                     THEN watched \cup {e.path} ELSE watched
  /\ batch' = Tail(batch)
  /\ obs' = IF Len(batch) = 1 THEN "filter" ELSE "convert"
  /\ UNCHANGED <<disk, kq, byUser, queue, early, marks, peer, sending, told, changes, lost>>

\* One event goes to the head of the list.  A new directory is watched from here on.
Convert ==
  /\ obs = "convert" /\ batch # <<>>
  /\ LET e == Head(batch) IN
       /\ list' = IF Vanished(e) THEN list ELSE <<InotifyToFileevent(e)>> \o list
       /\ watched' = IF ~Vanished(e) /\ e.kind = "CREATED" /\ e.path \in Dirs
                     THEN watched \cup {e.path} ELSE watched
  /\ batch' = Tail(batch)
  /\ obs' = IF Len(batch) = 1 THEN "filter" ELSE "convert"
  /\ UNCHANGED <<disk, kq, byUser, queue, early, marks, peer, sending, told, changes, lost>>

(***************************************************************************)
(* A FileSet holds a path as often as it was inserted.                     *)
(***************************************************************************)
Contains(set, p) == set[p] > 0
Inserted(set, p) == [set EXCEPT ![p] = @ + 1]
Removed(set, p) == IF Contains(set, p) THEN [set EXCEPT ![p] = @ - 1] ELSE set

\* Mutant of Ignored: deletions are looked up in the other set.
IgnoredModify(e) == Contains(ignoreModify, e.path)

Ignored(e) ==
  Contains(IF e.kind = "DELETED" THEN ignoreDelete ELSE ignoreModify, e.path)

\* An event is overtaken when events of its path from two reads end up in one
\* FILE_UPDATE, or those of one read in two: the list is back to front, and the
\* tracker reverses a whole FILE_UPDATE.
Overtaken(p) ==
  \/ p \in early
  \/ \E i \in DOMAIN queue : queue[i].path = p /\ ~queue[i].new

Filter ==
  /\ obs = "filter" /\ list # <<>>
  /\ LET e == Head(list) IN
       IF Ignored(e)
       THEN /\ lost' = IF e.by = "user" THEN lost \cup {e.path} ELSE lost
            /\ UNCHANGED queue
       ELSE /\ lost' = IF Overtaken(e.path) THEN lost \cup {e.path} ELSE lost
            /\ queue' = Append(queue, e)
  /\ list' = Tail(list)
  /\ UNCHANGED <<tree, batch, obs, early, marks, peer, sending, told, changes>>

FilterDone ==
  /\ obs = "filter" /\ list = <<>>
  /\ obs' = "convert"
  /\ queue' = [i \in DOMAIN queue |-> [queue[i] EXCEPT !.new = FALSE]]
  /\ early' = {}
  /\ UNCHANGED <<tree, batch, list, marks, peer, sending, told, changes, lost>>
-----------------------------------------------------------------------------
(***************************************************************************)
(* read_monitor_thread.                                                    *)
(***************************************************************************)
TakeEvents ==
  /\ sending = <<>> /\ queue # <<>>
  /\ sending' = queue
  /\ queue' = <<>>
  /\ early' = early \cup {queue[i].path : i \in {j \in DOMAIN queue : queue[j].new}}
  /\ UNCHANGED <<tree, batch, list, obs, marks, peer, told, changes, lost>>

\* Where s has the first event of a path.
Firsts(s) == {i \in DOMAIN s : \A j \in 1..(i - 1) : s[j].path # s[i].path}

\* The tracker applies the events last to first, so that the first of a path stays.
SendEvents ==
  /\ sending # <<>>
  /\ told' = [p \in Paths |->
                LET first == {i \in Firsts(sending) : sending[i].path = p}
                IN IF first = {} THEN told[p] ELSE sending[CHOOSE i \in first : TRUE].version]
  /\ sending' = <<>>
  /\ UNCHANGED <<tree, observer, marks, peer, changes, lost>>
-----------------------------------------------------------------------------
(***************************************************************************)
(* The main thread.  It handles a TABLE_UPDATE path by path: of those on   *)
(* disk when it comes the table decides which to download and which to     *)
(* delete, then it downloads others of the table.  monitor_ignore_* and    *)
(* monitor_resume_* wait for the locks the filter holds.                   *)
(***************************************************************************)
Unlocked == obs # "filter"

UpdateFromFiletable ==
  /\ main.pc = "idle" /\ todo = {}
  /\ \E table \in SUBSET Paths : \E current \in SUBSET table :
       LET here == {p \in Paths : Exists(p)}
       IN todo' = ({"get"} \X ((table \ current) \cap here)) \cup ({"drop"} \X (here \ table))
                  \cup ({"add"} \X ((table \ current) \ here))
  /\ Cardinality(todo') \in 1..(MaxOrders - orders)
  /\ orders' = orders + Cardinality(todo')
  /\ UNCHANGED <<tree, observer, marks, main, job, crashed, sending, told, changes, lost>>

Turn(order, p) ==
  /\ main.pc = "idle"
  /\ <<order, p>> \in todo
  /\ todo' = todo \ {<<order, p>>}
  /\ UNCHANGED <<tree, observer, marks, job, orders, crashed, sending, told, changes, lost>>

DownloadFile(p) ==
  /\ Turn("get", p) \/ (Turn("add", p) /\ \A o \in todo : o[1] = "add")
  /\ main' = [pc |-> "walk", path |-> p]

DeleteFile(p) == Turn("drop", p) /\ main' = [pc |-> "hide", path |-> p]

Goto(pc) == main' = [main EXCEPT !.pc = pc]

\* Mutant of Walked: the set is not looked at.
WalkedUnread ==
  /\ main.pc = "walk"
  /\ Goto("mark")
  /\ UNCHANGED <<tree, observer, marks, todo, job, orders, crashed, sending, told, changes, lost>>

\* download_file reads the set without its lock: what it finds is anybody's guess
\* once a mark has been freed under it.
Walked ==
  /\ main.pc = "walk"
  /\ \E found \in BOOLEAN :
       /\ torn \/ found = Contains(ignoreModify, main.path)
       /\ Goto(IF found THEN "idle" ELSE "mark")
  /\ UNCHANGED <<tree, observer, marks, todo, job, orders, crashed, sending, told, changes, lost>>

IgnoreModify ==
  /\ main.pc = "mark" /\ Unlocked
  /\ ignoreModify' = Inserted(ignoreModify, main.path)
  /\ Goto("make")
  /\ UNCHANGED <<tree, observer, ignoreDelete, stuck, torn, todo, job, orders,
                 crashed, sending, told, changes, lost>>

\* mkdir of a directory of the table: when it fails the mark stays.
MakeDir ==
  /\ main.pc = "make" /\ main.path \in Dirs
  /\ IF ~Exists(main.path) /\ Exists(Parent[main.path])
     THEN /\ Change("CREATED", main.path, Fetched, "peer")
          /\ Goto("resume")
          /\ UNCHANGED stuck
     ELSE /\ stuck' = stuck \cup {main.path}
          /\ Goto("idle")
          /\ UNCHANGED <<tree, lost>>
  /\ UNCHANGED <<observer, ignoreModify, ignoreDelete, torn, todo, job, orders,
                 crashed, sending, told, changes>>

\* The placeholder.  A download of 0 bytes is complete at once.
MakeFile ==
  /\ main.pc = "make" /\ main.path \in Files /\ Exists(Parent[main.path])
  /\ Change(Overwritten(main.path), main.path, Fetched, "peer")
  /\ \/ Goto("resume") /\ UNCHANGED job
     \/ Goto("idle") /\ Saving(main.path, [job[main.path] EXCEPT !.placed = @ + 1])
  /\ UNCHANGED <<observer, marks, todo, orders, crashed, sending, told, changes>>

\* Without its directory the placeholder cannot be made: the directory is, without
\* a mark, and the file is given up with its own mark in the set.
MakeParent ==
  /\ main.pc = "make" /\ main.path \in Files /\ ~Exists(Parent[main.path])
  /\ IF Exists(Parent[Parent[main.path]])
     THEN Change("CREATED", Parent[main.path], Fetched, "stray")
     ELSE UNCHANGED <<tree, lost>>
  /\ stuck' = stuck \cup {main.path}
  /\ Goto("idle")
  /\ UNCHANGED <<observer, ignoreModify, ignoreDelete, torn, todo, job, orders,
                 crashed, sending, told, changes>>

\* WAIT_TIME is over: with Prompt, the observer has read what the peer did to p.
Flushed(p) ==
  Prompt => \A s \in {kq, batch, list} : \A i \in DOMAIN s :
              ~(s[i].path = p /\ s[i].by = "peer")

\* download_complete_callback in the main thread, after mkdir or an empty file.
ResumeModify ==
  /\ main.pc = "resume" /\ Unlocked /\ Flushed(main.path)
  /\ ignoreModify' = Removed(ignoreModify, main.path)
  /\ Goto("idle")
  /\ UNCHANGED <<tree, observer, ignoreDelete, stuck, torn, todo, job, orders,
                 crashed, sending, told, changes, lost>>

IgnoreDelete ==
  /\ main.pc = "hide" /\ Unlocked
  /\ ignoreDelete' = Inserted(ignoreDelete, main.path)
  /\ Goto("unlink")
  /\ UNCHANGED <<tree, observer, ignoreModify, stuck, torn, todo, job, orders,
                 crashed, sending, told, changes, lost>>

\* remove_dir only calls rmdir: delete_recursive deletes nothing.
Unlink ==
  /\ main.pc = "unlink"
  /\ IF Exists(main.path) /\ Empty(main.path)
     THEN /\ Change("DELETED", main.path, Absent, "peer")
          /\ Detach(main.path)
     ELSE UNCHANGED <<tree, lost, job>>
  /\ Goto("show")
  /\ UNCHANGED <<observer, marks, todo, orders, crashed, sending, told, changes>>

ResumeDelete ==
  /\ main.pc = "show" /\ Unlocked /\ Flushed(main.path)
  /\ ignoreDelete' = Removed(ignoreDelete, main.path)
  /\ Goto("idle")
  /\ UNCHANGED <<tree, observer, ignoreModify, stuck, torn, todo, job, orders,
                 crashed, sending, told, changes, lost>>
-----------------------------------------------------------------------------
(***************************************************************************)
(* The saver of a download, which may never get as far.  A path has two    *)
(* when download_file has missed a mark.                                   *)
(***************************************************************************)
SaverOpens(p) ==
  /\ job[p].placed > 0 /\ Exists(Parent[p])
  /\ Change(Overwritten(p), p, Fetched, "peer")
  /\ Saving(p, [job[p] EXCEPT !.placed = @ - 1, !.open = @ + 1])
  /\ UNCHANGED <<observer, marks, main, todo, orders, crashed, sending, told, changes>>

\* fopen fails in a directory that is gone, and fseek(NULL) ends the process.
SaverCrashes(p) ==
  /\ job[p].placed > 0 /\ ~Exists(Parent[p])
  /\ crashed' = TRUE
  /\ UNCHANGED <<tree, observer, marks, main, todo, job, orders, sending, told, changes, lost>>

SaverWrites(p) ==
  /\ \/ /\ job[p].open > 0
        /\ Change("MODIFIED", p, Fetched, "peer")
        /\ Saving(p, [job[p] EXCEPT !.open = @ - 1, !.written = @ + 1])
     \/ /\ job[p].detached > 0
        /\ Saving(p, [job[p] EXCEPT !.detached = @ - 1, !.written = @ + 1])
        /\ UNCHANGED <<tree, lost>>
  /\ UNCHANGED <<observer, marks, main, todo, orders, crashed, sending, told, changes>>

\* download_complete_callback in the saver.
SaverResumes(p) ==
  /\ job[p].written > 0 /\ Unlocked /\ Flushed(p)
  /\ ignoreModify' = Removed(ignoreModify, p)
  /\ torn' = (torn \/ main.pc = "walk")
  /\ Saving(p, [job[p] EXCEPT !.written = @ - 1])
  /\ UNCHANGED <<tree, observer, ignoreDelete, stuck, main, todo, orders,
                 crashed, sending, told, changes, lost>>

User == \E p \in Paths : UserWrites(p) \/ UserDeletes(p)
Observer == Read \/ Convert \/ Filter \/ FilterDone
Reporter == TakeEvents \/ SendEvents
MainThread ==
  \/ UpdateFromFiletable
  \/ \E p \in Paths : DownloadFile(p) \/ DeleteFile(p)
  \/ Walked \/ IgnoreModify \/ MakeDir \/ MakeFile \/ MakeParent \/ ResumeModify
  \/ IgnoreDelete \/ Unlink \/ ResumeDelete
Saver == \E p \in Files : SaverOpens(p) \/ SaverCrashes(p) \/ SaverWrites(p) \/ SaverResumes(p)

Next == ~crashed /\ (User \/ Observer \/ Reporter \/ MainThread \/ Saver)

Spec == Init /\ [][Next]_vars
-----------------------------------------------------------------------------
(***************************************************************************)
(* WAIT_TIME and the ignore sets do what they are for (peer.c:17-18): with *)
(* an observer that keeps up, nothing the peer itself did to a file of the *)
(* table is reported as a change of its user.                              *)
(***************************************************************************)
OwnChangesIgnored ==
  \A s \in {queue, sending} : \A i \in DOMAIN s : s[i].by # "peer"

(***************************************************************************)
(* When no event of a path is on its way and the user was the last to      *)
(* change it, the tracker has been told what is on disk: two reversals     *)
(* (fileobserver.c:182, fileevent.c:92) and stat at the time of reading    *)
(* add up to the right order, except for a path in lost.                   *)
(***************************************************************************)
OnItsWay(p) ==
  \E s \in {kq, batch, list, queue, sending} : \E i \in DOMAIN s : s[i].path = p

LastWord ==
  \A p \in byUser \ lost : OnItsWay(p) \/ told[p] = disk[p]

(***************************************************************************)
(* A path is in ignore_modify once for the download that runs for it, and  *)
(* once more if an earlier one was given up; in ignore_delete while it is  *)
(* being deleted.  Two downloads of a path never run at once.              *)
(***************************************************************************)
Count(b) == IF b THEN 1 ELSE 0
Savers(p) == job[p].placed + job[p].open + job[p].detached + job[p].written

MarksAccounted ==
  torn \/ \A p \in Paths :
    /\ ignoreModify[p] = Savers(p) + Count(p \in stuck)
                         + Count(main.path = p /\ main.pc \in {"make", "resume"})
    /\ ignoreModify[p] <= 1
    /\ ignoreDelete[p] = Count(main.path = p /\ main.pc \in {"unlink", "show"})
==============================================================================
