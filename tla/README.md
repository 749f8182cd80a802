# LocalSync in TLA+

LocalSync keeps one directory the same on every machine of a local network. A
*tracker* holds the table of files; each *peer* watches its directory, reports
changes to the tracker, and downloads what it lacks directly from other peers.
This directory holds a TLA+ model of that program (`src/`), the TLC
configurations that check it on small instances, and TLAPS proofs of theorems
that hold for every instance. `PROJECT.json` lists components, runs, mutants,
hazards and theorems, and says for each definition which source lines it models.

Contents: [inventory](#1-inventory) · [modules](#2-modules) ·
[runs](#3-runs) · [fairness](#4-fairness) · [proofs](#5-proofs) ·
[disagreements with comments](#6-where-code-and-comments-disagree) ·
[what is left out](#7-what-is-not-modelled) · [plan](#8-plan) ·
[how to run](#9-how-to-run)

## 1. Inventory

### Components, their state and their operations

| component | source | state | operations |
|---|---|---|---|
| file table | `filetable/filetable.c` | sorted list of `TableEntry` (path, size, mtime, is_dir, list of `PeerIP`), `numfiles`, `numpeers` per entry, a mutex | insert, updateMod, addPeer, remove, removePeerAll, fileDiff, merge, eventMerge, send, receive |
| tracker | `tracker/tracker.c` | the file table and its lock, the peer table, one handshake thread per connection, the monitor thread | accept, REGISTER, FILE_UPDATE, KEEP_ALIVE, hang-up, broadcast, eviction, reset of the table |
| peer table | `tracker/peertable.c` | list of `Peer` structs, a mutex | add, remove, destroy of one peer (cancel, join, close, free) |
| peer | `peer/peer.c` | own address, connection to the tracker, monitor, `comm_lock` | register, handle TABLE_UPDATE, start a download, delete, report events, heartbeat |
| event queue | `monitor/eventqueue.c` | head, tail, length, mutex, condition | add, get_blocking, remove_all |
| file monitor | `monitor/monitor.c`, `monitor/fileset.c` | `ignore_modify`, `ignore_delete`: locked sets of paths | ignore and unignore a path; filter the observer's events and queue the rest |
| file observer | `monitor/fileobserver.c`, `fileobserver-mac.c` | watch descriptors, `dir_wd[255]` | read inotify or FSEvents and turn them into events |
| download | `upload_download/download.c` | segments and their status, `peers[]` slots, chunk list, counters | download(), one thread per stream and peer, the file saver |
| upload | `upload_download/upload.c` | listening socket, `file_mutex` | accept, serve segments of a file |
| messaging | `messaging/segment.c` | a TCP stream between a peer and the tracker | send and receive REGISTER, REGISTER_ACK, FILE_UPDATE, TABLE_UPDATE, KEEP_ALIVE |
| file info, file event | `monitor/fileinfo.c`, `monitor/fileevent.c` | records and lists of them | allocation, transfer |

### How they interact

* A peer connects, sends `REGISTER` with all its files and waits for
  `REGISTER_ACK`. Its monitor then queues events in the event queue;
  `read_monitor_thread` takes them in batches and sends `FILE_UPDATE`.
* The tracker merges registrations and updates into its table under
  `file_table->lock` and sends the whole table as `TABLE_UPDATE` to the peers in
  the peer table, still under the lock.
* A peer compares a `TABLE_UPDATE` with its directory: newer files are fetched
  with `download()`, files the table lacks are deleted. Paths are put in an ignore
  set meanwhile so that the monitor does not report the peer's own changes.
* `download()` connects to each holder of the file; peer threads fetch segments
  from upload threads at the other end; the saver writes them and calls
  `download_complete_callback`, which sends `DOWNLOAD_COMPLETE` to the tracker and
  frees the table entry.
* Every `INTERVAL` seconds peers send `KEEP_ALIVE` and the tracker's monitor evicts
  the peers it has not heard of: address off the table, struct off the peer table,
  `pthread_cancel`, `pthread_join`, free. With no peer left it replaces the table.

### What is hard, and what makes each component correct

* **File table.** Counts kept beside lists frame the table on the wire; two rules
  for "the same peer" (ip alone, ip and port); comparison with the table first and
  application later; removal of directories by string prefix, with a read of freed
  memory in the loop. *Correct:* counts equal lengths; no holder twice; a
  registration is the union, newest version wins; a deletion stays in its directory.
* **Tracker.** Handshake threads, main and monitor interleave; broadcasts walk the
  peer table without its lock; threads are cancelled wherever they are, in the middle of a
  merge too, with the locks they hold; the table is destroyed with its own lock. *Correct:* operations
  take effect one at a time; of the peers a broadcast walks past one at most is being freed; every
  listed address has someone who will remove it; broadcasts reach everyone; whoever waits gets the lock.
* **Event queue.** One unlock too many. *Correct:* every event is sent once, in
  order; none is forgotten by a lost wakeup.
* **Download and upload.** Slots read while they are filled, one array cell used as socket and then
  as counter, segments given back without a lock, short reads taken for success, a lock kept by a
  thread that ends, a socket variable that may never be assigned. *Correct:* one thread per socket,
  unless it found none; each segment written once; a file reported complete is complete; what a
  request reads is alive; memory is freed by the last thread; the download ends.
* **Peer and tracker together.** Versions known by nothing but a time in whole seconds and a size,
  table updates that cross with local events, versions announced during a download, a restart
  between truncation and completion, a tracker that takes over whatever it hears last. *Correct:*
  users who take turns lose nothing; once all is quiet the peers agree with the table; holders hold
  what the table says; the exchange ends.
* **Monitor and observer.** The peer's own changes are told from its user's by marks that
  are taken away after a fixed time; a mark may be left behind; lists of events are reversed
  twice. *Correct:* own changes are not reported, the user's last change is, every mark is
  accounted for.
* **Messaging.** Nothing but counts says where a message ends; the heartbeat writes to the
  stream without `comm_lock`; a peer may stop in the middle of a message, and a receive of 0
  bytes there is not noticed; a broadcast waits for full buffers with the table's lock held.
  *Correct:* the receiver reads the messages that were sent and never waits for a
  struct nobody sends; a hang-up is noticed; a broadcast ends.
* **Heartbeat.** Eviction after little more than the interval at which heartbeats are sent,
  on a clock of whole seconds. *Correct:* who is evicted was silent for longer than the
  interval, and who is silent is evicted.

The full list of hazards, each at its line and with the properties aimed at it, is
in `PROJECT.json` under `hazards`.

## 2. Modules

| module | what it is |
|---|---|
| `FileTable` | the table as a value; its operations as operators |
| `TableMachine` | abstract specification: operations on the table, one at a time |
| `TableChecks` | `TableMachine` plus a record of how an operation began |
| `MCTable` | constants for TLC: a directory, what is in it, what is beside it |
| `Tracker` | main, handshake and monitor threads, peer table; implements `TableMachine` |
| `MCTracker` | constants for TLC: two or three connections |
| `EventQueue` | the queue between the peer's two threads, one memory access a step |
| `Download` | one file: `download()`, peer threads, saver, upload threads |
| `Messaging` | the stream from a peer to the tracker, struct by struct |
| `Broadcast`, `MCBroadcast` | the streams from the tracker to its peers, struct by struct, with finite buffers |
| `Monitor`, `MCMonitor` | one peer's directory, observer, ignore sets, event queue, main thread and savers |
| `Sync`, `MCSync` | whole peers and the tracker's `FileTable` over one file, with restarts |
| `Heartbeat` | heartbeats and evictions on a clock |
| `FileTableLemmas` | what each table operation preserves |
| `TableMachineProofs`, `TrackerProofs`, `PeerProofs` (of `EventQueue` and `Sync`), `DownloadProofs`, `MessagingProofs`, `ConnectionProofs` (of `Broadcast` and `Heartbeat`), `MonitorProofs` | theorems |

Operators and actions that begin with the words "Mutant of" in their comment are
not part of any specification: each is a plausible mistake in the code, and shows
that the property it is paired with in `PROJECT.json` can be broken.

**`FileTable`.** The sorted list becomes a function from the names present to their entries; names
are numbers in `strcmp` order, so that the order of the list is the order of the numbers.
`Extending[d]` gives the names that have `d` as a proper string prefix, which is all
`filetable_remove` looks at. `numfiles` and `numpeers` stay fields of their own. An entry's holders
are a set of `<<ip, port>>`: the code never looks at their order. `UpdateMod`, `Insert`, `AddPeer`,
`EntryRemovePeer`, `RemovePeerAll`, `RemoveResults`, `FileDiff` are the functions of the same names.
The loop that removes the contents of a directory reads `sub->next` after the entry has been freed;
`RemovedSets` is the set of outcomes an allocator can produce (the pointer survives, or reads as
null and the loop ends early). The loop prints each name before it removes it: `RemovalsCutShort` is
the set of tables that a thread which is cancelled at that `printf` leaves, with some of the
directory gone (`GoneBefore`) and the directories it is inside marked as files (`Unmarked`).
`FileDiff` keeps the reversal of the list; where the code adds no event the model has an event
`NONE`, which changes nothing.

**`TableMachine`** is what the tracker promises: an operation (`Register`, `Update`) fixes its
events against the table it finds and applies them one by one (`ApplyNext`), with no other operation
between; `Leave` removes an address; `Reset` empties the table. An operation may be cut short inside
the removal of a directory (`Abandon`); nothing but `Reset` follows it then, because its thread died
with the lock. `TableChecks` adds `before` and `given` so that a whole registration can be compared
with a direct definition of its result.

**`Tracker`.** One action per stretch of a thread between two lock operations, socket
calls or accesses to shared memory.

| actions | code |
|---|---|
| `Accept`, `PeertableAdd` | `start_peer`: the thread exists before its peer is listed |
| `ReceiveRegister`, `ReceiveKeepAlive`, `ReceiveFileUpdate`, `ReceiveEof` | `recv_message` in `handshake_thread` |
| `Printed` | what was received is printed before the lock is asked for, a cancellation point |
| `TakeLock`, `MergeEvent`, `MergeDone` | `filetable_merge`, `filetable_eventMerge` under the lock |
| `SendRegisterAck`, `BroadcastOne`, `BroadcastNext`, `BroadcastDone` | acknowledgement; `broadcast_table`, which sends to a peer (`tracker.c:145`) and only then reads its `next` (147); unlock |
| `Exit` | end of the thread |
| `Killed`, `KilledMerging` | end by cancellation, at `recv`, `send` or a `printf`; and at the `printf` of `filetable_remove` (`filetable.c:192`), in the middle of a merge |
| `MonitorWake`, `MonitorScan`, `MonitorEvict`, `MonitorUnlink`, `MonitorCancel`, `MonitorJoin` | `monitor_peers_thread`, `peertable_remove`, `peer_destroy` |
| `MonitorListEnd`, `MonitorDestroyTable`, `MonitorNewTable` | reset of the table |
| `HandshakeUndefined`, `MonitorUndefined` | the first access to freed memory |

`ub` is set by an access to freed memory and stops the model: no claim is made about
what follows. There is no clock: at each round of the monitor any set of peers may turn
out to be late, which includes every timing that could occur. The first message on a
connection is `REGISTER`, as the peer program sends it; `first`, `upToDate` and
`audience` are history variables.

**`EventQueue`.** Each field access of `eventqueue_add` and
`eventqueue_get_blocking` is a step, `length++` is a load and a store, and
`pthread_cond_wait` may return without a signal. `eventqueue_remove_all` unlocks, and so does its
caller again; unlocking a default mutex that another thread holds is undefined in POSIX
and opens the lock with the implementations the program is built for; the model takes
that outcome. `stray` is set when it happens.

**`Download`.** Slot `i` of `seqInfos->peers` is stream `i % NumStreams` of peer `i \div
NumStreams`. The array is `calloc`ed, so a slot that is not connected yet reads as descriptor 0,
which a thread may take (`Stdin`). A thread reads a slot (`ClaimSlot`) and marks it (`MarkSlot`) in
two steps, because `download()` writes to slots without `seq_lock` and may connect one between. A
thread that finds no slot (`Stray`) keeps whatever its uninitialised `sock` holds: -1, descriptor 0,
a descriptor that is closed, one that was given to another connection of the process (`Foreign`), or
to a connection of this very download, as happens when the stack is that of an earlier thread and
the kernel gives its number out again. A connection is *crossed* when a thread sends a request on it
while another waits there: what comes then may be the segment, bytes of others or an error
(`ReceiveAstray`), and the upload thread may read a request made of two (`Misread`). Other sections
under `seq_lock` or `queue_mutex` are one step; the test of the `while` loop and the reset of a
failed segment, which take no lock, are steps of their own. `peers[0]` becomes the counter of
finished threads. `link[i]` is what is under way on connection `i`; `Serve` and `ServeMissing` are
the upload thread, which on a missing file ends with `file_mutex` locked. `content[p]` is whether
peer `p` still has the file as the table describes it (`good`), another content, or none. `ub` is
set when `download()` reads the entry after the saver's callback has freed it.

**`Messaging`.** A message is a sequence of structs: header, body with a count, and one struct
for each file or two for each event; `Written` is that sequence, and `stream` what has been sent and
not read. Data are reduced to the number of the file or event and, in a body, the count.

| actions | code |
|---|---|
| `Register`, `Report`, `SendPart` | `send_register`; `send_file_update` under `comm_lock`, one `send` a step |
| `Heartbeat` | `send_keep_alive`, without the lock |
| `Stop` | the end of the peer's process; `peer` says whether the kernel closes or resets |
| `ReadHeader`, `ReadBody`, `ReadFile`, `ReadEvent` | one `recv` with `MSG_WAITALL` each, in `recv_message` |
| `HangUp` | the tests of `n_read` after the header |
| `BodyZeros`, `FileZeros`, `EventZeros` | a `recv` of 0 bytes in the middle of a message: the struct stays as `calloc` left it (`Blank`) |
| `BodyError`, `ListError` | a `recv` that fails there: no body, or no list |
| `Misread` | a struct is taken for one of another kind; the model stops |

One `send` arrives whole or not at all: the structs are small, and a stream cut within a struct leads to
the same reads as one cut before it, with part of the struct in place of zeros.

**`Broadcast`** is the other direction. A table is the sequence of its entries' numbers of holders.
Its message is a header, a body, the table with the count of entries, and for each entry three kinds
of struct, with the count of holders in the first; a *place* in it is a kind of struct with the
numbers of the entry and the holder. `After` leads from place to place as the loops of
`filetable_send` do, `Struct` is what is sent at one. `thr[p]` is the tracker's thread of `p`: it
reads a `FILE_UPDATE`, takes the lock, merges (`Merge`), and sends struct by struct (`at`) to one
peer after another (`to`), waiting where a buffer is full (`SendStruct`). The reader `rd[p]` is
`recv_message` of the peer down to `filetable_receive`, one `recv` a step, with what a `recv` does
on a stream that was closed (`ReceiveNothing`: 0 bytes, a struct of zeros) or reset (`ReceiveError`:
no table, and `main` follows the null pointer). A peer whose main thread reports a directory or an
empty file waits for room the other way (`MainReports`). `Expire` and `Evict` are the monitor's two
steps, `Stop` the end of the tracker.

**`Monitor`** is one peer, seen from its directory. `kq`, `batch`, `list`, `queue` and `sending`
are the places an event passes on its way to the tracker.

| actions | code |
|---|---|
| `UserWrites`, `UserDeletes` | the environment; `Change` is what inotify makes of it, for a directory that is watched |
| `Read`, `Convert` | `fileobserver_get_events`: one `read`, then event by event `stat`, a new watch, and the list built back to front |
| `Filter`, `FilterDone` | `monitor_thread` with both sets locked |
| `TakeEvents`, `SendEvents` | `read_monitor_thread`; the tracker reverses a whole `FILE_UPDATE` |
| `UpdateFromFiletable`, `DownloadFile`, `DeleteFile` | `update_from_filetable`: any table that asks for something, in the order of the code's two loops |
| `Walked`, `IgnoreModify`, `MakeDir`, `MakeFile`, `MakeParent`, `ResumeModify` | `download_file` and the callback; `Walked` reads the set without its lock |
| `IgnoreDelete`, `Unlink`, `ResumeDelete` | `delete_file` |
| `SaverOpens`, `SaverWrites`, `SaverResumes`, `SaverCrashes` | `file_saver`, which may never come; `fseek(NULL)` |

Versions stand for what `stat` returns. The set of marks is a bag: a path inserted twice has
to be removed twice. With `Prompt` a mark is not removed while what the peer did to the path
is still ahead of the filter: that is what `WAIT_TIME` is for, 0.3 s against the time it takes
to read an event. `lost` collects the paths of which the code itself misses the user's event:
the directory was not watched yet, the path was marked, or the reporter took half of one
read, or two together (`Overtaken`). `torn` is set when a mark is freed while `download_file`
reads the set; from then on what it finds there is arbitrary, and a path may be downloaded by several
savers at once: `job[p]` counts how many of them have got how far.

**`Sync`** is the system from above: peers, each with one copy of one plain file, and the tracker as
`FileTable` handling one message at a time, which is what `SerialSpec` shows of `Tracker`. A copy
has the version whose bytes it holds (0: bytes no user wrote, as in a placeholder or a mixed file).
The program itself knows a version by its modification time and size only (`Stamp`), and takes the
time in whole seconds (`fileinfo.c:53`, compared at `peer.c:357`). So the clock `now` counts
seconds: what is written, by a user or as a placeholder, is written in the last second in which
something was, or in a later one (`InSecond`), and any number of writes and turns may fall into one.
`wrote` remembers the stamp of each version, `Versions(e)` are the versions an entry can mean.

| actions | code |
|---|---|
| `UserWrites`, `UserDeletes`, `Restart` | the environment; a restarted peer registers what it has, on another port |
| `Observe` | `monitor_thread` and `read_monitor_thread`, an event at a time |
| `HandleRegister`, `HandleUpdate`, `HandleEof` | `handshake_thread` |
| `TakeTable` | the verdict of `update_from_filetable` |
| `Drop`, `Show` | `delete_file` |
| `Skip`, `Place` | `download_file`: already marked, or the placeholder; empty files are complete at once |
| `Fetch`, `Hang` | the download: a reachable holder sends its bytes, or has no such file |
| `Spoil`, `Strand` | the download from a list of holders of which one cannot be reached, whose thread finds no slot (`Download` looks into it): bytes nobody wrote, or segments marked without data, and a saver that waits for ever; also when no holder can be reached |
| `Resume` | the end of the mark |

Properties are stated around `harm`, a history variable with a name for each place where the code
loses or mistakes a version: a file deleted or overwritten whose user had just changed it
(`deleted`, `overwritten`), a version not fetched because another one was being fetched, or because
the placeholder of that download passed for it (`skipped`), an event dropped by a mark (`ignored`),
an older change taken over by the tracker (`older`), bytes of another version (`mixed`), a holder
without the file or out of reach (`unheld`), a deletion undone by a download that goes on
(`revived`), a version with the time and the size of an earlier one (`alike`), which no peer that
has the earlier one will ever fetch. No name is there for nothing: TLC reaches each in the instance
of `Sync`, and refutes `Converged` or `HoldersHold` when any one of these nine is no exception any
more (for `older` it takes a third act). A tenth name, `again`, is not a harm by itself: a peer
whose scan found a download under way may find it complete when it comes to `download_file`, and
then downloads the file a second time, over a copy that is up to date. With four peers TLC shows
what may follow from it: somebody else is sent the new placeholder in place of the file (`mixed`).
Two things one would expect on the list are not, and do no lasting harm to agreement: a
`DOWNLOAD_COMPLETE` counted for another version of its size (that version's table is still to come),
and a restart during a download (all peers then agree, if only on the placeholder). Users and
restarts keep quiet after the first harm (`Unharmed`, which `again` is no reason against), so that
each history shows one.

**`Heartbeat`.** `Tick` advances a clock of `Second` ticks in a second; `age` is what
`time(NULL) - last_timestamp` would be, `judged` the same as the monitor's `time_now` sees it.
`Wake` reads the time, `Judge` comes to the peer up to `MaxLag` later. Messages take up to
`MaxDelay`. `last_timestamp` of a connection that has not registered is 0 (`Ever`).

## 3. Runs

A run that passes explores every state of its instance; a run marked *violation* shows
that the code does not do what a comment says (section 6).

| run | instance | question |
|---|---|---|
| `TableMachine` | 5 paths (a directory, a subdirectory, a file in it, a file beside it, a dot file), 3 peers of which 2 share an ip, 2 mtimes, 2 sizes | Do counts and holders stay right, does a registration never regress the table, is its result the union? |
| `Tracker` | 2 connections, 2 paths, 3 messages, 2 rounds of the monitor, fair | Does the lock keep the threads apart, is every holder accounted for, is the peer table sound under its unlocked readers, how many of the peers it walks past does a broadcast lose, does it reach everyone, do the threads implement `TableMachine`, and does whoever waits for the lock get it? |
| `EventQueue` | 4 events, fair | Is the queue intact until the second unlock strikes, and is no event forgotten? |
| `Download` | 2 peers, 1 stream each, 2 segments, 2 faults, fair | Exclusive sockets (but for threads that found no slot), segments written once, complete files whole, live requests, memory freed once and last, termination |
| `Messaging` | a registration of up to 2 files, 2 threads that report 3 events, 1 heartbeat, fair | Does the tracker read the messages that were sent, all of them, and notice a hang-up? |
| `Monitor` | a directory and a file in it, 3 changes by the user, 2 orders | Are the peer's own changes ignored, the user's last change reported, the marks accounted for? |
| `Sync` | 2 peers, each of which may restart once, files of 0 and 1 bytes, 2 acts, 4 seconds, fair | Do users who take turns lose nothing, do peers converge, do holders hold, does it end? |
| `Broadcast` | 3 peers (one reports twice and may be evicted, one three times, one listens), no file or two, buffers of 1, fair | Do peers get the tables that were sent, and does a broadcast end? |
| `Heartbeat` | `INTERVAL` 5, ticks of half a second, messages up to 1 s and verdicts up to half a second late | Is only a silent peer evicted, and every silent one? |
| `TableDelete` | as `TableMachine` | *violation:* a deletion stays in its directory |
| `TrackerAck` | 2 connections, 1 file, 3 messages, 2 rounds | *violation:* the first answer is an acknowledgement |
| `DownloadAgain` | 3 peers, 1 act | *violation:* only what is missing or out of date is downloaded |

**What the passing runs say.**

* `CountsMatchLists`, `HoldersHaveDistinctIps`: with directories removed (and the loop's read
  of freed memory cutting the removal short), peers behind one ip, updates that change
  and delete the same file, the counts that frame a table on the wire always agree with it.
* `RegisterNeverRegresses`, `MergeIsUnion`: `filetable_fileDiff` compares all files with
  one table, reverses their order and is applied event by event; the result is nevertheless
  each file in its newest version with the right holders.
* `SerialSpec`: handshake threads, departures, evictions and resets behave like
  operations that take place one at a time. This is the refinement of `TableMachine`
  by `Tracker`: `work` is what the thread in the critical section has still to apply,
  `owner` its address. A merge cut short by a cancellation is `Abandon`: its other events are lost, but so
  is the lock, so that nobody builds on half an operation.
* `CriticalSection`, `HoldersAccounted`: although a thread may be
  cancelled holding the lock and the monitor replaces table and lock together.
* `OneLostPerBroadcast`: a broadcast does not hold the lock of the peer table, and may come to a
  struct that is being, or has been, freed (`ub`). But an eviction begins by taking
  `file_table->lock`, which the broadcast holds; so of all the peers it walks past, it can meet that
  fate with one, whose eviction was past that point already.
* `PeerListSound`, `BroadcastComplete`: the unlocked walk of the list is
  harmless to the list, and every peer that stays listed is sent the table. With two connections
  one of them is always the head of the list or its end; the theorems are about lists of any length.
* `LockGranted`: the only obstacle to a waiting thread is a thread cancelled inside.
* `ApartUntilStray`, `IntactUntilStray`, `SafeUntilStray`, `SentOrStray`: the second unlock
  is the only thing wrong with the event queue.
* `SegmentsOnce`, `RequestsIntact`, `FreedByLast`: the overlapping
  uses of `peers[]`, of `arr[0]` and of the status array do no harm to each other, even
  when connections fail and threads work without a slot, on whatever socket.
* `SocketsExclusive`: threads that look for a slot while `download()` fills them never end up on one
  connection; only a thread that found none can, by the number its stack happened to hold.
* `CompleteIsWhole`: a file reported complete has a right segment wherever no peer has gone away or
  changed it and no thread went by a socket it never assigned; the property names exactly the three
  causes that put wrong bytes into a file. `DownloadCompletes`: without faults, the download ends,
  all its threads end and its memory is freed. With faults it may hang for ever (a segment whose
  thread had no slot, a connection left open by an upload thread that ended, `file_mutex` kept).
* `ReadAsSent`: two threads write to one stream, and a peer may stop anywhere; as long as no
  heartbeat falls into a message, everything is read in order and complete, but for the last
  message, whose missing structs read as zeros. The heartbeat is thus all that `comm_lock` leaves open.
* `MessagesHandled`, `HangUpNoticed`: no `recv` waits for ever for a struct that will not come, not
  even when the stream ends in the middle of a list.
* `OwnChangesIgnored`: as long as the observer keeps up with `WAIT_TIME`, no change the peer
  makes to a file of the table comes back as its user's, whichever saver, placeholder and
  filter step fall together. Without `Prompt` it does. The directory that `download_file`
  makes for a file in one that is missing is not marked, and is reported (author `stray`).
* `LastWord`: the reversals by `fileobserver_get_events` and `fileevent_receive` cancel out,
  and `stat` at the time of reading does not matter, except for the paths in `lost`.
* `MarksAccounted`: no path is marked twice, and a mark is left behind (`stuck`) only where a
  directory or placeholder could not be made; or the unlocked read of the set went wrong.
* `TurnsAreSafe`: users who wait until everyone has the last change never lose one, restarts
  included, as long as no download is begun again and no turn writes as many bytes in the second of
  the turn before it (a turn takes little more than two sleeps of 0.3 s). `Converged`,
  `HoldersHold`: what goes wrong when they do not wait is one of nine named harms and nothing else.
  `Settles`: whatever goes wrong, peers do not send each other round in circles.
* `TablesAsSent`: tables come in order and whole, reversed by the list at the receiver, with
  broadcasts of several threads on one connection, thanks to the lock; only a connection that
  is closed within a table leaves a shorter one, as the last, and the peer deletes the files
  it misses.
* `BroadcastEnds`: the one thing that can stop a broadcast for ever, beside the cancellation
  of its thread, is the circle `Wedged`: full buffers in both directions between the tracker
  and a peer whose main thread is sending.
* `EvictedForCause`, `HeardOrEvicted`: whole seconds and an old `time_now` never make the
  silence look longer than it was, so that a peer whose heartbeats take no time is safe.
  There is no margin beyond that: the 5 seconds of "buffer" (`tracker.c:283`) are in the
  sleep and not in the comparison, and with heartbeats one tick late a live peer can be
  evicted. A silent one is gone after `Longest`, about two visits.

**Bounds.** `MaxMessages` and `MaxScans` stop the peers and the monitor of `Tracker`, `MaxEvents`
the producer of `EventQueue`, `MaxFaults` the environment of `Download`, `MaxFiles`, `MaxEvents` and
`MaxBeats` the threads of `Messaging`; `MaxUser` and `MaxOrders` the user and the tables of
`Monitor`, `MaxActs`, `MaxWrites` and `MaxStarts` users and restarts of `Sync`, `MaxSeconds` its
clock, `MaxReports` the peers of `Broadcast` (`DownCap`, `UpCap`: its buffers), `MaxDelay`, `MaxLag`
and `MaxWire` the delays of `Heartbeat`; `TableMachine` needs no bound, its states are finite. They
are large enough for what matters: two rounds of the monitor are what it takes to evict a peer,
reset the table and evict another; three messages let one peer register while the other does, and
one of them update afterwards; four events let the second unlock strike, and queueing go on
afterwards; two faults take away both peers, or one peer and the other's file; two segments and two
threads are enough for a segment to be given back and taken by the other thread; three events give
one thread a list of two while the other waits with its own message, and one heartbeat is enough to
fall into either. Three changes by the user and two orders let changes fall before, during and after
a download and a deletion of the same path; two acts in `Sync` let two users, or a user and a
restart, overlap in every order, and reach each of the nine harms; four seconds give both acts and
the placeholders they lead to seconds of their own, or one together; what a third act adds, or a
third peer (which can still be acting on a table that names one holder when a second reports that it
has the file too, or be told of two changes at once) is beyond the run, and is what the theorems of
section 5 cover for any number of peers; in `Broadcast` a buffer of one struct is full most of the
time, and the reports of two peers suffice for the circle of full buffers; an `INTERVAL` of 5
seconds is as long as the buffer the monitor adds to it, and ticks of half a second suffice to tell
a whole second from a begun one. One stream per peer (the program uses more) loses no interaction,
because slots of one peer and of different peers differ only in `PeerOf`. The largest of the passing
runs (`Monitor`) covers nearly five million distinct states, the smallest some ten thousand.

**Deadlock.** `TableMachine` and `Heartbeat` can always go on, and are checked for deadlock. The
others really may stop: when the bounds are used up (`Tracker`, `EventQueue`, `Messaging`, `Monitor`,
`Sync`), when the tracker has stopped or is wedged (`Broadcast`), when the peer has stopped, after undefined
behaviour, and when a download has ended or hangs.

## 4. Fairness

* `Tracker!FairSpec`: weak fairness for each handshake thread's own steps, for `start_peer`'s
  second step, and for the steps of a round of the monitor: the operating
  system runs threads that can run. No fairness for what peers send, and none for the start of a round.
  Weak fairness suffices for a mutex here because the number of messages is bounded.
* `EventQueue!QueueFairSpec`: weak fairness for both threads, none for another event. Strong fairness
  for the producer's lock: between spurious wakeups the consumer keeps taking the lock
  and giving it back, and a mutex is not withheld for ever from a thread that waits for it.
* `Download!FairSpec`: weak fairness for `download()`, each peer thread, the saver, and each upload
  thread. None for faults, nor for an answer on a connection that two threads use or that is none of
  the download (`ReceiveAstray`, `Misread`).
* `Messaging!FairSpec`: weak fairness for a thread in the middle of a message and for the
  tracker's reader. None for another message or heartbeat, nor for the peer's end.
* `Sync!FairSpec`: weak fairness for the tracker's thread of each connection, and for the
  observer, the main thread and the download of each peer. None for users and restarts.
* `Broadcast!FairSpec`: weak fairness for each thread of the tracker, each peer's main thread,
  and an eviction that has begun. None for reports, late peers and the end of the tracker. Weak
  fairness suffices for the mutex because `MaxReports` bounds how often it is taken.
* `Monitor` and `Heartbeat` state safety only; in `Heartbeat` the limits on delays (`InTime`)
  take the place of fairness.

## 5. Proofs

The theorems hold for every value of the constants that satisfies the named assumptions of the
modules (`NamesAssumption`, `DataAssumption`, `ListsAssumption`, `ConnsAssumption`,
`MessagesAssumption`, `MaxEventsAssumption`, `SizesAssumption`, `PeersAssumption`,
`TablesAssumption`, `HeartbeatAssumption`, `PathsAssumption`, `BoundsAssumption`, `SyncAssumption`):
finitely many names, addresses and connections; a path that extends another sorts after it; a
registration names a path once (the directory scan that makes it meets a path once); no two
connections have one address (a peer draws its listening port at random, `peer.c:94`; two on one
machine that draw the same one are left out, the second cannot bind it and ends, `upload.c:97`); in
`Sync` one plain file, an address for each start of each of finitely many peers, and a clock of at
least one second; nothing is assumed of how many versions are written in one.

| theorem | module | says |
|---|---|---|
| `TypeCorrect`, `CountsAlwaysMatch`, `HoldersAlwaysDistinct`, `RegistrationNeverRegresses`, `RegistrationIsUnion` | `TableMachineProofs` | `[]TypeOK`, `[]CountsMatchLists`, `[]HoldersHaveDistinctIps`, `RegisterNeverRegresses`; of `TableChecks`, `MergeIsUnion` |
| `TypeCorrect`, `Exclusion`, `OneIsLost`, `AlwaysAccounted`, `ListStaysSound`, `BroadcastsReachAll`, `Serializable` | `TrackerProofs` | `[]TypeOK`, `[]CriticalSection`, `[]OneLostPerBroadcast`, `[]HoldersAccounted`, `[]PeerListSound`, `BroadcastComplete`, `SerialSpec` |
| `StayApart`, `StaySafe`, `StayIntact` | `PeerProofs` | of `EventQueue`: `[]ApartUntilStray`, `[]SafeUntilStray`, `[]IntactUntilStray` |
| `TypeCorrect`, `TurnsCorrect`, `HoldersCorrect`, `ConvergenceCorrect` | `PeerProofs` | of `Sync`: `[]TypeOK`, `[]TurnsAreSafe`, `[]HoldersHold`, `[]Converged`, for any number of peers, acts and restarts |
| `SocketsStayExclusive`, `SegmentsFetchedOnce`, `FreedAfterLast`, `RequestsStayIntact`, `CompletedIsWhole` | `DownloadProofs` | `[]SocketsExclusive`, `[]SegmentsOnce`, `[]FreedByLast`, `[]RequestsIntact`, `[]CompleteIsWhole` |
| `ReadAsWritten` | `MessagingProofs` | `[]ReadAsSent` |
| `TypeCorrect`, `StreamsCorrect` | `ConnectionProofs` | of `Broadcast`: `[]TypeOK`, `[]TablesAsSent` |
| `EvictionHasCause`, `HeardOrGone` | `ConnectionProofs` | of `Heartbeat`: `EvictedForCause`, `[]HeardOrEvicted` |
| `TypeCorrect`, `LastWordHeard`, `EveryMarkAccounted`, `OwnChangesStayHidden` | `MonitorProofs` | `[]TypeOK`, `[]LastWord`, `[]MarksAccounted`, `[]OwnChangesIgnored`, for a tree with at least one path; the last when `Prompt` |

**The table.** `FileTableLemmas` shows for each operation that it keeps a table *good*:
of the right type, counted, with one holder per ip. Cardinalities change by the library's
facts on adding and removing an element. `TableMachineProofs` builds `IInv` from that
(`Invariance`). For `RegistrationNeverRegresses` this is not enough: events are computed
against the table at the start and applied to later tables, so `DueInv` says of each event
still to be applied that the table is not newer than it where the event would overwrite it. It
holds because a registration names a path once, so that no event outdates another.
`RegistrationIsUnion` follows from `MergeInv`: the events still to come are those of the first files of
the list, and the table is what it was, with every later file merged (`Merging`). Each event
finds the entry of its file as it was when the comparison was made, and leaves its `Newest`
version (`AppliedNewest`); when no event is left, `Merging` is the property.

**The tracker.** `TypeInv` carries the types and that the table is good. `LockInv` is the invariant
of the lock: who is in the critical section owns the lock; the owner is in it or was cancelled
there; the table is missing only while the monitor renews it, and then nobody is inside. Without the
second and third part the first is not inductive: a thread could be inside a lock that the monitor
has just made new. `Serializable` maps each step: events applied by the owner are `ApplyNext`, a
lock taken is `Register` or `Update`, clean-up and eviction are `Leave`, a renewed table is `Reset`,
a thread killed in its merge is `Abandon`, all else stutters (`SerialInit`, `SerialNext`). After
`Abandon` the dead thread owns the lock until the table is renewed, so that neither a merge nor a
clean-up can begin: whoever changes the table finds the lock free, and then nothing was abandoned
(`FreeIsIdle`). `AlwaysAccounted` rests on `StepsForward` (what no step undoes for a connection) and
`StepsList` (a step lists no address but that of a thread that merges). `OneIsLost` is inductive
together with `LockInv`: at the start of a broadcast nothing listed is freed (`FewLostAtStart`), and
while it lasts the monitor can finish with the peer it is evicting and not get past `MonitorEvict`
with another (`FewLostNext`).

**The list of peers.** `peertable_add` puts each struct in front, so the list is sorted by age, and
`ListInv` says that there are numbers for the ages that show it: `Sorted` (the next of each is the
youngest of the older ones, so there are neither cycles nor gaps), `PointersIn` and `Preceded`
(pointers lead into the list, everyone in it has one), `Scanning` (where the monitor's two pointers
are). No reachability is needed. Without the ages a self-loop would pass for a sound list until the
monitor freed its struct. `Ahead` says of a broadcast that whoever is still to be sent the table is
not younger than `cur`; with `Sorted` no step of the loop passes anyone, and with `LockInv` nobody
makes the table newer meanwhile.

**The event queue.** `QueueInv` is `Typed` together with `Good` until the stray unlock: the threads
are apart (`Apart`, with the lock taken where one is inside), and while events are freed, none of
them is, or leads to, what the queue still reaches (`Fresh`, `Ends`, `Old`). This uses that events
are numbered as they are allocated: what has been freed is older than what is in the queue.
`OrderInv` adds that what is sent, in hand and in the queue are intervals of these numbers that
follow each other (`Order`, `Forward`) and what `tail`, `length` and the length the producer has
read are at every step (`Fields`). `ListOfChain` ties this to `List`, the recursive walk of
`send_file_update`: that the recursion has a solution is shown by giving it (`ListsExist`), that it
is the interval by a least counterexample (`Least`).

**The download.** `SocketInv` adds to exclusiveness that a slot holds its own socket or none
(`SlotsOwn`), that a socket in use has left its slot (`TakenOnce`), unless its thread has just read
that slot and is alone about to mark it (`InTake`) or found no slot at all, that slot 0 is negative
before any thread counts itself done in it (`PastFirst`), and that descriptors from outside the
download are those of threads that found no slot (`ForeignIsStray`): this is why using `peers[0]` as
a counter cannot make a socket number reappear. `SegmentInv` is the invariant of the segments: a
thread that holds one holds it alone and it is marked `DOWNLOADING` (`Owned`); until its data has
come it is neither queued nor saved (`Unfetched`); a chunk in the queue is the only one of its
segment and not saved yet (`QueuedOnce`); the two counters count what they should (`Counted`), so
that who compares them with the number of segments concludes rightly (`Concluded`). `SegmentsOnce`
is a corollary, and so, with `FreedInv`, is `RequestsIntact`: who still requests a segment keeps the
counts from being complete. `FreedInv` says that the negative `peers[0]` counts the threads that are
done, which is `FreedByLast`. `DataInv` says of every chunk and every saved segment what explains
its bytes (`Explained`: zeros a peer that is gone, other bytes a peer whose file has changed, mixed
bytes a thread without a slot), and the same of a connection with an answer on it (`LinkExplained`:
two threads cross on one only when one of them has no slot of its own); with `Concluded` it is
`CompleteIsWhole`.

**Messaging.** `StreamInv` says that until the senders have crossed the receiver is in one of four
states: in step with the sender (`InStep`), reading the zeros of a structure that never came
(`ReadingZeros`), through with a message cut short (`HandledShort`), or at the end (`Over`). In step
means: there is a numbering of everything ever written, read or not (`Layout`: each message begun
starts where the one before it ends and its structs lie in the order `WrittenAs` says), in which the
next struct to be read is the one the receiver's program counter waits for (`Place`). What is still
to come, in the stream or in the hands of the sender (`Coming`), loses its head when the receiver
reads, is untouched when the sender writes on, and grows by a whole message when one is begun. So
the numbering, once chosen, need only be extended, and it exists because at most one thread is
inside a message (`Alone`): a reporter has the lock, and the `REGISTER` of the main thread is over
before anything else is begun.

**The broadcast.** `TablesAsSent` says nothing of what is on its way, so it is far from inductive.
`StreamInv` locates everything on a connection: a *location* is a place in the message for the m-th
table begun on it, and the structs waiting in the buffer are those of successive locations
(`Streams`), the first where the reader is (`ReaderAt`, which also says what the reader's two
counters and the entries it has read must be there) and, as long as the connection is open, the last
just before the writer (`WriterLoc`). A `SendStruct` lengthens that interval at one end, a `Receive`
shortens it at the other, `Begin` adds a table without moving either. Two things make it inductive.
At most one thread has anyone left to send to, and it holds the lock (`SenderInv`): otherwise two
writers would mix their structs, as the mutant `MergeUnlocked` shows. And the streams that are cut
have to be said: a peer is in step (`InStep`), or its connection was closed inside a table and it
reads zeros (`ReadsZeros`), or that table was its last (`WasCut`), or its process has ended
(`HasEnded`); a closed connection with nothing left to read never gets back to the first. `Reverse`
comes from `ReadSoFar`: what has been read of a table is its first entries, the last one first.

**The heartbeat.** The monitor compares whole seconds, so the invariants relate them to the ticks
that have passed. `SilenceInv` bounds from below: of `age` seconds all but the first were
whole, and the monitor's `judged` is no more than `age`. `HeardInv` bounds from above: how long ago
the last heartbeat was handled, what is under way, and when the monitor looks next.

**The monitor.** `MarkInv` has two parts. `Marking`, that whoever is between marking and resuming
has a mark of its own, holds always; `Once`, that there is no other mark but a stuck one and never
two, only until the unlocked read of `ignore_modify` has met a removal. `OwnInv` says of each own
event that is not yet filtered that its path is in the set the filter will ask. It needs `Marking`
where an event arises and `Flushed` where a mark goes, but not `Once`: the torn read can leave marks
too many, which hide changes of the user, and none too few. `Types` are the types of the tree, of
the places an event passes, and of the counters. `WordInv` traces a change of the user that is not
lost to where its event is: `Followed` says that in the kernel's queue and in the batch the last
event of the path is the user's and agrees with the disk (`EndsWell`), in the observer's list the
first (`StartsWell`, `StartsByUser`), and that further on the first event of the path that is left
settles it (`Settled`). `Phases` says which of these places can be in use together. It rests on the
order being turned round once, when the observer puts each event at the head of its list, and on
`SendEvents` letting the first event of a path (`Firsts`) stand.

**Users who take turns.** `SyncTypes` are the types of `Sync`: the table has one plain entry or none
(`PlainTable`), a former connection ends with `EOF` and carries nothing after it, nobody has heard
of more changes than were made. They rest on what a message makes of the entry (`Effect`,
`RegisterEffect`), derived from the operations of `FileTable` once, so that the rest of the proof
deals with one entry in place of tables. `TurnsAreSafe` is proved from `TurnInv`: if nobody
overlapped and no download was begun again, nothing has been harmed (`Safe`) and the system is in
one of three states. A restarted peer registers and everybody has the file (`Registering`); a change
is on its way to the tracker and nothing else is (`Pending`); or the version of the table flows to
those who do not have it (`Flow`). In `Flow` there may be many tables under way, with different
lists of holders. What makes it inductive is that each of them, and each a peer is acting on, is
`Usable`: it names the present version, only peers that really hold it (`Holders`), and somebody,
and nobody out of reach, where bytes are needed. Hence no fetch can meet a placeholder, a missing
file, another version or a holder that is gone. A peer that needs the version sees it by its time
and size (`Off`), which is where `alike` comes in: without it no two versions that are not empty
have one stamp (`Distinct`). This needs `Holders` to grow only, which is what a download begun again
destroys: its placeholder takes a peer off `Holders` that tables still name. `PeerStep` says what a
step of one peer leaves alone of `Flow` and what is left to show of it (`FlowPeer` of that peer),
`TableStep` the same of a message handled by the tracker (`FlowWire`). A user who waited until all
is quiet finds everybody a holder (`QuietFlow`), so that `Flow` turns into `Pending` or
`Registering` with nothing left over. Before it was proved, TLC had checked `TurnInv` with three
peers and, in part, with four.

**Users who overlap.** `HoldersHold` and `Converged` follow from `LineInv`: until harm is done, the
peers are in line with the table (`Line`). When changes overlap what is on its way is not one of a
few states, so `Line` says of each peer *by itself* how its disk, its download, the tables it has
yet to read and the messages it has yet to deliver fit together; what the others do can only add a
table at the end (`LineOthers`, `TrackerOthers`). The tracker has heard everything from a peer or
not (`Settled`). If it has, the tables the peer will act upon *lead* from the version the peer has,
or is fetching (`View`), to the version of the table (`Leads`): each is of the same version as the
one before, of none, or newer and without this peer among its holders (`Follows`), so that the peer
cannot take it for what it has. Tables older than the last change of its user come first, and the
peer's verdict on them cannot be carried out without harm. Or harm is on its way (`Overtaken`): a
deletion or a fetch will meet a change it does not know. If the tracker has not heard everything,
the change that it will hear last describes the disk (`LastTold`), it hears them in order
(`Ordered`), and a file that was created again after a deletion will be back in the table (`Known`),
or else a `FILE_MODIFIED` that finds no entry (`filetable_updateMod` does nothing then) would leave
it out for good. `Connected` keeps former connections apart: what is left on them is old, and the
new one begins with `REGISTER`. A peer compares times and sizes, while the properties speak of
bytes. What leads to the version of the table are therefore stamps (`View` and `Leads` are about a
stamp, that of an empty file standing for every empty file), and `Genuine` says of each copy with
bytes that its stamp is the one its version was written with. As long as no two versions are
`alike`, the stamp of the table then means one version (`OneVersion`), and who has that stamp has
its bytes. TLC checked `LineInv` on the instance of `Sync` and with three peers before it was
proved. On the way a third peer showed the second case of `skipped`: the placeholder of one
download, new and empty, passes for the empty version of a later table, and the download then puts
the earlier version in its place.

**Only model-checked.** Liveness (`LockGranted`, `SentOrStray`, `DownloadCompletes`,
`MessagesHandled`, `HangUpNoticed`, `Settles`, `BroadcastEnds`), which is beyond this prover.
`EventQueue`, `Download`, `Messaging` and `Heartbeat` also define a `TypeOK` (`QueueTypeOK`) that no
run lists; it holds in their runs.

## 6. Where code and comments disagree

| run, property | the comment | what happens |
|---|---|---|
| `TableDelete`, `DeleteStaysInside` | "Delete all the files in the directory, recursively" (`filetable.c:187`) | deleting `d` also deletes `dy`, a file beside it: the test is a string prefix without `/` |
| `TrackerAck`, `RegisterAckFirst` | "should always be a REGISTER_ACK; assert so" (`peer.c:440`) | a connection is listed before it registers, and a broadcast reaches it first; the peer exits |
| `DownloadAgain`, `OnlyWhenOff` | "we only download when ... 2. the modification times are off or the size is off" (`peer.c:354`) | the scan compares with the placeholder of a download under way; when `download_file` is called that download is complete, its mark is gone, and the file is downloaded again over the copy that is up to date |

More of what comments promise and the code does not keep shows as the exception that a
passing property has to make:

* "removing this peer's ip from all places it appears" (`tracker.c:295`): between that removal
  and `pthread_cancel` the peer's thread may merge one more message; `HoldersAccounted` has to
  allow addresses of cancelled threads.
* "remove any peers from the table that are past their timeout length" (`tracker.c:280`): a
  thread cancelled in `send` keeps the table's lock, and the monitor waits for it for ever;
  `LockGranted` excepts `Orphaned`.
* "allow a small buffer zone over the interval" (`tracker.c:283`): it is none, see
  `EvictedForCause`.
* "thread-safe API" (`eventqueue.h:4`): the properties of `EventQueue` hold until the second
  unlock opens the producer's lock (`stray`).
* "can trust that the body will be populated as needed" (`segment.h:42-43`): a peer that stops
  in the middle of a message leaves zeros or no body; `ReadAsSent` excepts the last message.
  The same in the other direction: `TablesAsSent`.
* "the modification times are off or the size is off" (`peer.c:355`) is all that tells one version
  from another: two of one size in one second are not, `alike` in `TurnsAreSafe`, `Converged` and
  `HoldersHold`.
* "Get a peer socket descriptor" (`download.c:252`): with a failed connection a thread may get none
  and go on with one it never assigned; `SocketsExclusive` excepts `Stray`.
* "mark the file as ignored to avoid generating an event" (`peer.c:243`): the mark may stay,
  `stuck` in `MarksAccounted`.
* "Reset the file table if no peers remain." (`tracker.c:311`) overlooks a peer that
  registers before `start_peer` has listed it; the reset takes its files off the table.

## 7. What is not modelled

* **Tracker:** what `end_tracker` frees before the process ends (`Broadcast` has the end
  itself), `pthread_create` or `accept` failing, and `filetable_print` after the unlock
  (`tracker.c:273`), whose output no property is about. Messages reach the tracker whole in
  `Tracker`; `Messaging` and `Broadcast` look into them.
* **File table:** `filetable_getPeers`, printing, and the linked list itself (sorted
  insertion); the tests of allocation results.
* **Event queue:** `eventqueue_remove_name`, which nobody calls; `eventqueue_destroy`, which runs
  when both threads have been joined.
* **Download:** several downloads at once, the accept loop of `upload()`, reuse of a descriptor
  number after `close` other than by a thread without a slot, allocation failures, the length and
  position of segments. After `ub` nothing is claimed. In `Sync` a download whose holders can all be
  reached gets its bytes from one of them at one moment; one with a holder out of reach gets those,
  or bytes of no version at all (`Spoil`), or hangs.
* **Peer:** in `Sync` there is one plain file, all clocks agree, and the events of a peer arrive
  in order (`Monitor` has directories and says when they do not). The file that `download_file`
  opens by its bare path when the directory was missing (`peer.c:267`) is outside the directory
  that is watched, unless the peer was started there.
* **Messaging:** `REGISTER_ACK` is a whole message. A struct that arrives in part; a connection
  cut there leads to the same reads with part of the struct in place of zeros. The listening
  port and other contents of a body.
* **Monitor and observer:** names that begin with a dot, which are left out of events and of the
  table; renames, which inotify reports as a deletion and a creation; the arrays `dir_wd` and
  `dir_name`, which hold 255 directories without a test (`fileobserver.c:37`); failing
  allocations and `read`. `fileobserver-mac.c` differs in the interface only.
* **Makefiles, `filetabletest.c`, `monitor/test.c`:** builds and manual drivers.

## 8. Plan

Done, in this order: `FileTable` and `TableMachine`, their proofs; `Tracker` implementing
`TableMachine`, its proofs; `EventQueue` and proofs; `Download` and its first theorem;
`Messaging`; `Monitor`; `Sync`; `Broadcast`; `Heartbeat`; theorems about `Heartbeat`, `Monitor`,
`Download` (its four further invariants), `Messaging` and `Broadcast`, the list of peers, the order of the
event queue, the union a registration makes, and the four invariants of `Sync`.

Next:

1. `FileTableList`: the sorted linked list, refining `FileTable`.
2. Composition: `Tracker` with streams from `Messaging` and `Broadcast` in place of whole messages;
   `Sync` with the event path of `Monitor`.

## 9. How to run

    tlc -config TableMachine.cfg MCTable      # likewise for the other runs
    tlapm TrackerProofs.tla                   # likewise for the other proof modules

`PROJECT.json` names the module of each configuration.
