---------------------------- MODULE TableMachine ----------------------------
(***************************************************************************)
(* What the tracker promises about its file table: registrations, updates  *)
(* and departures take effect one at a time.  An operation runs from start  *)
(* to end against the table it began with (its events are applied one by   *)
(* one, as the loop of filetable_eventMerge does), and no other operation  *)
(* comes between.  One that is cut short, inside the removal of a          *)
(* directory, is the last before the table is replaced.  Tracker.tla,      *)
(* where one thread per connection and the monitor share the table, is     *)
(* shown to implement this machine.                                        *)
(***************************************************************************)
EXTENDS FileTable

CONSTANTS FileLists,   \* what a peer may send with REGISTER
          EventLists   \* what a peer may send with FILE_UPDATE

\* The directory scan that makes a registration's list meets a path once.
ASSUME ListsAssumption ==
  /\ FileLists \subseteq Seq(FileInfo)
  /\ \A files \in FileLists : \A i, j \in DOMAIN files :
       files[i].name = files[j].name => i = j
  /\ EventLists \subseteq Seq(FileEvent)

VARIABLES table,  \* the file table
          work,   \* the events the current operation has still to apply
          owner,  \* the address they come from
          mode    \* the kind of the current operation

vars == <<table, work, owner, mode>>

NoAddr == <<>>

Modes == {"idle", "REGISTER", "FILE_UPDATE", "abandoned"}

TypeOK ==
  /\ IsTable(table)
  /\ work \in Seq(FileEvent)
  /\ owner \in Addrs \cup {NoAddr}
  /\ mode \in Modes

Init ==
  /\ table = EmptyTable
  /\ work = <<>>
  /\ owner = NoAddr
  /\ mode = "idle"

\* Mutant of Continue: the events are merged before the peer's address is known.
ContinueUnknown(events, a, m) ==
  /\ work' = events
  /\ owner' = NoAddr
  /\ mode' = IF events = <<>> THEN "idle" ELSE m

\* An operation with no event to apply is over at once.
Continue(events, a, m) ==
  /\ work' = events
  /\ owner' = IF events = <<>> THEN NoAddr ELSE a
  /\ mode' = IF events = <<>> THEN "idle" ELSE m

\* filetable_merge up to its call of filetable_eventMerge.
Register(a, files) ==
  /\ mode = "idle"
  /\ Continue(FileDiff(table, files), a, "REGISTER")
  /\ UNCHANGED table

\* The call of filetable_eventMerge with the events of a FILE_UPDATE.
Update(a, events) ==
  /\ mode = "idle"
  /\ Continue(events, a, "FILE_UPDATE")
  /\ UNCHANGED table

\* One round of the loop of filetable_eventMerge.
ApplyNext ==
  /\ work # <<>>
  /\ table' \in Applied(table, Head(work), owner)
  /\ Continue(Tail(work), owner, mode)

\* The thread is cancelled inside the removal of a directory, under the lock.
Abandon ==
  /\ work # <<>> /\ Head(work).action = "FILE_DELETED"
  /\ table' \in RemovalsCutShort(table, Head(work).file.name)
  /\ work' = <<>> /\ owner' = NoAddr /\ mode' = "abandoned"

\* A peer's address is taken off every file: it hung up or timed out.
Leave(a) ==
  /\ mode = "idle"
  /\ table' = RemovePeerAll(table, a)
  /\ UNCHANGED <<work, owner, mode>>

\* The monitor replaces the table by an empty one, and its lock by a free one.
Reset ==
  /\ mode \in {"idle", "abandoned"}
  /\ table' = EmptyTable
  /\ mode' = "idle"
  /\ UNCHANGED <<work, owner>>

Next ==
  \/ \E a \in Addrs, files \in FileLists : Register(a, files)
  \/ \E a \in Addrs, events \in EventLists : Update(a, events)
  \/ ApplyNext
  \/ Abandon
  \/ \E a \in Addrs : Leave(a)
  \/ Reset

Spec == Init /\ [][Next]_vars

----------------------------------------------------------------------------
\* filetable_send writes numfiles and numpeers and then the lists themselves, and
\* the receiver reads as many as it was told: if a count of the table ever differs
\* from the list it counts, every later message on the connection is misread.
CountsMatchLists == Counted(table)

\* filetable_addPeer keeps a second process on a machine off a file's list, so
\* the list never holds one ip twice, whichever way a peer came to be on it.
HoldersHaveDistinctIps == OneHolderPerIp(table)

\* A peer that registers brings newer files or the same ones: applying its list
\* (filetable_merge) never removes a file nor takes a file back to an older
\* version, whatever the table was when the peer connected.
RegisterNeverRegresses ==
  [][mode = "REGISTER" =>
       \A n \in Present(table) : /\ n \in Present(table')
                                 /\ table'.entry[n].mtime >= table.entry[n].mtime]_vars
=============================================================================
