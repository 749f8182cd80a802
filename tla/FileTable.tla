----------------------------- MODULE FileTable -----------------------------
(***************************************************************************)
(* The file table of src/filetable/filetable.c as a value, and its         *)
(* operations as operators from a table to the table they leave.           *)
(*                                                                         *)
(* The sorted linked list of TableEntry is the function t.entry from the   *)
(* names that are present to their entries; numfiles and numpeers stay     *)
(* explicit fields, because filetable_send and filetable_receive use them, *)
(* not the lists, to frame a table on the wire.  Names are natural numbers *)
(* in strcmp order.                                                        *)
(***************************************************************************)
EXTENDS Integers, Sequences, FiniteSets

CONSTANTS Names,      \* the paths in use, numbered in strcmp order
          DotNames,   \* the paths that begin with '.'
          Extending,  \* Extending[d]: the names of which d is a proper string prefix
          Addrs,      \* addresses <<ip, port>> of peers
          Times,      \* modification times
          Sizes       \* file sizes

\* A path that extends another comes after it in strcmp order.
ASSUME NamesAssumption ==
  /\ IsFiniteSet(Names) /\ Names \subseteq Nat
  /\ DotNames \subseteq Names
  /\ Extending \in [Names -> SUBSET Names]
  /\ \A d \in Names : \A n \in Extending[d] : d < n

ASSUME DataAssumption ==
  /\ Times \subseteq Nat
  /\ Sizes \subseteq Nat /\ 0 \in Sizes
  /\ Addrs \subseteq Nat \X Nat /\ IsFiniteSet(Addrs)

----------------------------------------------------------------------------
FileInfo == [name : Names, mtime : Times, size : Sizes, dir : BOOLEAN]

Actions == {"FILE_CREATED", "FILE_MODIFIED", "FILE_DELETED", "DOWNLOAD_COMPLETE", "NONE"}
FileEvent == [action : Actions, file : FileInfo]

Entry == [mtime : Times, size : Sizes, dir : BOOLEAN,
          peers : SUBSET Addrs, numpeers : Int]

\* Tables as the program builds them.
IsTable(t) == /\ t = [entry |-> t.entry, numfiles |-> t.numfiles]
              /\ DOMAIN t.entry \subseteq Names
              /\ t.entry \in [DOMAIN t.entry -> Entry]
              /\ t.numfiles \in Int

Present(t) == DOMAIN t.entry

\* filetable_init
EmptyTable == [entry |-> [n \in {} |-> 0], numfiles |-> 0]

----------------------------------------------------------------------------
\* The table with e as the entry of name n, there or not before.
WithEntry(t, n, e) ==
  [entry    |-> [m \in Present(t) \cup {n} |-> IF m = n THEN e ELSE t.entry[m]],
   numfiles |-> IF n \in Present(t) THEN t.numfiles ELSE t.numfiles + 1]

\* An entry for file f held by the peer at address a alone.
SoleHolder(f, dir, a) ==
  [mtime |-> f.mtime, size |-> f.size, dir |-> dir, peers |-> {a}, numpeers |-> 1]

\* Mutant of UpdateMod: the holders of the former version stay in the list.
UpdateModShared(t, f, a) ==
  LET old == t.entry[f.name].peers
      peers == old \cup {a}
  IN IF f.name \notin Present(t) THEN t
     ELSE WithEntry(t, f.name, [SoleHolder(f, t.entry[f.name].dir, a) EXCEPT
                                  !.peers = peers, !.numpeers = Cardinality(peers)])

\* filetable_updateMod: the peer that modified the file becomes its only
\* holder; is_dir keeps its old value.  An absent file is left absent.
UpdateMod(t, f, a) ==
  IF f.name \notin Present(t) THEN t
  ELSE WithEntry(t, f.name, SoleHolder(f, t.entry[f.name].dir, a))

\* A directory always has size 0 in the table.
Sized(f) == [f EXCEPT !.size = IF f.dir THEN 0 ELSE @]

\* filetable_insert: dot files are ignored, a file that is there is updated.
Insert(t, f, a) ==
  IF f.name \in DotNames THEN t
  ELSE IF f.name \in Present(t)
    THEN UpdateMod(t, Sized(f), a)
    ELSE WithEntry(t, f.name, SoleHolder(Sized(f), f.dir, a))

\* Mutant of HasIp: the duplicate check compares ip and port.
HasAddress(e, a) == a \in e.peers

\* The duplicate check of filetable_addPeer compares the ip alone.
HasIp(e, a) == \E b \in e.peers : b[1] = a[1]

\* The entry with another list of holders, counted as n.
WithPeers(e, peers, n) ==
  [mtime |-> e.mtime, size |-> e.size, dir |-> e.dir, peers |-> peers, numpeers |-> n]

\* The entry with one more holder, at the head of its list.
Joined(e, a) == WithPeers(e, e.peers \cup {a}, e.numpeers + 1)

\* filetable_addPeer: the handler of DOWNLOAD_COMPLETE.  The size is the only
\* evidence that the peer holds the version the table describes.
AddPeer(t, f, a) ==
  IF \/ f.name \notin Present(t)
     \/ t.entry[f.name].size # f.size
     \/ HasIp(t.entry[f.name], a)
  THEN t
  ELSE WithEntry(t, f.name, Joined(t.entry[f.name], a))

\* Mutant of EntryRemovePeer: the list loses its holder, numpeers does not.
EntryRemovePeerUncounted(e, a) == WithPeers(e, e.peers \ {a}, e.numpeers)

\* filetable_entryRemovePeer: here both ip and port are compared.
EntryRemovePeer(e, a) ==
  IF a \notin e.peers THEN e
  ELSE WithPeers(e, e.peers \ {a}, e.numpeers - 1)

\* filetable_removePeerAll
RemovePeerAll(t, a) ==
  [entry    |-> [n \in Present(t) |-> EntryRemovePeer(t.entry[n], a)],
   numfiles |-> t.numfiles]

----------------------------------------------------------------------------
\* filetable_remove.  Removing a directory d also removes the entries whose path
\* has d's path as a string prefix.  The loop over them reads sub->next from an
\* entry that filetable_remove has just freed: what it reads depends on the
\* allocator, which keeps the pointer or zeroes it, and the loop may end there.
Doomed(t, d) == Present(t) \cap Extending[d]

\* The loop may remove S: the first entries of the list under d, at least one of
\* them for d and for each directory it removes on the way.
Swept(t, d, S) ==
  /\ \A m \in S : \A n \in Doomed(t, d) : n < m => n \in S
  /\ \A s \in S \cup {d} : t.entry[s].dir /\ Doomed(t, s) # {} => Doomed(t, s) \cap S # {}

RemovedSets(t, d) ==
  IF d \notin Present(t) THEN {{}}
  ELSE IF ~t.entry[d].dir THEN {{d}}
  ELSE { {d} \cup S : S \in { S \in SUBSET Doomed(t, d) : Swept(t, d, S) } }

Without(t, gone) ==
  [entry    |-> [n \in Present(t) \ gone |-> t.entry[n]],
   numfiles |-> t.numfiles - Cardinality(gone)]

RemoveResults(t, d) == { Without(t, gone) : gone \in RemovedSets(t, d) }

\* What is removed is told before it is: a thread that is cancelled ends at the
\* printf, about to remove x.  The directories it is inside are no directories any
\* more, and what the list has under d before x is gone but for them.
OnTheWay(t, d, x) == { m \in Doomed(t, d) : m < x /\ t.entry[m].dir /\ x \in Extending[m] }

GoneBefore(t, d, x, inside) == { n \in Doomed(t, d) : n < x } \ inside

Unmarked(t, dirs) ==
  [entry    |-> [n \in Present(t) |-> IF n \in dirs THEN [t.entry[n] EXCEPT !.dir = FALSE]
                                     ELSE t.entry[n]],
   numfiles |-> t.numfiles]

RemovalsCutShort(t, d) ==
  IF d \notin Present(t) \/ ~t.entry[d].dir THEN {}
  ELSE { Without(Unmarked(t, {d} \cup way[2]), GoneBefore(t, d, way[1], way[2])) :
           way \in { w \in Doomed(t, d) \X SUBSET Doomed(t, d) :
                      /\ w[2] \subseteq OnTheWay(t, d, w[1])
                      /\ LET gone == GoneBefore(t, d, w[1], w[2])
                         IN \A s \in gone : t.entry[s].dir /\ Doomed(t, s) # {}
                                             => Doomed(t, s) \cap gone # {} } }

----------------------------------------------------------------------------
\* One round of the loop of filetable_eventMerge: the tables that event e from
\* the peer at address a can leave.
Applied(t, e, a) ==
  CASE e.action = "FILE_MODIFIED"     -> {UpdateMod(t, e.file, a)}
    [] e.action = "FILE_CREATED"      -> {Insert(t, e.file, a)}
    [] e.action = "FILE_DELETED"      -> RemoveResults(t, e.file.name)
    [] e.action = "DOWNLOAD_COMPLETE" -> {AddPeer(t, e.file, a)}
    [] e.action = "NONE"              -> {t}

\* Mutant of DiffEvent: any other modification time counts as newer.
DiffEventEither(t, f) ==
  [action |-> CASE f.name \notin Present(t) -> "FILE_CREATED"
                [] f.name \in Present(t) /\ t.entry[f.name].mtime # f.mtime -> "FILE_MODIFIED"
                [] OTHER -> "DOWNLOAD_COMPLETE",
   file   |-> f]

\* What filetable_fileDiff makes of one file of a peer.  NONE stands for the
\* file that adds no event to the list: the table has a newer version.
DiffEvent(t, f) ==
  [action |-> CASE f.name \notin Present(t) -> "FILE_CREATED"
                [] f.name \in Present(t) /\ t.entry[f.name].mtime < f.mtime -> "FILE_MODIFIED"
                [] f.name \in Present(t) /\ t.entry[f.name].mtime = f.mtime -> "DOWNLOAD_COMPLETE"
                [] OTHER -> "NONE",
   file   |-> f]

\* Mutant of FileDiff: each event replaces the head of the list instead of
\* pushing it down.
FileDiffLast(t, files) ==
  IF files = <<>> THEN <<>> ELSE <<DiffEvent(t, files[Len(files)])>>

\* filetable_fileDiff compares every file with the same table and puts each
\* event at the head of the list it returns.
FileDiff(t, files) ==
  [i \in 1..Len(files) |-> DiffEvent(t, files[Len(files) + 1 - i])]

----------------------------------------------------------------------------
\* numfiles and numpeers are the lengths of the lists they count.
Counted(t) ==
  /\ t.numfiles = Cardinality(Present(t))
  /\ \A n \in Present(t) : t.entry[n].numpeers = Cardinality(t.entry[n].peers)

\* No file lists two holders behind one ip.
OneHolderPerIp(t) ==
  \A n \in Present(t) : \A a, b \in t.entry[n].peers : a[1] = b[1] => a = b
=============================================================================
