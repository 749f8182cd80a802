-------------------------- MODULE FileTableLemmas --------------------------
(***************************************************************************)
(* What each operation of the file table leaves behind, for every table,   *)
(* file and address: the facts the invariance proofs of TableMachine and   *)
(* Tracker cite.                                                           *)
(***************************************************************************)
EXTENDS FileTable, FiniteSetTheorems, TLAPS

\* What every entry and every table the program builds satisfies.
GoodEntry(e) == /\ e \in Entry
                /\ e.numpeers = Cardinality(e.peers)
                /\ \A a, b \in e.peers : a[1] = b[1] => a = b

GoodTable(t) == IsTable(t) /\ Counted(t) /\ OneHolderPerIp(t)

\* The list of holders of an entry is finite: there are finitely many addresses.
LEMMA FinitePeers ==
  ASSUME NEW e \in Entry
  PROVE  IsFiniteSet(e.peers)
<1>1. e.peers \in SUBSET Addrs
  BY DEF Entry
<1>. QED
  BY <1>1, FS_Subset, DataAssumption

\* The set of names present is finite.
LEMMA FinitePresent ==
  ASSUME NEW t, IsTable(t)
  PROVE  IsFiniteSet(Present(t))
<1>1. Present(t) \in SUBSET Names
  BY DEF IsTable, Present
<1>. QED
  BY <1>1, FS_Subset, NamesAssumption

\* A good table is one whose entries are good and whose numfiles counts them.
LEMMA GoodTableIs ==
  ASSUME NEW t, t = [entry |-> t.entry, numfiles |-> t.numfiles],
         Present(t) \subseteq Names, t.numfiles \in Int,
         t.entry \in [Present(t) -> Entry]
  PROVE  GoodTable(t) <=> /\ t.numfiles = Cardinality(Present(t))
                          /\ \A n \in Present(t) : GoodEntry(t.entry[n])
BY DEF GoodTable, GoodEntry, IsTable, Counted, OneHolderPerIp, Present

\* The entries of a good table are good.
LEMMA GoodEntries ==
  ASSUME NEW t, GoodTable(t), NEW n \in Present(t)
  PROVE  GoodEntry(t.entry[n])
BY GoodTableIs DEF GoodTable, IsTable, Present

\* filetable_init: the empty table is a good table.
LEMMA EmptyTableGood == GoodTable(EmptyTable)
<1>1. DOMAIN EmptyTable.entry = {}
  BY DEF EmptyTable
<1>2. IsTable(EmptyTable)
  BY <1>1 DEF EmptyTable, IsTable
<1>3. Counted(EmptyTable)
  BY <1>1, FS_EmptySet DEF EmptyTable, Counted, Present
<1>4. OneHolderPerIp(EmptyTable)
  BY <1>1 DEF OneHolderPerIp, Present
<1>. QED
  BY <1>2, <1>3, <1>4 DEF GoodTable

\* Storing a good entry leaves a good table: a new name is counted, an old one
\* is not counted twice.
LEMMA WithEntryGood ==
  ASSUME NEW t, GoodTable(t), NEW n \in Names, NEW e, GoodEntry(e)
  PROVE  /\ GoodTable(WithEntry(t, n, e))
         /\ Present(WithEntry(t, n, e)) = Present(t) \cup {n}
         /\ \A m \in Present(t) \cup {n} :
              WithEntry(t, n, e).entry[m] = IF m = n THEN e ELSE t.entry[m]
<1>. DEFINE u == WithEntry(t, n, e)
<1>1. /\ u = [entry |-> u.entry, numfiles |-> u.numfiles]
      /\ u.entry = [m \in Present(t) \cup {n} |-> IF m = n THEN e ELSE t.entry[m]]
      /\ u.numfiles = IF n \in Present(t) THEN t.numfiles ELSE t.numfiles + 1
  BY DEF WithEntry
<1>. HIDE DEF u
<1>2. Present(u) = Present(t) \cup {n}
  BY <1>1 DEF Present
<1>3. \A m \in Present(u) : GoodEntry(u.entry[m])
  BY <1>1, <1>2, GoodEntries
<1>4. u.entry \in [Present(u) -> Entry]
  BY <1>1, <1>2, <1>3 DEF GoodEntry
<1>5. Present(u) \subseteq Names /\ u.numfiles \in Int
  BY <1>1, <1>2 DEF GoodTable, IsTable, Present
<1>6. u.numfiles = Cardinality(Present(u))
  BY <1>1, <1>2, FinitePresent, FS_AddElement DEF GoodTable, Counted
<1>7. GoodTable(u)
  BY <1>1, <1>3, <1>4, <1>5, <1>6, GoodTableIs
<1>. QED
  BY <1>1, <1>2, <1>7 DEF u

\* A fresh version of a file, held by its sender, is a good entry.
LEMMA SoleHolderGood ==
  ASSUME NEW f \in FileInfo, NEW dir \in BOOLEAN, NEW a \in Addrs
  PROVE  GoodEntry(SoleHolder(f, dir, a))
<1>. DEFINE e == SoleHolder(f, dir, a)
<1>1. e \in Entry /\ e.peers = {a} /\ e.numpeers = 1
  BY DEF SoleHolder, Entry, FileInfo
<1>. HIDE DEF e
<1>2. GoodEntry(e)
  BY <1>1, FS_Singleton DEF GoodEntry
<1>. QED
  BY <1>2 DEF e

\* filetable_updateMod keeps the table good, and the names in it.
LEMMA UpdateModGood ==
  ASSUME NEW t, GoodTable(t), NEW f \in FileInfo, NEW a \in Addrs
  PROVE  /\ GoodTable(UpdateMod(t, f, a))
         /\ Present(UpdateMod(t, f, a)) = Present(t)
<1>1. CASE f.name \notin Present(t)
  BY <1>1 DEF UpdateMod
<1>2. CASE f.name \in Present(t)
  <2>1. t.entry[f.name].dir \in BOOLEAN /\ f.name \in Names
    BY <1>2, GoodEntries DEF GoodEntry, Entry, FileInfo
  <2>2. GoodEntry(SoleHolder(f, t.entry[f.name].dir, a))
    BY <2>1, SoleHolderGood
  <2>3. Present(t) \cup {f.name} = Present(t)
    BY <1>2
  <2>4. /\ GoodTable(WithEntry(t, f.name, SoleHolder(f, t.entry[f.name].dir, a)))
        /\ Present(WithEntry(t, f.name, SoleHolder(f, t.entry[f.name].dir, a)))
             = Present(t) \cup {f.name}
    BY <2>1, <2>2, WithEntryGood
  <2>. QED
    BY <1>2, <2>3, <2>4 DEF UpdateMod
<1>. QED
  BY <1>1, <1>2

\* filetable_insert keeps the table good, and the names in it.
LEMMA InsertGood ==
  ASSUME NEW t, GoodTable(t), NEW f \in FileInfo, NEW a \in Addrs
  PROVE  /\ GoodTable(Insert(t, f, a))
         /\ Present(t) \subseteq Present(Insert(t, f, a))
<1>1. CASE f.name \in DotNames
  BY <1>1 DEF Insert
<1>2. Sized(f) \in FileInfo
  BY DataAssumption DEF FileInfo, Sized
<1>3. CASE f.name \notin DotNames /\ f.name \in Present(t)
  BY <1>2, <1>3, UpdateModGood DEF Insert
<1>4. CASE f.name \notin DotNames /\ f.name \notin Present(t)
  <2>1. f.dir \in BOOLEAN /\ f.name \in Names
    BY DEF FileInfo
  <2>2. GoodEntry(SoleHolder(Sized(f), f.dir, a))
    BY <1>2, <2>1, SoleHolderGood
  <2>. QED
    BY <1>4, <2>1, <2>2, WithEntryGood DEF Insert
<1>. QED
  BY <1>1, <1>3, <1>4

\* A holder with an ip the list does not have is counted once.
LEMMA JoinedGood ==
  ASSUME NEW e, GoodEntry(e), NEW a \in Addrs, ~HasIp(e, a)
  PROVE  GoodEntry(Joined(e, a))
<1>1. e \in Entry
  BY DEF GoodEntry
<1>2. /\ Joined(e, a) \in Entry
      /\ Joined(e, a).peers = e.peers \cup {a}
      /\ Joined(e, a).numpeers = e.numpeers + 1
  <2>1. e.peers \cup {a} \in SUBSET Addrs
    BY <1>1 DEF Entry
  <2>2. e.numpeers + 1 \in Int
    BY <1>1 DEF Entry
  <2>. QED
    BY <1>1, <2>1, <2>2 DEF Joined, WithPeers, Entry
<1>3. a \notin e.peers
  BY DEF HasIp
<1>4. Cardinality(e.peers \cup {a}) = Cardinality(e.peers) + 1
  BY <1>1, <1>3, FinitePeers, FS_AddElement
<1>5. \A b, c \in e.peers \cup {a} : b[1] = c[1] => b = c
  BY DEF GoodEntry, HasIp
<1>. QED
  BY <1>2, <1>4, <1>5 DEF GoodEntry

\* filetable_addPeer keeps the table good: the new holder is counted and shares
\* its ip with no other holder.
LEMMA AddPeerGood ==
  ASSUME NEW t, GoodTable(t), NEW f \in FileInfo, NEW a \in Addrs
  PROVE  /\ GoodTable(AddPeer(t, f, a))
         /\ Present(AddPeer(t, f, a)) = Present(t)
<1>. DEFINE e == Joined(t.entry[f.name], a)
<1>1. CASE f.name \notin Present(t) \/ t.entry[f.name].size # f.size \/ HasIp(t.entry[f.name], a)
  BY <1>1 DEF AddPeer
<1>2. CASE ~(f.name \notin Present(t) \/ t.entry[f.name].size # f.size \/ HasIp(t.entry[f.name], a))
  <2>1. GoodEntry(e)
    BY <1>2, GoodEntries, JoinedGood
  <2>2. f.name \in Names
    BY DEF FileInfo
  <2>. HIDE DEF e
  <2>3. /\ GoodTable(WithEntry(t, f.name, e))
        /\ Present(WithEntry(t, f.name, e)) = Present(t) \cup {f.name}
    BY <2>1, <2>2, WithEntryGood
  <2>4. AddPeer(t, f, a) = WithEntry(t, f.name, e)
    BY <1>2 DEF AddPeer, e
  <2>. QED
    BY <1>2, <2>3, <2>4
<1>. QED
  BY <1>1, <1>2

\* A holder that leaves a list is taken off its count.
LEMMA EntryRemovePeerGood ==
  ASSUME NEW e, GoodEntry(e), NEW a
  PROVE  /\ GoodEntry(EntryRemovePeer(e, a))
         /\ EntryRemovePeer(e, a).peers = e.peers \ {a}
<1>1. e \in Entry
  BY DEF GoodEntry
<1>2. CASE a \notin e.peers
  BY <1>2 DEF EntryRemovePeer
<1>3. CASE a \in e.peers
  <2>1. e.peers \ {a} \in SUBSET Addrs /\ e.numpeers - 1 \in Int
    BY <1>1 DEF Entry
  <2>2. /\ EntryRemovePeer(e, a) \in Entry
        /\ EntryRemovePeer(e, a).peers = e.peers \ {a}
        /\ EntryRemovePeer(e, a).numpeers = e.numpeers - 1
    BY <1>1, <1>3, <2>1 DEF EntryRemovePeer, WithPeers, Entry
  <2>3. Cardinality(e.peers \ {a}) = Cardinality(e.peers) - 1
    BY <1>1, <1>3, FinitePeers, FS_RemoveElement
  <2>. QED
    BY <2>2, <2>3 DEF GoodEntry
<1>. QED
  BY <1>2, <1>3

\* filetable_removePeerAll keeps the table good and leaves the address nowhere.
LEMMA RemovePeerAllGood ==
  ASSUME NEW t, GoodTable(t), NEW a
  PROVE  /\ GoodTable(RemovePeerAll(t, a))
         /\ Present(RemovePeerAll(t, a)) = Present(t)
         /\ \A n \in Present(t) :
              RemovePeerAll(t, a).entry[n] = EntryRemovePeer(t.entry[n], a)
<1>. DEFINE u == RemovePeerAll(t, a)
<1>1. /\ u = [entry |-> u.entry, numfiles |-> u.numfiles]
      /\ u.entry = [n \in Present(t) |-> EntryRemovePeer(t.entry[n], a)]
      /\ u.numfiles = t.numfiles
  BY DEF RemovePeerAll
<1>. HIDE DEF u
<1>2. Present(u) = Present(t)
  BY <1>1 DEF Present
<1>3. \A n \in Present(u) : GoodEntry(u.entry[n])
  BY <1>1, <1>2, GoodEntries, EntryRemovePeerGood
<1>4. u.entry \in [Present(u) -> Entry]
  BY <1>1, <1>2, <1>3 DEF GoodEntry
<1>5. /\ Present(u) \subseteq Names /\ u.numfiles \in Int
      /\ u.numfiles = Cardinality(Present(u))
  BY <1>1, <1>2 DEF GoodTable, IsTable, Counted, Present
<1>6. GoodTable(u)
  BY <1>1, <1>3, <1>4, <1>5, GoodTableIs
<1>. QED
  BY <1>1, <1>2, <1>6 DEF u

\* filetable_remove removes entries that are there, whatever the loop over a
\* directory's entries reads from freed memory.
LEMMA RemovedSetsPresent ==
  ASSUME NEW t, NEW d, NEW gone \in RemovedSets(t, d)
  PROVE  gone \subseteq Present(t)
<1>1. CASE d \notin Present(t)
  BY <1>1 DEF RemovedSets
<1>2. CASE d \in Present(t) /\ ~t.entry[d].dir
  BY <1>2 DEF RemovedSets
<1>3. CASE d \in Present(t) /\ t.entry[d].dir
  BY <1>3 DEF RemovedSets, Doomed
<1>. QED
  BY <1>1, <1>2, <1>3

\* Removing entries that are there keeps the table good: numfiles goes down by as
\* many as leave the list.
LEMMA WithoutGood ==
  ASSUME NEW t, GoodTable(t), NEW gone \in SUBSET Present(t)
  PROVE  /\ GoodTable(Without(t, gone))
         /\ Present(Without(t, gone)) = Present(t) \ gone
         /\ \A n \in Present(t) \ gone : Without(t, gone).entry[n] = t.entry[n]
<1>. DEFINE u == Without(t, gone)
<1>1. /\ u = [entry |-> u.entry, numfiles |-> u.numfiles]
      /\ u.entry = [n \in Present(t) \ gone |-> t.entry[n]]
      /\ u.numfiles = t.numfiles - Cardinality(gone)
  BY DEF Without
<1>. HIDE DEF u
<1>2. Present(u) = Present(t) \ gone
  BY <1>1 DEF Present
<1>3. \A n \in Present(u) : GoodEntry(u.entry[n])
  BY <1>1, <1>2, GoodEntries
<1>4. u.entry \in [Present(u) -> Entry]
  BY <1>1, <1>2, <1>3 DEF GoodEntry
<1>5. IsFiniteSet(Present(t)) /\ IsFiniteSet(gone)
  BY FinitePresent, FS_Subset DEF GoodTable
<1>6. /\ Cardinality(Present(t) \ gone) = Cardinality(Present(t)) - Cardinality(gone)
      /\ Cardinality(gone) \in Nat
  <2>1. Present(t) \cap gone = gone
    OBVIOUS
  <2>. QED
    BY <1>5, <2>1, FS_Difference, FS_CardinalityType
<1>7. /\ Present(u) \subseteq Names /\ u.numfiles \in Int
      /\ u.numfiles = Cardinality(Present(u))
  BY <1>1, <1>2, <1>6 DEF GoodTable, IsTable, Counted, Present
<1>8. GoodTable(u)
  BY <1>1, <1>3, <1>4, <1>7, GoodTableIs
<1>. QED
  BY <1>1, <1>2, <1>8 DEF u

\* A directory that is no directory any more is as good an entry.
LEMMA UnmarkedGood ==
  ASSUME NEW t, GoodTable(t), NEW dirs
  PROVE  GoodTable(Unmarked(t, dirs)) /\ Present(Unmarked(t, dirs)) = Present(t)
<1>. DEFINE u == Unmarked(t, dirs)
            plain(n) == IF n \in dirs THEN [t.entry[n] EXCEPT !.dir = FALSE] ELSE t.entry[n]
<1>1. /\ u = [entry |-> u.entry, numfiles |-> u.numfiles]
      /\ u.entry = [n \in Present(t) |-> plain(n)] /\ u.numfiles = t.numfiles
  BY DEF Unmarked
<1>2. ASSUME NEW n \in Present(t) PROVE GoodEntry(plain(n))
  <2>1. GoodEntry(t.entry[n])
    BY <1>2, GoodEntries
  <2>2. GoodEntry([t.entry[n] EXCEPT !.dir = FALSE])
    <3>1. PICK e : e = t.entry[n]
      OBVIOUS
    <3>2. PICK v : v = [e EXCEPT !.dir = FALSE]
      OBVIOUS
    <3>3. v \in Entry /\ v.peers = e.peers /\ v.numpeers = e.numpeers
      BY <2>1, <3>1, <3>2 DEF GoodEntry, Entry
    <3>. QED
      BY <2>1, <3>1, <3>2, <3>3 DEF GoodEntry
  <2>. QED
    BY <2>1, <2>2
<1>. HIDE DEF u, plain
<1>3. Present(u) = Present(t)
  BY <1>1 DEF Present
<1>4. \A n \in Present(u) : GoodEntry(u.entry[n])
  BY <1>1, <1>2, <1>3
<1>5. u.entry \in [Present(u) -> Entry]
  BY <1>1, <1>3, <1>4 DEF GoodEntry
<1>6. /\ Present(u) \subseteq Names /\ u.numfiles \in Int
      /\ u.numfiles = Cardinality(Present(u))
  BY <1>1, <1>3 DEF GoodTable, IsTable, Counted, Present
<1>7. GoodTable(u)
  BY <1>1, <1>4, <1>5, <1>6, GoodTableIs
<1>. QED
  BY <1>3, <1>7 DEF u

\* A removal that is cut short leaves a good table.
LEMMA CutShortGood ==
  ASSUME NEW t, GoodTable(t), NEW d, NEW u \in RemovalsCutShort(t, d)
  PROVE  GoodTable(u) /\ Present(u) \subseteq Present(t)
<1>1. PICK dirs, gone : gone \subseteq Present(t) /\ u = Without(Unmarked(t, dirs), gone)
  <2>1. PICK x, inside : u = Without(Unmarked(t, {d} \cup inside), GoneBefore(t, d, x, inside))
    BY DEF RemovalsCutShort
  <2>2. GoneBefore(t, d, x, inside) \subseteq Present(t)
    BY DEF GoneBefore, Doomed
  <2>. QED
    BY <2>1, <2>2
<1>. QED
  BY <1>1, UnmarkedGood, WithoutGood

\* One round of the loop of filetable_eventMerge keeps the table good, whatever
\* the event.
LEMMA AppliedGood ==
  ASSUME NEW t, GoodTable(t), NEW e \in FileEvent, NEW a \in Addrs,
         NEW u \in Applied(t, e, a)
  PROVE  GoodTable(u)
<1>1. e.file \in FileInfo /\ e.action \in Actions
  BY DEF FileEvent
<1>2. CASE e.action = "FILE_MODIFIED"
  BY <1>1, <1>2, UpdateModGood DEF Applied
<1>3. CASE e.action = "FILE_CREATED"
  BY <1>1, <1>3, InsertGood DEF Applied
<1>4. CASE e.action = "FILE_DELETED"
  <2>1. PICK gone \in RemovedSets(t, e.file.name) : u = Without(t, gone)
    BY <1>4 DEF Applied, RemoveResults
  <2>. QED
    BY <2>1, RemovedSetsPresent, WithoutGood
<1>5. CASE e.action = "DOWNLOAD_COMPLETE"
  BY <1>1, <1>5, AddPeerGood DEF Applied
<1>6. CASE e.action = "NONE"
  BY <1>6 DEF Applied
<1>. QED
  BY <1>1, <1>2, <1>3, <1>4, <1>5, <1>6 DEF Actions

\* The addresses a table lists.
Listing(t) == UNION { t.entry[n].peers : n \in Present(t) }

\* Storing an entry adds its holders at most.
LEMMA WithEntryListing ==
  ASSUME NEW t, NEW n, NEW e
  PROVE  Listing(WithEntry(t, n, e)) \subseteq Listing(t) \cup e.peers
BY DEF Listing, WithEntry, Present

\* One round of the loop of filetable_eventMerge lists nobody anew but the sender
\* of the event.
LEMMA AppliedListing ==
  ASSUME NEW t, NEW e \in FileEvent, NEW a, NEW u \in Applied(t, e, a)
  PROVE  Listing(u) \subseteq Listing(t) \cup {a}
<1>1. ASSUME NEW f PROVE Listing(UpdateMod(t, f, a)) \subseteq Listing(t) \cup {a}
  <2>1. \A dir : SoleHolder(f, dir, a).peers = {a}
    BY DEF SoleHolder
  <2>. QED
    BY <2>1, WithEntryListing DEF UpdateMod
<1>2. CASE e.action = "FILE_MODIFIED"
  BY <1>1, <1>2 DEF Applied
<1>3. CASE e.action = "FILE_CREATED"
  <2>1. \A f, dir : SoleHolder(f, dir, a).peers = {a}
    BY DEF SoleHolder
  <2>. QED
    BY <1>1, <1>3, <2>1, WithEntryListing DEF Applied, Insert
<1>4. CASE e.action = "FILE_DELETED"
  <2>1. PICK gone : u = Without(t, gone)
    BY <1>4 DEF Applied, RemoveResults
  <2>. QED
    BY <2>1 DEF Without, Listing, Present
<1>5. CASE e.action = "DOWNLOAD_COMPLETE"
  <2>. DEFINE n == e.file.name
  <2>1. n \in Present(t) => t.entry[n].peers \subseteq Listing(t)
    BY DEF Listing
  <2>2. Joined(t.entry[n], a).peers = t.entry[n].peers \cup {a}
    BY DEF Joined, WithPeers
  <2>. QED
    BY <1>5, <2>1, <2>2, WithEntryListing DEF Applied, AddPeer
<1>6. CASE e.action = "NONE"
  BY <1>6 DEF Applied
<1>. QED
  BY <1>2, <1>3, <1>4, <1>5, <1>6 DEF FileEvent, Actions

\* A removal that is cut short lists nobody anew.
LEMMA CutShortListing ==
  ASSUME NEW t, GoodTable(t), NEW d, NEW u \in RemovalsCutShort(t, d)
  PROVE  Listing(u) \subseteq Listing(t)
<1>1. PICK dirs, gone : u = Without(Unmarked(t, dirs), gone)
  BY DEF RemovalsCutShort
<1>2. Present(Unmarked(t, dirs)) = Present(t)
  BY DEF Unmarked, Present
<1>3. \A n \in Present(t) : Unmarked(t, dirs).entry[n].peers = t.entry[n].peers
  BY GoodEntries DEF Unmarked, GoodEntry, Entry
<1>4. Listing(u) \subseteq Listing(Unmarked(t, dirs))
  BY <1>1 DEF Without, Listing, Present
<1>. QED
  BY <1>2, <1>3, <1>4 DEF Listing

\* filetable_removePeerAll takes the address off every list, and no other.
LEMMA RemovePeerAllListing ==
  ASSUME NEW t, GoodTable(t), NEW a
  PROVE  Listing(RemovePeerAll(t, a)) = Listing(t) \ {a}
<1>1. \A n \in Present(t) : EntryRemovePeer(t.entry[n], a).peers = t.entry[n].peers \ {a}
  BY GoodEntries, EntryRemovePeerGood
<1>. QED
  BY <1>1, RemovePeerAllGood DEF Listing

\* filetable_fileDiff makes one well-formed event of each file.
LEMMA FileDiffType ==
  ASSUME NEW t, NEW files \in Seq(FileInfo)
  PROVE  FileDiff(t, files) \in Seq(FileEvent)
<1>1. \A f \in FileInfo : DiffEvent(t, f) \in FileEvent
  BY DEF DiffEvent, FileEvent, Actions
<1>2. Len(files) \in Nat /\ \A i \in 1..Len(files) : files[Len(files) + 1 - i] \in FileInfo
  OBVIOUS
<1>. QED
  BY <1>1, <1>2 DEF FileDiff
=============================================================================
