------------------------- MODULE TableMachineProofs -------------------------
(***************************************************************************)
(* For every set of paths, addresses, registrations and updates: the table *)
(* is always well formed, its counters are the lengths of its lists, no    *)
(* file lists one ip twice, a registration never takes anything back, and   *)
(* it leaves the union of the table and the files that were registered.    *)
(***************************************************************************)
EXTENDS TableChecks, FileTableLemmas

\* The inductive invariant: a good table, and pending events to be applied on
\* behalf of a real address.
IInv == /\ GoodTable(table)
        /\ work \in Seq(FileEvent)
        /\ owner \in Addrs \cup {NoAddr}
        /\ mode \in Modes
        /\ work # <<>> => owner \in Addrs
        /\ mode = "REGISTER" => \A i \in DOMAIN work : work[i].action # "FILE_DELETED"

\* What is left of a list of events is again a list of events.
LEMMA TailFacts ==
  ASSUME NEW s \in Seq(FileEvent), s # <<>>
  PROVE  /\ Head(s) \in FileEvent /\ Head(s) = s[1]
         /\ Tail(s) \in Seq(FileEvent)
         /\ 1 \in DOMAIN s
         /\ \A i \in DOMAIN Tail(s) : i + 1 \in DOMAIN s /\ Tail(s)[i] = s[i + 1]
OBVIOUS

\* filetable_fileDiff never asks for a deletion.
LEMMA FileDiffDeletesNothing ==
  ASSUME NEW t, NEW files \in Seq(FileInfo)
  PROVE  \A i \in DOMAIN FileDiff(t, files) : FileDiff(t, files)[i].action # "FILE_DELETED"
<1>1. \A f : DiffEvent(t, f).action # "FILE_DELETED"
  BY DEF DiffEvent
<1>. QED
  BY <1>1 DEF FileDiff

LEMMA InitInv == Init => IInv
BY EmptyTableGood DEF Init, IInv, Modes, NoAddr

LEMMA RegisterInv ==
  ASSUME IInv, NEW a \in Addrs, NEW files \in FileLists, Register(a, files)
  PROVE  IInv'
<1>1. files \in Seq(FileInfo)
  BY ListsAssumption
<1>2. work' \in Seq(FileEvent)
  BY <1>1, FileDiffType DEF Register, Continue
<1>3. \A i \in DOMAIN work' : work'[i].action # "FILE_DELETED"
  BY <1>1, FileDiffDeletesNothing DEF Register, Continue
<1>. QED
  BY <1>2, <1>3 DEF IInv, Register, Continue, Modes

LEMMA UpdateInv ==
  ASSUME IInv, NEW a \in Addrs, NEW events \in EventLists, Update(a, events)
  PROVE  IInv'
<1>1. events \in Seq(FileEvent)
  BY ListsAssumption
<1>. QED
  BY <1>1 DEF IInv, Update, Continue, Modes

LEMMA ApplyNextInv ==
  ASSUME IInv, ApplyNext
  PROVE  IInv'
<1>1. work \in Seq(FileEvent) /\ work # <<>> /\ owner \in Addrs
  BY DEF IInv, ApplyNext
<1>2. GoodTable(table')
  BY <1>1, TailFacts, AppliedGood DEF IInv, ApplyNext
<1>3. work' = Tail(work) /\ work' \in Seq(FileEvent)
  BY <1>1, TailFacts DEF ApplyNext, Continue
<1>4. mode' = "REGISTER" => \A i \in DOMAIN work' : work'[i].action # "FILE_DELETED"
  BY <1>1, <1>3, TailFacts DEF IInv, ApplyNext, Continue
<1>. QED
  BY <1>1, <1>2, <1>3, <1>4 DEF IInv, ApplyNext, Continue, Modes

LEMMA AbandonInv ==
  ASSUME IInv, Abandon
  PROVE  IInv'
<1>1. GoodTable(table')
  BY CutShortGood DEF IInv, Abandon
<1>. QED
  BY <1>1 DEF IInv, Abandon, Modes

\* Every step of the machine keeps the invariant.
LEMMA NextInv == IInv /\ [Next]_vars => IInv'
<1>. SUFFICES ASSUME IInv, [Next]_vars PROVE IInv'
  OBVIOUS
<1>1. ASSUME NEW a \in Addrs, NEW files \in FileLists, Register(a, files) PROVE IInv'
  BY <1>1, RegisterInv
<1>2. ASSUME NEW a \in Addrs, NEW events \in EventLists, Update(a, events) PROVE IInv'
  BY <1>2, UpdateInv
<1>3. CASE ApplyNext
  BY <1>3, ApplyNextInv
<1>4. ASSUME NEW a \in Addrs, Leave(a) PROVE IInv'
  BY <1>4, RemovePeerAllGood DEF IInv, Leave
<1>5. CASE Reset
  BY <1>5, EmptyTableGood DEF IInv, Reset, Modes
<1>6. CASE UNCHANGED vars
  BY <1>6 DEF vars, IInv
<1>7. CASE Abandon
  BY <1>7, AbandonInv
<1>. QED
  BY <1>1, <1>2, <1>3, <1>4, <1>5, <1>6, <1>7 DEF Next

THEOREM Invariance == Spec => []IInv
BY InitInv, NextInv, PTL DEF Spec

\* Every value the table takes has the type the program gives it.
THEOREM TypeCorrect == Spec => []TypeOK
<1>1. IInv => TypeOK
  BY DEF IInv, TypeOK, GoodTable
<1>. QED
  BY <1>1, Invariance, PTL

\* numfiles and numpeers, which frame a table on the wire, always are the lengths
\* of the lists filetable_send walks.
THEOREM CountsAlwaysMatch == Spec => []CountsMatchLists
<1>1. IInv => CountsMatchLists
  BY DEF IInv, GoodTable, CountsMatchLists
<1>. QED
  BY <1>1, Invariance, PTL

\* The two comparisons of a holder (ip alone in filetable_addPeer, ip and port in
\* filetable_entryRemovePeer) agree: no list holds one ip twice.
THEOREM HoldersAlwaysDistinct == Spec => []HoldersHaveDistinctIps
<1>1. IInv => HoldersHaveDistinctIps
  BY DEF IInv, GoodTable, HoldersHaveDistinctIps
<1>. QED
  BY <1>1, Invariance, PTL

----------------------------------------------------------------------------
\* What a pending event of a registration still says of the table: a file to
\* create is not there (or is a dot file), one to modify is there in a version
\* that is not newer.
StillDue(t, e) ==
  /\ e.action # "FILE_DELETED"
  /\ e.action = "FILE_CREATED" => e.file.name \in DotNames \/ e.file.name \notin Present(t)
  /\ e.action = "FILE_MODIFIED" => /\ e.file.name \in Present(t)
                                   /\ t.entry[e.file.name].mtime <= e.file.mtime

\* Every pending event of a registration is still due, and no two are about one
\* file, so that applying one does not invalidate the others.
DueInv ==
  mode = "REGISTER" =>
    /\ \A i \in DOMAIN work : StillDue(table, work[i])
    /\ \A i, j \in DOMAIN work : work[i].file.name = work[j].file.name => i = j

\* An event changes the entry of its own file only.
LEMMA AppliedFrame ==
  ASSUME NEW t, GoodTable(t), NEW e \in FileEvent, NEW a \in Addrs,
         NEW u \in Applied(t, e, a), e.action # "FILE_DELETED"
  PROVE  /\ Present(t) \subseteq Present(u)
         /\ Present(u) \subseteq Present(t) \cup {e.file.name}
         /\ \A m \in Present(t) : m # e.file.name => u.entry[m] = t.entry[m]
<1>1. ASSUME NEW x
      PROVE LET w == WithEntry(t, e.file.name, x)
            IN /\ Present(w) = Present(t) \cup {e.file.name}
               /\ \A m \in Present(t) : m # e.file.name => w.entry[m] = t.entry[m]
  BY DEF WithEntry, Present
<1>2. ASSUME NEW f, f.name = e.file.name
      PROVE LET w == UpdateMod(t, f, a)
            IN /\ Present(w) = Present(t)
               /\ \A m \in Present(t) : m # e.file.name => w.entry[m] = t.entry[m]
  <2>1. CASE f.name \notin Present(t)
    BY <2>1 DEF UpdateMod
  <2>2. CASE f.name \in Present(t)
    BY <1>1, <1>2, <2>2 DEF UpdateMod
  <2>. QED
    BY <2>1, <2>2
<1>3. CASE e.action = "FILE_MODIFIED"
  BY <1>2, <1>3 DEF Applied
<1>4. CASE e.action = "FILE_CREATED"
  <2>1. Sized(e.file).name = e.file.name
    BY DEF Sized, FileEvent, FileInfo
  <2>2. u = Insert(t, e.file, a)
    BY <1>4 DEF Applied
  <2>3. CASE e.file.name \in DotNames
    BY <2>2, <2>3 DEF Insert
  <2>4. CASE e.file.name \notin DotNames /\ e.file.name \in Present(t)
    BY <1>2, <2>1, <2>2, <2>4 DEF Insert
  <2>5. CASE e.file.name \notin DotNames /\ e.file.name \notin Present(t)
    BY <1>1, <2>2, <2>5 DEF Insert
  <2>. QED
    BY <2>3, <2>4, <2>5
<1>5. CASE e.action = "DOWNLOAD_COMPLETE"
  <2>1. u = AddPeer(t, e.file, a)
    BY <1>5 DEF Applied
  <2>2. CASE u = t
    BY <2>2
  <2>3. CASE /\ e.file.name \in Present(t)
             /\ u = WithEntry(t, e.file.name, Joined(t.entry[e.file.name], a))
    BY <1>1, <2>3
  <2>. QED
    BY <2>1, <2>2, <2>3 DEF AddPeer
<1>6. CASE e.action = "NONE"
  BY <1>6 DEF Applied
<1>. QED
  BY <1>3, <1>4, <1>5, <1>6 DEF FileEvent, Actions

\* An event that is still due takes its own file to no older version.
LEMMA AppliedNewer ==
  ASSUME NEW t, GoodTable(t), NEW e \in FileEvent, NEW a \in Addrs,
         NEW u \in Applied(t, e, a), StillDue(t, e), e.file.name \in Present(t)
  PROVE  u.entry[e.file.name].mtime >= t.entry[e.file.name].mtime
<1>. DEFINE n == e.file.name
<1>1. t.entry[n].mtime \in Nat /\ e.file.mtime \in Nat
  BY GoodEntries, DataAssumption DEF GoodEntry, Entry, FileEvent, FileInfo
<1>2. ASSUME NEW x PROVE WithEntry(t, n, x).entry[n] = x
  BY DEF WithEntry
<1>3. CASE e.action = "FILE_MODIFIED"
  <2>1. u = WithEntry(t, n, SoleHolder(e.file, t.entry[n].dir, a))
    BY <1>3 DEF Applied, UpdateMod
  <2>2. u.entry[n] = SoleHolder(e.file, t.entry[n].dir, a)
    BY <1>2, <2>1
  <2>3. u.entry[n].mtime = e.file.mtime
    BY <2>2 DEF SoleHolder
  <2>. QED
    BY <1>1, <1>3, <2>3 DEF StillDue
<1>4. CASE e.action = "FILE_CREATED"
  <2>1. u = t
    BY <1>4 DEF StillDue, Applied, Insert
  <2>. QED
    BY <1>1, <2>1
<1>5. CASE e.action = "DOWNLOAD_COMPLETE"
  <2>1. u = t \/ u = WithEntry(t, n, Joined(t.entry[n], a))
    BY <1>5 DEF Applied, AddPeer
  <2>2. u.entry[n].mtime = t.entry[n].mtime
    BY <1>2, <2>1 DEF Joined, WithPeers
  <2>. QED
    BY <1>1, <2>2
<1>6. CASE e.action = "NONE"
  BY <1>1, <1>6 DEF Applied
<1>. QED
  BY <1>3, <1>4, <1>5, <1>6 DEF StillDue, FileEvent, Actions

\* filetable_fileDiff makes events that are due, one for each file.
LEMMA FileDiffDue ==
  ASSUME NEW t, GoodTable(t), NEW files \in FileLists
  PROVE  /\ \A i \in DOMAIN FileDiff(t, files) : StillDue(t, FileDiff(t, files)[i])
         /\ \A i, j \in DOMAIN FileDiff(t, files) :
              FileDiff(t, files)[i].file.name = FileDiff(t, files)[j].file.name => i = j
<1>. DEFINE k(i) == Len(files) + 1 - i
            d == FileDiff(t, files)
<1>1. files \in Seq(FileInfo) /\ Len(files) \in Nat /\ DOMAIN files = 1..Len(files)
  BY ListsAssumption
<1>2. /\ DOMAIN d = 1..Len(files)
      /\ \A i \in DOMAIN d : d[i] = DiffEvent(t, files[k(i)])
  BY DEF FileDiff
<1>3. \A i \in DOMAIN d : k(i) \in DOMAIN files /\ files[k(i)] \in FileInfo
  BY <1>1, <1>2
<1>4. \A f \in FileInfo : StillDue(t, DiffEvent(t, f)) /\ DiffEvent(t, f).file = f
  <2>. SUFFICES ASSUME NEW f \in FileInfo
                PROVE  StillDue(t, DiffEvent(t, f)) /\ DiffEvent(t, f).file = f
    OBVIOUS
  <2>1. f.mtime \in Nat
    BY DataAssumption DEF FileInfo
  <2>2. f.name \in Present(t) => t.entry[f.name].mtime \in Nat
    BY GoodEntries, DataAssumption DEF GoodEntry, Entry
  <2>. QED
    BY <2>1, <2>2 DEF StillDue, DiffEvent
<1>5. \A i \in DOMAIN d : StillDue(t, d[i]) /\ d[i].file = files[k(i)]
  BY <1>2, <1>3, <1>4
<1>6. \A i, j \in DOMAIN d : d[i].file.name = d[j].file.name => k(i) = k(j)
  BY <1>3, <1>5, ListsAssumption
<1>. QED
  BY <1>1, <1>2, <1>5, <1>6

LEMMA NextDueInv == IInv /\ DueInv /\ [Next]_vars => DueInv'
<1>. SUFFICES ASSUME IInv, DueInv, [Next]_vars, mode' = "REGISTER"
              PROVE  /\ \A i \in DOMAIN work' : StillDue(table', work'[i])
                     /\ \A i, j \in DOMAIN work' :
                          work'[i].file.name = work'[j].file.name => i = j
  BY DEF DueInv
<1>1. ASSUME NEW a \in Addrs, NEW files \in FileLists, Register(a, files)
      PROVE  /\ \A i \in DOMAIN work' : StillDue(table', work'[i])
             /\ \A i, j \in DOMAIN work' : work'[i].file.name = work'[j].file.name => i = j
  BY <1>1, FileDiffDue DEF Register, Continue, IInv
<1>2. ASSUME NEW a \in Addrs, NEW events \in EventLists, Update(a, events) PROVE FALSE
  BY <1>2 DEF Update, Continue
<1>3. CASE ApplyNext
  <2>1. work \in Seq(FileEvent) /\ work # <<>> /\ mode = "REGISTER" /\ owner \in Addrs
    BY <1>3 DEF IInv, ApplyNext, Continue
  <2>2. work' = Tail(work)
    BY <1>3 DEF ApplyNext, Continue
  <2>3. /\ Head(work) = work[1] /\ 1 \in DOMAIN work /\ Head(work) \in FileEvent
        /\ \A i \in DOMAIN work' : i + 1 \in DOMAIN work /\ work'[i] = work[i + 1]
    BY <2>1, <2>2, TailFacts
  <2>4. \A i \in DOMAIN work' : i \in Nat /\ i + 1 # 1
    BY <2>1, <2>2
  <2>5. Head(work).action # "FILE_DELETED"
    BY <2>1, <2>3 DEF DueInv, StillDue
  <2>6. /\ Present(table) \subseteq Present(table')
        /\ Present(table') \subseteq Present(table) \cup {Head(work).file.name}
        /\ \A m \in Present(table) : m # Head(work).file.name
                                       => table'.entry[m] = table.entry[m]
    BY <1>3, <2>1, <2>3, <2>5, AppliedFrame DEF IInv, ApplyNext
  <2>7. ASSUME NEW i \in DOMAIN work' PROVE StillDue(table', work'[i])
    <3>1. StillDue(table, work[i + 1]) /\ work'[i] = work[i + 1]
      BY <2>1, <2>3 DEF DueInv
    <3>2. work[i + 1].file.name # Head(work).file.name
      BY <2>1, <2>3, <2>4 DEF DueInv
    <3>. QED
      BY <2>6, <3>1, <3>2 DEF StillDue
  <2>8. \A i, j \in DOMAIN work' : work'[i].file.name = work'[j].file.name => i = j
    <3>. SUFFICES ASSUME NEW i \in DOMAIN work', NEW j \in DOMAIN work',
                         work'[i].file.name = work'[j].file.name
                  PROVE  i = j
      OBVIOUS
    <3>1. i + 1 = j + 1
      BY <2>1, <2>3 DEF DueInv
    <3>. QED
      BY <2>4, <3>1
  <2>. QED
    BY <2>7, <2>8
<1>4. ASSUME NEW a \in Addrs, Leave(a) PROVE FALSE
  BY <1>4 DEF Leave
<1>5. CASE Reset
  BY <1>5 DEF Reset
<1>6. CASE UNCHANGED vars
  BY <1>6 DEF vars, DueInv, StillDue
<1>7. CASE Abandon
  BY <1>7 DEF Abandon
<1>. QED
  BY <1>1, <1>2, <1>3, <1>4, <1>5, <1>6, <1>7 DEF Next

\* A step of the machine while a registration is applied takes no file away and
\* none back.
LEMMA StepNeverRegresses ==
  ASSUME IInv, DueInv, [Next]_vars, mode = "REGISTER", NEW n \in Present(table)
  PROVE  n \in Present(table') /\ table'.entry[n].mtime >= table.entry[n].mtime
<1>1. table.entry[n].mtime \in Nat
  BY GoodEntries, DataAssumption DEF IInv, GoodEntry, Entry
<1>2. CASE ApplyNext
  <2>1. work \in Seq(FileEvent) /\ work # <<>> /\ owner \in Addrs
    BY <1>2 DEF IInv, ApplyNext
  <2>2. Head(work) \in FileEvent /\ StillDue(table, Head(work))
    BY <2>1, TailFacts DEF DueInv
  <2>3. /\ Present(table) \subseteq Present(table')
        /\ \A m \in Present(table) : m # Head(work).file.name
                                       => table'.entry[m] = table.entry[m]
    BY <1>2, <2>1, <2>2, AppliedFrame DEF IInv, ApplyNext, StillDue
  <2>4. CASE n = Head(work).file.name
    BY <1>2, <2>1, <2>2, <2>3, <2>4, AppliedNewer DEF IInv, ApplyNext
  <2>5. CASE n # Head(work).file.name
    BY <1>1, <2>3, <2>5
  <2>. QED
    BY <2>4, <2>5
<1>3. CASE UNCHANGED table
  BY <1>1, <1>3 DEF Present
<1>4. ~Abandon
  <2>. SUFFICES ASSUME work # <<>>, Head(work).action = "FILE_DELETED" PROVE FALSE
    BY DEF Abandon
  <2>1. Head(work) = work[1] /\ 1 \in DOMAIN work
    BY TailFacts DEF IInv
  <2>. QED
    BY <2>1 DEF IInv
<1>. QED
  BY <1>2, <1>3, <1>4 DEF Next, Register, Update, Leave, Reset, vars

\* A registration (filetable_merge) never removes a file and never takes one back
\* to an older version.
THEOREM RegistrationNeverRegresses == Spec => RegisterNeverRegresses
<1>1. Init => DueInv
  BY DEF Init, DueInv
<1>2. IInv /\ DueInv /\ [Next]_vars =>
        [mode = "REGISTER" =>
           \A n \in Present(table) : /\ n \in Present(table')
                                     /\ table'.entry[n].mtime >= table.entry[n].mtime]_vars
  BY StepNeverRegresses
<1>. QED
  BY <1>1, <1>2, Invariance, NextDueInv, PTL DEF Spec, RegisterNeverRegresses

----------------------------------------------------------------------------
\* The files of the registration whose events have been applied when `left` are
\* still to come: the events come in the reverse order of the files.
Merged(left) == { j \in DOMAIN given : j > left }

\* Table t has the last files of the registration merged into `before`, all but
\* the first `left`, for the peer at address o.
Merging(t, left, o) ==
  /\ Present(t) = Present(before) \cup ({ given[j].name : j \in Merged(left) } \ DotNames)
  /\ \A n \in Present(before) :
       (\A j \in Merged(left) : given[j].name # n) => t.entry[n] = before.entry[n]
  /\ \A j \in Merged(left) :
       given[j].name \notin DotNames => t.entry[given[j].name] = Newest(before, given[j], o)

\* The events still to apply are those of the first files, compared with the
\* table the registration began with.
Pending ==
  /\ Len(work) <= Len(given)
  /\ \A i \in DOMAIN work : work[i] = DiffEvent(before, given[Len(work) + 1 - i])

\* Half way through a registration the table is the union so far.
MergeInv ==
  /\ Present(table) \cap DotNames = {}
  /\ mode = "REGISTER" =>
       /\ GoodTable(before) /\ Present(before) \cap DotNames = {}
       /\ given \in FileLists
       /\ Pending
       /\ Merging(table, Len(work), owner)

\* No operation puts a dot file into the table.
LEMMA AppliedNoDots ==
  ASSUME NEW t, GoodTable(t), Present(t) \cap DotNames = {},
         NEW e \in FileEvent, NEW a \in Addrs, NEW u \in Applied(t, e, a)
  PROVE  Present(u) \cap DotNames = {}
<1>1. CASE e.action = "FILE_DELETED"
  <2>1. PICK gone \in RemovedSets(t, e.file.name) : u = Without(t, gone)
    BY <1>1 DEF Applied, RemoveResults
  <2>. QED
    BY <2>1 DEF Without, Present
<1>2. CASE e.action = "FILE_CREATED" /\ e.file.name \in DotNames
  BY <1>2 DEF Applied, Insert
<1>3. CASE e.action = "FILE_CREATED" /\ e.file.name \notin DotNames
  BY <1>3, AppliedFrame
<1>4. CASE e.action = "FILE_MODIFIED"
  BY <1>4 DEF Applied, UpdateMod, WithEntry, Present
<1>5. CASE e.action = "DOWNLOAD_COMPLETE"
  BY <1>5 DEF Applied, AddPeer, WithEntry, Present
<1>6. CASE e.action = "NONE"
  BY <1>6 DEF Applied
<1>. QED
  BY <1>1, <1>2, <1>3, <1>4, <1>5, <1>6 DEF FileEvent, Actions

\* The event made for a file, applied while its entry is as it was when the
\* comparison was made, leaves its newest version.
LEMMA AppliedNewest ==
  ASSUME NEW b, GoodTable(b), NEW t, NEW f \in FileInfo, f.name \notin DotNames,
         NEW a \in Addrs,
         f.name \in Present(t) <=> f.name \in Present(b),
         f.name \in Present(b) => t.entry[f.name] = b.entry[f.name],
         NEW u \in Applied(t, DiffEvent(b, f), a)
  PROVE  /\ Present(u) = Present(t) \cup {f.name}
         /\ u.entry[f.name] = Newest(b, f, a)
<1>. DEFINE n == f.name
            e == DiffEvent(b, f)
            old == b.entry[n]
<1>1. ASSUME NEW x
      PROVE Present(WithEntry(t, n, x)) = Present(t) \cup {n} /\ WithEntry(t, n, x).entry[n] = x
  BY DEF WithEntry, Present
<1>2. e.file = f
  BY DEF DiffEvent
<1>3. CASE n \notin Present(b)
  <2>1. e.action = "FILE_CREATED"
    BY <1>3 DEF DiffEvent
  <2>2. u = WithEntry(t, n, SoleHolder(Sized(f), f.dir, a))
    BY <1>2, <1>3, <2>1 DEF Applied, Insert
  <2>3. Sized(f).mtime = f.mtime
    BY DEF Sized, FileInfo
  <2>4. SoleHolder(Sized(f), f.dir, a) = Newest(b, f, a)
    BY <1>3, <2>3 DEF Newest, SoleHolder
  <2>. QED
    BY <1>1, <2>2, <2>4
<1>4. CASE n \in Present(b)
  <2>1. old \in Entry /\ t.entry[n] = old /\ n \in Present(t)
    BY <1>4, GoodEntries DEF GoodEntry
  <2>2. old.mtime \in Nat /\ f.mtime \in Nat
    BY <2>1, DataAssumption DEF Entry, FileInfo
  <2>3. CASE old.mtime < f.mtime
    <3>1. e.action = "FILE_MODIFIED"
      BY <1>4, <2>2, <2>3 DEF DiffEvent
    <3>2. u = WithEntry(t, n, SoleHolder(f, old.dir, a))
      BY <1>2, <2>1, <3>1 DEF Applied, UpdateMod
    <3>3. Newest(b, f, a) =
            [old EXCEPT !.mtime = f.mtime, !.size = f.size, !.peers = {a}, !.numpeers = 1]
      BY <1>4, <2>2, <2>3 DEF Newest
    <3>4. SoleHolder(f, old.dir, a) = Newest(b, f, a)
      BY <2>1, <3>3 DEF SoleHolder, Entry
    <3>. QED
      BY <1>1, <2>1, <3>2, <3>4
  <2>4. CASE old.mtime = f.mtime
    <3>1. e.action = "DOWNLOAD_COMPLETE"
      BY <1>4, <2>2, <2>4 DEF DiffEvent
    <3>2. u = AddPeer(t, f, a)
      BY <1>2, <3>1 DEF Applied
    <3>3. CASE old.size = f.size /\ ~HasIp(old, a)
      <4>1. u = WithEntry(t, n, Joined(old, a))
        BY <2>1, <3>2, <3>3 DEF AddPeer
      <4>2. Newest(b, f, a) = [old EXCEPT !.peers = old.peers \cup {a}, !.numpeers = old.numpeers + 1]
        BY <1>4, <2>2, <2>4, <3>3 DEF Newest, HasIp
      <4>3. Joined(old, a) = Newest(b, f, a)
        BY <2>1, <4>2 DEF Joined, WithPeers, Entry
      <4>. QED
        BY <1>1, <2>1, <4>1, <4>3
    <3>4. CASE old.size # f.size \/ HasIp(old, a)
      <4>1. u = t
        BY <2>1, <3>2, <3>4 DEF AddPeer
      <4>2. Newest(b, f, a) = old
        BY <1>4, <2>2, <2>4, <3>4 DEF Newest, HasIp
      <4>. QED
        BY <2>1, <4>1, <4>2
    <3>. QED
      BY <3>3, <3>4
  <2>5. CASE old.mtime > f.mtime
    <3>1. e.action = "NONE"
      BY <1>4, <2>2, <2>5 DEF DiffEvent
    <3>2. u = t
      BY <3>1 DEF Applied
    <3>3. Newest(b, f, a) = old
      BY <1>4, <2>2, <2>5 DEF Newest
    <3>. QED
      BY <2>1, <3>2, <3>3
  <2>. QED
    BY <2>2, <2>3, <2>4, <2>5
<1>. QED
  BY <1>3, <1>4

\* What Merging says of a registration without the file at the head of it.
LEMMA MergeOne ==
  ASSUME IInv, MergeInv, mode = "REGISTER", ApplyNext
  PROVE  Merging(table', Len(work) - 1, owner)
<1>. DEFINE k == Len(work)
            f == given[k]
<1>1. /\ work \in Seq(FileEvent) /\ work # <<>> /\ owner \in Addrs /\ GoodTable(table)
      /\ given \in Seq(FileInfo) /\ DOMAIN given = 1..Len(given) /\ Len(given) \in Nat
      /\ GoodTable(before) /\ Present(before) \cap DotNames = {}
  BY ListsAssumption DEF IInv, MergeInv, ApplyNext
<1>2. k \in Nat /\ k > 0 /\ k \in DOMAIN given /\ 1 \in DOMAIN work
  BY <1>1 DEF MergeInv, Pending
<1>3. f \in FileInfo
  BY <1>1, <1>2
<1>4. Head(work) = DiffEvent(before, f) /\ Head(work) \in FileEvent
  <2>1. Head(work) = work[1] /\ Head(work) \in FileEvent
    BY <1>1, TailFacts
  <2>2. work[1] = DiffEvent(before, given[k + 1 - 1]) /\ k + 1 - 1 = k
    BY <1>2 DEF MergeInv, Pending
  <2>. QED
    BY <2>1, <2>2
<1>5. Head(work).file = f /\ Head(work).action # "FILE_DELETED"
  BY <1>4 DEF DiffEvent
<1>6. Merged(k - 1) = Merged(k) \cup {k}
  BY <1>1, <1>2 DEF Merged
<1>7. \A j \in Merged(k) : j \in DOMAIN given /\ given[j].name # f.name
  BY <1>1, <1>2, ListsAssumption DEF Merged, MergeInv
<1>8. Merging(table, k, owner)
  BY DEF MergeInv
<1>9. CASE f.name \in DotNames
  <2>1. Head(work).action = "FILE_CREATED"
    BY <1>1, <1>4, <1>9 DEF DiffEvent
  <2>2. table' = table
    BY <1>5, <1>9, <2>1 DEF ApplyNext, Applied, Insert
  <2>. QED
    BY <1>6, <1>8, <1>9, <2>2 DEF Merging
<1>10. CASE f.name \notin DotNames
  <2>1. f.name \in Present(table) <=> f.name \in Present(before)
    BY <1>7, <1>8 DEF Merging
  <2>2. f.name \in Present(before) => table.entry[f.name] = before.entry[f.name]
    BY <1>7, <1>8 DEF Merging
  <2>3. table' \in Applied(table, DiffEvent(before, f), owner)
    BY <1>4 DEF ApplyNext
  <2>4. /\ Present(table') = Present(table) \cup {f.name}
        /\ table'.entry[f.name] = Newest(before, f, owner)
    BY <1>1, <1>3, <1>10, <2>1, <2>2, <2>3, AppliedNewest
  <2>5. \A m \in Present(table) : m # f.name => table'.entry[m] = table.entry[m]
    BY <1>1, <1>4, <1>5, <2>3, AppliedFrame
  <2>6. Present(table') = Present(before)
          \cup ({ given[j].name : j \in Merged(k - 1) } \ DotNames)
    BY <1>6, <1>8, <1>10, <2>4 DEF Merging
  <2>7. ASSUME NEW n \in Present(before), \A j \in Merged(k - 1) : given[j].name # n
        PROVE  table'.entry[n] = before.entry[n]
    <3>1. n \in Present(table) /\ table.entry[n] = before.entry[n] /\ n # f.name
      BY <1>6, <1>8, <2>7 DEF Merging
    <3>. QED
      BY <2>5, <3>1
  <2>8. ASSUME NEW j \in Merged(k - 1), given[j].name \notin DotNames
        PROVE  table'.entry[given[j].name] = Newest(before, given[j], owner)
    <3>1. CASE j = k
      BY <2>4, <3>1
    <3>2. CASE j \in Merged(k)
      <4>1. /\ given[j].name \in Present(table) /\ given[j].name # f.name
            /\ table.entry[given[j].name] = Newest(before, given[j], owner)
        BY <1>7, <1>8, <2>8, <3>2 DEF Merging
      <4>. QED
        BY <2>5, <4>1
    <3>. QED
      BY <1>6, <3>1, <3>2
  <2>. QED
    BY <2>6, <2>7, <2>8 DEF Merging
<1>. QED
  BY <1>9, <1>10

\* When a registration begins, all of it is still to come.
LEMMA BeginMerge ==
  ASSUME IInv, MergeInv, NEW a \in Addrs, NEW files \in FileLists,
         Register(a, files), Remember(table, files)
  PROVE  MergeInv'
<1>1. table' = table /\ work' = FileDiff(table, files)
  BY DEF Register, Continue
<1>2. files \in Seq(FileInfo) /\ Len(files) \in Nat /\ DOMAIN files = 1..Len(files)
  BY ListsAssumption
<1>3. Len(work') = Len(files) /\ DOMAIN work' = 1..Len(files)
  BY <1>1, <1>2 DEF FileDiff
<1>4. \A i \in DOMAIN work' : work'[i] = DiffEvent(table, files[Len(work') + 1 - i])
  BY <1>1, <1>2, <1>3 DEF FileDiff
<1>. SUFFICES ASSUME mode' = "REGISTER"
              PROVE  /\ GoodTable(before') /\ Present(before') \cap DotNames = {}
                     /\ given' \in FileLists /\ Pending'
                     /\ (Merging(table, Len(work), owner))'
  BY <1>1 DEF MergeInv
<1>5. before' = table /\ given' = files
  BY DEF Remember
<1>6. Merged(Len(work))' = {}
  BY <1>2, <1>3, <1>5 DEF Merged
<1>7. (Merging(table, Len(work), owner))'
  BY <1>1, <1>5, <1>6 DEF Merging
<1>8. Pending'
  BY <1>2, <1>3, <1>4, <1>5 DEF Pending
<1>. QED
  BY <1>5, <1>7, <1>8 DEF IInv, MergeInv

\* Every step keeps the union so far.
LEMMA NextMerge == IInv /\ MergeInv /\ [CNext]_cvars => MergeInv'
<1>. SUFFICES ASSUME IInv, MergeInv, [CNext]_cvars PROVE MergeInv'
  OBVIOUS
<1>1. ASSUME NEW a \in Addrs, NEW files \in FileLists, Register(a, files),
             Remember(table, files)
      PROVE  MergeInv'
  BY <1>1, BeginMerge
<1>2. ASSUME NEW a \in Addrs, NEW events \in EventLists, Update(a, events)
      PROVE  MergeInv'
  BY <1>2 DEF MergeInv, Update, Continue
<1>3. CASE ApplyNext /\ Remember(before, given)
  <2>1. work \in Seq(FileEvent) /\ work # <<>> /\ Head(work) \in FileEvent /\ owner \in Addrs
    BY <1>3, TailFacts DEF IInv, ApplyNext
  <2>2. Present(table') \cap DotNames = {}
    BY <1>3, <2>1, AppliedNoDots DEF IInv, MergeInv, ApplyNext
  <2>. SUFFICES ASSUME mode' = "REGISTER"
                PROVE  /\ GoodTable(before') /\ Present(before') \cap DotNames = {}
                       /\ given' \in FileLists /\ Pending'
                       /\ (Merging(table, Len(work), owner))'
    BY <2>2 DEF MergeInv
  <2>3. /\ mode = "REGISTER" /\ owner' = owner /\ work' = Tail(work)
        /\ before' = before /\ given' = given
    BY <1>3 DEF ApplyNext, Continue, Remember
  <2>4. Len(work') = Len(work) - 1 /\ Len(work) \in Nat
    BY <2>1, <2>3
  <2>5. Pending'
    <3>1. Len(given) \in Nat
      BY <2>3, ListsAssumption DEF MergeInv
    <3>2. \A i \in DOMAIN work' : /\ i \in Nat /\ i + 1 \in DOMAIN work
                                  /\ work'[i] = work[i + 1]
      BY <2>1, <2>3, TailFacts
    <3>3. ASSUME NEW i \in DOMAIN work'
          PROVE  work'[i] = DiffEvent(before, given[Len(work') + 1 - i])
      <4>1. Len(work) + 1 - (i + 1) = Len(work') + 1 - i
        BY <2>4, <3>2
      <4>2. work[i + 1] = DiffEvent(before, given[Len(work) + 1 - (i + 1)])
        BY <2>3, <3>2 DEF MergeInv, Pending
      <4>. QED
        BY <3>2, <4>1, <4>2
    <3>4. Len(work') <= Len(given)
      BY <2>3, <2>4, <3>1 DEF MergeInv, Pending
    <3>. QED
      BY <2>3, <3>3, <3>4 DEF Pending
  <2>6. (Merging(table, Len(work), owner))'
    <3>1. Merging(table', Len(work'), owner)
      BY <1>3, <2>3, <2>4, MergeOne
    <3>. QED
      BY <2>3, <3>1 DEF Merging, Merged
  <2>. QED
    BY <2>3, <2>5, <2>6 DEF MergeInv
<1>4. ASSUME NEW a \in Addrs, Leave(a) PROVE MergeInv'
  BY <1>4 DEF MergeInv, Leave, RemovePeerAll, Present
<1>5. CASE Reset
  BY <1>5 DEF MergeInv, Reset, EmptyTable, Present
<1>6. CASE UNCHANGED cvars
  BY <1>6 DEF cvars, MergeInv, Pending, Merging, Merged
<1>7. CASE Abandon
  <2>1. Present(table') \subseteq Present(table)
    BY <1>7, CutShortGood DEF IInv, Abandon
  <2>. QED
    BY <1>7, <2>1 DEF MergeInv, Abandon
<1>. QED
  BY <1>1, <1>2, <1>3, <1>4, <1>5, <1>6, <1>7 DEF CNext

\* The step that applies the last event completes the union.
LEMMA EndMerge ==
  ASSUME IInv, MergeInv, [CNext]_cvars, mode = "REGISTER", mode' = "idle"
  PROVE  LET offered == Offered(given)
             names   == { f.name : f \in offered }
         IN /\ Present(table') = Present(before) \cup names
            /\ \A n \in Present(before) \ names : table'.entry[n] = before.entry[n]
            /\ \A f \in offered : table'.entry[f.name] = Newest(before, f, owner)
<1>1. ApplyNext
  BY DEF CNext, cvars, Register, Update, Leave, Reset, Abandon
<1>2. work \in Seq(FileEvent) /\ work # <<>> /\ Tail(work) = <<>>
  BY <1>1 DEF IInv, ApplyNext, Continue
<1>3. Len(work) = 1
  <2>1. Len(work) \in Nat /\ Len(Tail(work)) = Len(work) - 1
    BY <1>2
  <2>2. Len(Tail(work)) = 0
    BY <1>2, Len(<<>>) = 0
  <2>. QED
    BY <2>1, <2>2
<1>4. Merging(table', 0, owner)
  <2>1. Len(work) - 1 = 0
    BY <1>3
  <2>. QED
    BY <1>1, <2>1, MergeOne
<1>5. Merged(0) = DOMAIN given
  <2>1. given \in Seq(FileInfo)
    BY ListsAssumption DEF MergeInv
  <2>. QED
    BY <2>1 DEF Merged
<1>. DEFINE offered == Offered(given)
            names == { f.name : f \in offered }
<1>6. names = { given[j].name : j \in Merged(0) } \ DotNames
  BY <1>5 DEF Offered
<1>7. Present(table') = Present(before) \cup names
  BY <1>4, <1>6 DEF Merging
<1>8. ASSUME NEW n \in Present(before) \ names PROVE table'.entry[n] = before.entry[n]
  <2>1. n \notin DotNames
    BY DEF MergeInv
  <2>2. \A j \in Merged(0) : given[j].name # n
    BY <1>6, <1>8, <2>1
  <2>. QED
    BY <1>4, <2>2 DEF Merging
<1>9. ASSUME NEW f \in offered PROVE table'.entry[f.name] = Newest(before, f, owner)
  <2>1. PICK j \in DOMAIN given : f = given[j] /\ f.name \notin DotNames
    BY DEF Offered
  <2>. QED
    BY <1>4, <1>5, <2>1 DEF Merging
<1>. QED
  BY <1>7, <1>8, <1>9

\* filetable_merge leaves the union of the table and the files it is given: every
\* file of both, in its newest version, with the peer among the holders of what it has.
THEOREM RegistrationIsUnion == CSpec => MergeIsUnion
<1>1. CInit => IInv /\ MergeInv
  BY InitInv DEF CInit, MergeInv, Init, EmptyTable, Present
<1>2. IInv /\ MergeInv /\ [CNext]_cvars => IInv' /\ MergeInv'
  <2>1. [CNext]_cvars => [Next]_vars
    BY DEF CNext, Next, cvars, vars
  <2>. QED
    BY <2>1, NextInv, NextMerge
<1>3. IInv /\ MergeInv /\ [CNext]_cvars =>
        [(mode = "REGISTER" /\ mode' = "idle") =>
           LET offered == Offered(given)
               names   == { f.name : f \in offered }
           IN /\ Present(table') = Present(before) \cup names
              /\ \A n \in Present(before) \ names : table'.entry[n] = before.entry[n]
              /\ \A f \in offered : table'.entry[f.name] = Newest(before, f, owner)]_cvars
  BY EndMerge
<1>. QED
  BY <1>1, <1>2, <1>3, PTL DEF CSpec, MergeIsUnion
=============================================================================
