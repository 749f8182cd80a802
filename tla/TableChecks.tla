---------------------------- MODULE TableChecks ----------------------------
(***************************************************************************)
(* TableMachine with a record of how the current operation began, so that  *)
(* the result of a whole registration can be compared with a definition of *)
(* it, and with what the comments of the file table promise.               *)
(***************************************************************************)
EXTENDS TableMachine

CONSTANT Inside   \* Inside[d]: the names of the files in directory d, at any depth

ASSUME InsideAssumption ==
  /\ Inside \in [Names -> SUBSET Names]
  /\ \A d \in Names : Inside[d] \subseteq Extending[d]

VARIABLES before,  \* the table when the registration in progress began
          given    \* the files it registers

cvars == <<table, work, owner, mode, before, given>>

CInit == Init /\ before = EmptyTable /\ given = <<>>

Remember(t, files) ==
  /\ before' = IF mode' = "REGISTER" THEN t ELSE EmptyTable
  /\ given' = IF mode' = "REGISTER" THEN files ELSE <<>>

CNext ==
  \/ \E a \in Addrs, files \in FileLists : Register(a, files) /\ Remember(table, files)
  \/ /\ \/ \E a \in Addrs, events \in EventLists : Update(a, events)
        \/ ApplyNext
        \/ Abandon
        \/ \E a \in Addrs : Leave(a)
        \/ Reset
     /\ Remember(before, given)

CSpec == CInit /\ [][CNext]_cvars

----------------------------------------------------------------------------
\* The files of a list, by name, dot files left out.
Offered(files) == { f \in { files[i] : i \in DOMAIN files } : f.name \notin DotNames }

\* The entry a registration from address a should leave for file f.
Newest(t, f, a) ==
  LET old == t.entry[f.name]
      own == [peers |-> {a}, numpeers |-> 1]
  IN CASE f.name \notin Present(t) ->
            [mtime |-> f.mtime, size |-> Sized(f).size, dir |-> f.dir, peers |-> {a}, numpeers |-> 1]
       [] f.name \in Present(t) /\ old.mtime < f.mtime ->
            [old EXCEPT !.mtime = f.mtime, !.size = f.size, !.peers = {a}, !.numpeers = 1]
       [] f.name \in Present(t) /\ old.mtime = f.mtime /\ old.size = f.size
                                /\ \A b \in old.peers : b[1] # a[1] ->
            [old EXCEPT !.peers = @ \cup {a}, !.numpeers = @ + 1]
       [] OTHER -> old

\* filetable_merge "performs union of provided files and files in the table"
\* (filetable.h:144): when a registration ends, the table holds the files of both,
\* each in its newest version, and the peer is a holder of what it has of it.
MergeIsUnion ==
  [][(mode = "REGISTER" /\ mode' = "idle") =>
       LET offered == Offered(given)
           names   == { f.name : f \in offered }
       IN /\ Present(table') = Present(before) \cup names
          /\ \A n \in Present(before) \ names : table'.entry[n] = before.entry[n]
          /\ \A f \in offered : table'.entry[f.name] = Newest(before, f, owner)]_cvars

\* "Delete all the files in the directory, recursively" (filetable.c:187): an
\* event that deletes d takes away d and files inside d, and nothing else.
DeleteStaysInside ==
  [][(work # <<>> /\ Head(work).action = "FILE_DELETED") =>
       LET d == Head(work).file.name
       IN Present(table) \ Present(table') \subseteq {d} \cup Inside[d]]_cvars
=============================================================================
