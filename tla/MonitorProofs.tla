---------------------------- MODULE MonitorProofs ----------------------------
(***************************************************************************)
(* Theorems about Monitor, for any directory tree and any number of        *)
(* changes, downloads and deletions: the marks in the ignore sets are      *)
(* accounted for, and they hide what they are meant to hide.               *)
(***************************************************************************)
EXTENDS Monitor, TLAPS

Pcs == {"idle", "walk", "mark", "make", "resume", "hide", "unlink", "show"}

MarkTypes ==
  /\ ignoreModify \in [Paths -> Nat] /\ ignoreDelete \in [Paths -> Nat]
  /\ main \in [pc : Pcs, path : Paths]
  /\ job \in [Paths -> Savings]
  /\ stuck \subseteq Paths
  /\ torn \in BOOLEAN

At(p, pcs) == main.path = p /\ main.pc \in pcs

(***************************************************************************)
(* What holds even when the unlocked read of ignore_modify went wrong:     *)
(* whoever is between marking and resuming has a mark of its own.          *)
(***************************************************************************)
Marking ==
  \A p \in Paths :
    /\ ignoreModify[p] >= Savers(p) + Count(At(p, {"make", "resume"}))
    /\ ignoreDelete[p] = Count(At(p, {"unlink", "show"}))

(***************************************************************************)
(* And else: a mark is only made where none is, for once download_file has *)
(* found none, nobody but the main thread makes one.                       *)
(***************************************************************************)
Once ==
  \A p \in Paths :
    /\ ignoreModify[p] = Savers(p) + Count(p \in stuck)
                         + Count(At(p, {"make", "resume"}))
    /\ ignoreModify[p] <= 1
    /\ At(p, {"mark"}) => ignoreModify[p] = 0

MarkInv == MarkTypes /\ Marking /\ (torn \/ Once)

markVars == <<marks, main, job>>
-----------------------------------------------------------------------------
\* Init lets main.path be any path: a tree without paths is of no interest.
LEMMA MarkInit == ASSUME Paths # {} PROVE Init => MarkInv
<1> SUFFICES ASSUME Init PROVE MarkInv
  OBVIOUS
<1>1. main \in [pc : Pcs, path : Paths] /\ main.pc = "idle"
  BY DEF Init, Pcs
<1>3. \A p \in Paths : ~At(p, {"make", "resume"}) /\ ~At(p, {"unlink", "show"}) /\ ~At(p, {"mark"})
  BY <1>1 DEF At
<1>4. /\ \A p \in Paths : ignoreModify[p] = 0 /\ ignoreDelete[p] = 0 /\ Savers(p) = 0
      /\ stuck = {} /\ torn = FALSE
      /\ ignoreModify \in [Paths -> Nat] /\ ignoreDelete \in [Paths -> Nat]
      /\ job \in [Paths -> Savings]
  BY DEF Init, Savings, Savers
<1>5. MarkTypes
  BY <1>1, <1>4 DEF MarkTypes
<1>6. Marking
  BY <1>3, <1>4 DEF Marking, Count
<1>7. Once
  BY <1>3, <1>4 DEF Once, Count
<1> QED
  BY <1>5, <1>6, <1>7 DEF MarkInv

LEMMA MarkUnchanged == MarkInv /\ UNCHANGED markVars => MarkInv'
  BY DEF MarkInv, MarkTypes, Marking, Once, At, Count, Savers, markVars, marks

\* What one saver more, one less, or one that gets further does to their number.
LEMMA SaversMove ==
  ASSUME MarkTypes, NEW p \in Paths, NEW r \in Savings, Saving(p, r)
  PROVE  /\ job' \in [Paths -> Savings]
         /\ Savers(p)' = r.placed + r.open + r.detached + r.written
         /\ \A q \in Paths : q # p => Savers(q)' = Savers(q)
  BY DEF MarkTypes, Savers, Saving

LEMMA SaversType == ASSUME MarkTypes, NEW p \in Paths PROVE job[p] \in Savings /\ Savers(p) \in Nat
<1>1. job[p] \in Savings
  BY DEF MarkTypes
<1>2. job[p].placed \in Nat /\ job[p].open \in Nat /\ job[p].detached \in Nat /\ job[p].written \in Nat
  BY <1>1 DEF Savings
<1> QED
  BY <1>1, <1>2 DEF Savers

LEMMA SaversKept ==
  ASSUME MarkTypes
  PROVE  /\ \A q \in Paths : Savers(q) \in Nat
         /\ UNCHANGED job => \A q \in Paths : Savers(q)' = Savers(q)
  BY SaversType DEF Savers

LEMMA SaversDetached ==
  ASSUME MarkTypes, NEW p \in Paths, Detach(p)
  PROVE  job' \in [Paths -> Savings] /\ \A q \in Paths : Savers(q)' = Savers(q)
<1> DEFINE r == [job[p] EXCEPT !.open = 0, !.detached = @ + job[p].open]
<1>1. /\ job[p].placed \in Nat /\ job[p].open \in Nat
      /\ job[p].detached \in Nat /\ job[p].written \in Nat
  BY SaversType DEF Savings
<1>2. job[p].detached + job[p].open \in Nat /\ job[p] \in Savings
  BY <1>1, SaversType
<1>3. /\ r \in Savings
      /\ r.placed = job[p].placed /\ r.open = 0
      /\ r.detached = job[p].detached + job[p].open /\ r.written = job[p].written
  BY <1>2 DEF Savings
<1>4. Saving(p, r)
  BY DEF Detach
<1> HIDE DEF r
<1>5. /\ job' \in [Paths -> Savings] /\ \A q \in Paths : q # p => Savers(q)' = Savers(q)
      /\ Savers(p)' = r.placed + r.open + r.detached + r.written
  BY <1>3, <1>4, SaversMove
<1>6. Savers(p)' = Savers(p)
  BY <1>1, <1>3, <1>5 DEF Savers
<1> QED
  BY <1>5, <1>6

\* Removing the name of a file that is open leaves the savers with their marks.
LEMMA MarkDetach ==
  ASSUME MarkInv, NEW p \in Paths, Detach(p), UNCHANGED <<marks, main>>
  PROVE  MarkInv'
<1>1. job' \in [Paths -> Savings] /\ \A q \in Paths : Savers(q)' = Savers(q)
  BY SaversDetached DEF MarkInv
<1> QED
  BY <1>1 DEF MarkInv, MarkTypes, Marking, Once, At, Count, marks

LEMMA GotoType ==
  ASSUME MarkTypes, NEW pc \in Pcs, Goto(pc)
  PROVE  main' \in [pc : Pcs, path : Paths] /\ main'.pc = pc /\ main'.path = main.path
  BY DEF MarkTypes, Goto, Pcs

LEMMA MarkMain == MarkInv /\ MainThread => MarkInv'
<1> SUFFICES ASSUME MarkInv, MainThread PROVE MarkInv'
  OBVIOUS
<1>0. MarkTypes
  BY DEF MarkInv
<1>k. /\ \A q \in Paths : Savers(q) \in Nat
      /\ UNCHANGED job => \A q \in Paths : Savers(q)' = Savers(q)
  BY <1>0, SaversKept
<1>1. CASE UpdateFromFiletable
  BY <1>1, MarkUnchanged DEF UpdateFromFiletable, markVars
<1>2. ASSUME NEW p \in Paths, DownloadFile(p) PROVE MarkInv'
  <2>1. main' = [pc |-> "walk", path |-> p] /\ main.pc = "idle" /\ UNCHANGED <<marks, job>>
    BY <1>2 DEF DownloadFile, Turn
  <2> QED
    BY <1>k, <2>1 DEF MarkInv, MarkTypes, Marking, Once, At, Count, Pcs, marks
<1>3. ASSUME NEW p \in Paths, DeleteFile(p) PROVE MarkInv'
  <2>1. main' = [pc |-> "hide", path |-> p] /\ main.pc = "idle" /\ UNCHANGED <<marks, job>>
    BY <1>3 DEF DeleteFile, Turn
  <2> QED
    BY <1>k, <2>1 DEF MarkInv, MarkTypes, Marking, Once, At, Count, Pcs, marks
<1>4. CASE Walked
  <2>1. PICK found \in BOOLEAN :
          /\ torn \/ found = Contains(ignoreModify, main.path)
          /\ Goto(IF found THEN "idle" ELSE "mark")
    BY <1>4 DEF Walked
  <2>2. /\ main' \in [pc : Pcs, path : Paths] /\ main'.path = main.path
        /\ main'.pc = IF found THEN "idle" ELSE "mark"
    BY <1>0, <2>1, GotoType DEF Pcs
  <2>3. main.pc = "walk" /\ UNCHANGED <<marks, job>>
    BY <1>4 DEF Walked
  <2> QED
    BY <1>k, <2>1, <2>2, <2>3 DEF MarkInv, MarkTypes, Marking, Once, At, Count, Contains, marks
<1>5. CASE IgnoreModify
  <2>1. /\ main' \in [pc : Pcs, path : Paths] /\ main'.path = main.path /\ main'.pc = "make"
        /\ main.pc = "mark"
        /\ UNCHANGED <<ignoreDelete, stuck, torn, job>>
        /\ ignoreModify' = [ignoreModify EXCEPT ![main.path] = @ + 1]
    BY <1>0, <1>5, GotoType DEF IgnoreModify, Inserted, Pcs
  <2> QED
    BY <1>k, <2>1 DEF MarkInv, MarkTypes, Marking, Once, At, Count
<1>6. CASE MakeDir
  <2>1. /\ main' \in [pc : Pcs, path : Paths] /\ main'.path = main.path
        /\ main.pc = "make"
        /\ UNCHANGED <<ignoreModify, ignoreDelete, torn, job>>
        /\ \/ main'.pc = "resume" /\ stuck' = stuck
           \/ main'.pc = "idle" /\ stuck' = stuck \cup {main.path}
    BY <1>0, <1>6, GotoType DEF MakeDir, Pcs
  <2> QED
    BY <1>k, <2>1 DEF MarkInv, MarkTypes, Marking, Once, At, Count
<1>7. CASE MakeFile
  <2>1. /\ main' \in [pc : Pcs, path : Paths] /\ main'.path = main.path
        /\ main.pc = "make"
        /\ UNCHANGED <<ignoreModify, ignoreDelete, torn, stuck>>
        /\ \/ main'.pc = "resume" /\ job' = job
           \/ /\ main'.pc = "idle"
              /\ Saving(main.path, [job[main.path] EXCEPT !.placed = @ + 1])
    BY <1>0, <1>7, GotoType DEF MakeFile, marks, Pcs
  <2> DEFINE r == [job[main.path] EXCEPT !.placed = @ + 1]
  <2>2. main.path \in Paths
    BY <1>0 DEF MarkTypes
  <2>3. /\ job[main.path].placed \in Nat /\ job[main.path].open \in Nat
        /\ job[main.path].detached \in Nat /\ job[main.path].written \in Nat
    BY <1>0, <2>2, SaversType DEF Savings
  <2>4. job[main.path].placed + 1 \in Nat /\ job[main.path] \in Savings
    BY <1>0, <2>2, <2>3, SaversType
  <2>5. /\ r \in Savings
        /\ r.placed = job[main.path].placed + 1 /\ r.open = job[main.path].open
        /\ r.detached = job[main.path].detached /\ r.written = job[main.path].written
    BY <2>4 DEF Savings
  <2>6. CASE job' = job /\ main'.pc = "resume"
    <3>1. \A q \in Paths : Savers(q)' = Savers(q)
      BY <2>6 DEF Savers
    <3> QED
      BY <1>k, <2>1, <2>6, <3>1 DEF MarkInv, MarkTypes, Marking, Once, At, Count
  <2>7. CASE Saving(main.path, r) /\ main'.pc = "idle"
    <3> HIDE DEF r
    <3>1. PICK p \in Paths : p = main.path
      BY <2>2
    <3>2. Saving(p, r)
      BY <2>7, <3>1
    <3>3. /\ job' \in [Paths -> Savings]
          /\ \A q \in Paths : q # p => Savers(q)' = Savers(q)
          /\ Savers(p)' = r.placed + r.open + r.detached + r.written
      BY <1>0, <2>5, <3>2, SaversMove
    <3>4. Savers(p)' = Savers(p) + 1
      BY <2>3, <2>5, <3>1, <3>3 DEF Savers
    <3> QED
      BY <1>k, <2>1, <2>7, <3>1, <3>3, <3>4 DEF MarkInv, MarkTypes, Marking, Once, At, Count
  <2> QED
    BY <2>1, <2>6, <2>7
<1>8. CASE MakeParent
  <2>1. /\ main' \in [pc : Pcs, path : Paths] /\ main'.path = main.path /\ main'.pc = "idle"
        /\ main.pc = "make"
        /\ UNCHANGED <<ignoreModify, ignoreDelete, torn, job>>
        /\ stuck' = stuck \cup {main.path}
    BY <1>0, <1>8, GotoType DEF MakeParent, Pcs
  <2> QED
    BY <1>k, <2>1 DEF MarkInv, MarkTypes, Marking, Once, At, Count
<1>9. CASE ResumeModify
  <2>1. /\ main' \in [pc : Pcs, path : Paths] /\ main'.path = main.path /\ main'.pc = "idle"
        /\ main.pc = "resume"
        /\ UNCHANGED <<ignoreDelete, torn, job, stuck>>
        /\ ignoreModify' = Removed(ignoreModify, main.path)
    BY <1>0, <1>9, GotoType DEF ResumeModify, Pcs
  <2> QED
    BY <1>k, <2>1 DEF MarkInv, MarkTypes, Marking, Once, At, Count, Removed, Contains
<1>10. CASE IgnoreDelete
  <2>1. /\ main' \in [pc : Pcs, path : Paths] /\ main'.path = main.path /\ main'.pc = "unlink"
        /\ main.pc = "hide"
        /\ UNCHANGED <<ignoreModify, torn, job, stuck>>
        /\ ignoreDelete' = [ignoreDelete EXCEPT ![main.path] = @ + 1]
    BY <1>0, <1>10, GotoType DEF IgnoreDelete, Inserted, Pcs
  <2> QED
    BY <1>k, <2>1 DEF MarkInv, MarkTypes, Marking, Once, At, Count
<1>11. CASE Unlink
  <2>1. /\ main' \in [pc : Pcs, path : Paths] /\ main'.path = main.path /\ main'.pc = "show"
        /\ main.pc = "unlink"
        /\ UNCHANGED <<ignoreModify, ignoreDelete, torn, stuck>>
        /\ Detach(main.path) \/ job' = job
    BY <1>0, <1>11, GotoType DEF Unlink, marks, Pcs
  <2>2. job' \in [Paths -> Savings] /\ \A q \in Paths : Savers(q)' = Savers(q)
    <3>1. main.path \in Paths
      BY <1>0 DEF MarkTypes
    <3>2. CASE job' = job
      BY <1>0, <3>2 DEF MarkTypes, Savers
    <3> QED
      BY <1>0, <2>1, <3>1, <3>2, SaversDetached
  <2> QED
    BY <1>k, <2>1, <2>2 DEF MarkInv, MarkTypes, Marking, Once, At, Count
<1>12. CASE ResumeDelete
  <2>1. /\ main' \in [pc : Pcs, path : Paths] /\ main'.path = main.path /\ main'.pc = "idle"
        /\ main.pc = "show"
        /\ UNCHANGED <<ignoreModify, torn, job, stuck>>
        /\ ignoreDelete' = Removed(ignoreDelete, main.path)
    BY <1>0, <1>12, GotoType DEF ResumeDelete, Pcs
  <2> QED
    BY <1>k, <2>1 DEF MarkInv, MarkTypes, Marking, Once, At, Count, Removed, Contains
<1> QED
  BY <1>1, <1>2, <1>3, <1>4, <1>5, <1>6, <1>7, <1>8, <1>9, <1>10, <1>11, <1>12 DEF MainThread

LEMMA MarkSaver == MarkInv /\ Saver => MarkInv'
<1> SUFFICES ASSUME MarkInv, NEW p \in Files,
                    SaverOpens(p) \/ SaverCrashes(p) \/ SaverWrites(p) \/ SaverResumes(p)
             PROVE  MarkInv'
  BY DEF Saver
<1>0. p \in Paths
  BY DEF Paths
<1>t. MarkTypes
  BY DEF MarkInv
<1>n. /\ job[p] \in Savings
      /\ job[p].placed \in Nat /\ job[p].open \in Nat
      /\ job[p].detached \in Nat /\ job[p].written \in Nat
  BY <1>0, <1>t, SaversType DEF Savings
<1>1. CASE SaverOpens(p) \/ SaverWrites(p)
  <2>1. UNCHANGED <<marks, main>>
    BY <1>1 DEF SaverOpens, SaverWrites
  <2>2. PICK r \in Savings :
          /\ Saving(p, r)
          /\ r.placed + r.open + r.detached + r.written = Savers(p)
    <3>1. CASE SaverOpens(p)
      <4> DEFINE r == [job[p] EXCEPT !.placed = @ - 1, !.open = @ + 1]
      <4>1. job[p].placed - 1 \in Nat /\ job[p].open + 1 \in Nat
        BY <1>n, <3>1 DEF SaverOpens
      <4>2. /\ r \in Savings
            /\ r.placed = job[p].placed - 1 /\ r.open = job[p].open + 1
            /\ r.detached = job[p].detached /\ r.written = job[p].written
        BY <1>n, <4>1 DEF Savings
      <4>3. Saving(p, r)
        BY <3>1 DEF SaverOpens
      <4> HIDE DEF r
      <4>4. r.placed + r.open + r.detached + r.written = Savers(p)
        BY <1>n, <4>2 DEF Savers
      <4> QED
        BY <4>2, <4>3, <4>4
    <3>2. CASE job[p].open > 0 /\ Saving(p, [job[p] EXCEPT !.open = @ - 1, !.written = @ + 1])
      <4> DEFINE r == [job[p] EXCEPT !.open = @ - 1, !.written = @ + 1]
      <4>1. job[p].open - 1 \in Nat /\ job[p].written + 1 \in Nat
        BY <1>n, <3>2
      <4>2. /\ r \in Savings
            /\ r.placed = job[p].placed /\ r.open = job[p].open - 1
            /\ r.detached = job[p].detached /\ r.written = job[p].written + 1
        BY <1>n, <4>1 DEF Savings
      <4>3. Saving(p, r)
        BY <3>2
      <4> HIDE DEF r
      <4>4. r.placed + r.open + r.detached + r.written = Savers(p)
        BY <1>n, <4>2 DEF Savers
      <4> QED
        BY <4>2, <4>3, <4>4
    <3>3. CASE job[p].detached > 0 /\ Saving(p, [job[p] EXCEPT !.detached = @ - 1, !.written = @ + 1])
      <4> DEFINE r == [job[p] EXCEPT !.detached = @ - 1, !.written = @ + 1]
      <4>1. job[p].detached - 1 \in Nat /\ job[p].written + 1 \in Nat
        BY <1>n, <3>3
      <4>2. /\ r \in Savings
            /\ r.placed = job[p].placed /\ r.open = job[p].open
            /\ r.detached = job[p].detached - 1 /\ r.written = job[p].written + 1
        BY <1>n, <4>1 DEF Savings
      <4>3. Saving(p, r)
        BY <3>3
      <4> HIDE DEF r
      <4>4. r.placed + r.open + r.detached + r.written = Savers(p)
        BY <1>n, <4>2 DEF Savers
      <4> QED
        BY <4>2, <4>3, <4>4
    <3> QED
      BY <1>1, <3>1, <3>2, <3>3 DEF SaverWrites
  <2>3. job' \in [Paths -> Savings] /\ \A q \in Paths : Savers(q)' = Savers(q)
    BY <1>0, <1>t, <2>2, SaversMove
  <2> QED
    BY <2>1, <2>3 DEF MarkInv, MarkTypes, Marking, Once, At, Count, marks
<1>2. CASE SaverCrashes(p)
  BY <1>2, MarkUnchanged DEF SaverCrashes, markVars
<1>3. CASE SaverResumes(p)
  <2> DEFINE r == [job[p] EXCEPT !.written = @ - 1]
  <2>1. /\ job[p].written > 0
        /\ ignoreModify' = Removed(ignoreModify, p)
        /\ torn' = (torn \/ main.pc = "walk")
        /\ UNCHANGED <<ignoreDelete, stuck, main>>
    BY <1>3 DEF SaverResumes
  <2>2. Saving(p, r)
    BY <1>3 DEF SaverResumes
  <2>3. job[p].written - 1 \in Nat
    BY <1>n, <2>1
  <2>4. /\ r \in Savings
        /\ r.placed = job[p].placed /\ r.open = job[p].open
        /\ r.detached = job[p].detached /\ r.written = job[p].written - 1
    BY <1>n, <2>3 DEF Savings
  <2> HIDE DEF r
  <2>5. /\ job' \in [Paths -> Savings] /\ \A q \in Paths : q # p => Savers(q)' = Savers(q)
        /\ Savers(p)' = r.placed + r.open + r.detached + r.written
    BY <1>0, <1>t, <2>2, <2>4, SaversMove
  <2>6. Savers(p)' = Savers(p) - 1 /\ Savers(p) > 0
    BY <1>n, <2>1, <2>4, <2>5 DEF Savers
  <2>7. \A q \in Paths : Savers(q) \in Nat
    BY <1>t, SaversType
  <2>8. /\ ignoreModify[p] \in Nat /\ ignoreModify[p] > 0
        /\ \A q \in Paths : ignoreModify'[q] = IF q = p THEN ignoreModify[p] - 1 ELSE ignoreModify[q]
        /\ ignoreModify' \in [Paths -> Nat]
    <3>1. ignoreModify[p] \in Nat
      BY <1>0, <1>t DEF MarkTypes
    <3>2. ignoreModify[p] >= Savers(p) + Count(At(p, {"make", "resume"}))
      BY <1>0 DEF MarkInv, Marking
    <3>3. ignoreModify[p] > 0
      BY <1>0, <2>6, <2>7, <3>1, <3>2 DEF Count
    <3> QED
      BY <1>0, <1>t, <2>1, <3>1, <3>3 DEF MarkTypes, Removed, Contains
  <2>9. MarkTypes' /\ Marking'
    BY <1>0, <1>t, <2>1, <2>5, <2>6, <2>7, <2>8 DEF MarkInv, MarkTypes, Marking, At, Count
  <2>10. torn' \/ Once'
    BY <1>0, <1>t, <2>1, <2>5, <2>6, <2>7, <2>8 DEF MarkInv, MarkTypes, Once, At, Count
  <2> QED
    BY <2>9, <2>10 DEF MarkInv
<1> QED
  BY <1>1, <1>2, <1>3

LEMMA MarkNext == MarkInv /\ [Next]_vars => MarkInv'
<1> SUFFICES ASSUME MarkInv, [Next]_vars PROVE MarkInv'
  OBVIOUS
<1>1. ASSUME NEW p \in Paths, UserWrites(p) PROVE MarkInv'
  BY <1>1, MarkUnchanged DEF UserWrites, markVars, peer
<1>2. ASSUME NEW p \in Paths, UserDeletes(p) PROVE MarkInv'
  BY <1>2, MarkDetach DEF UserDeletes
<1>3. CASE Observer
  BY <1>3, MarkUnchanged DEF Observer, Read, Convert, Filter, FilterDone, markVars, peer
<1>4. CASE Reporter
  BY <1>4, MarkUnchanged DEF Reporter, TakeEvents, SendEvents, markVars, peer
<1>5. CASE UNCHANGED vars
  BY <1>5, MarkUnchanged DEF vars, markVars, peer
<1> QED
  BY <1>1, <1>2, <1>3, <1>4, <1>5, MarkMain, MarkSaver DEF Next, User

(***************************************************************************)
(* Every mark in ignore_modify and ignore_delete has its owner or is one   *)
(* that download_file left behind, and no path is marked twice; or the set *)
(* was changed while download_file read it without its lock (peer.c:233).  *)
(***************************************************************************)
THEOREM EveryMarkAccounted == ASSUME Paths # {} PROVE Spec => []MarksAccounted
<1>1. MarkInv => MarksAccounted
  <2> SUFFICES ASSUME MarkInv, ~torn, NEW p \in Paths
               PROVE  /\ ignoreModify[p] = Savers(p) + Count(p \in stuck)
                            + Count(main.path = p /\ main.pc \in {"make", "resume"})
                      /\ ignoreModify[p] <= 1
                      /\ ignoreDelete[p] = Count(main.path = p /\ main.pc \in {"unlink", "show"})
    BY DEF MarksAccounted
  <2> QED
    BY DEF MarkInv, Marking, Once, At
<1> QED
  BY <1>1, MarkInit, MarkNext, PTL DEF Spec
-----------------------------------------------------------------------------
(***************************************************************************)
(* With an observer that keeps up: an event by the peer that is not yet    *)
(* filtered is of a path whose mark will hide it, and none gets past.      *)
(***************************************************************************)
Reports == [kind : Kinds, path : Paths, by : Authors, new : BOOLEAN, version : Nat]
Hidden(S) == {e \in S : e.by = "peer" => Ignored(e)}
Foreign == {e \in Reports : e.by # "peer"}

OwnInv ==
  /\ disk \in [Paths -> Nat] /\ changes \in Nat
  /\ kq \in Seq(Hidden(KernelEvents)) /\ batch \in Seq(Hidden(KernelEvents))
  /\ list \in Seq(Hidden(Reports))
  /\ queue \in Seq(Foreign) /\ sending \in Seq(Foreign)

\* What OwnInv reads.
ownVars == <<disk, changes, kq, batch, list, queue, sending, ignoreModify, ignoreDelete>>

LEMMA OwnInit == Init => OwnInv
<1> SUFFICES ASSUME Init PROVE OwnInv
  OBVIOUS
<1>1. disk \in [Paths -> Nat] /\ changes \in Nat
  BY DEF Init, Absent, Fetched
<1> QED
  BY <1>1 DEF Init, OwnInv

LEMMA OwnUnchanged == OwnInv /\ UNCHANGED ownVars => OwnInv'
  BY DEF OwnInv, ownVars, Hidden, Foreign, Ignored, Contains

\* A sequence of members of a set, read as one of another set.
LEMMA SeqIn ==
  ASSUME NEW S, NEW T, NEW s \in Seq(S), \A i \in DOMAIN s : s[i] \in T
  PROVE  s \in Seq(T)
  OBVIOUS

\* A new mark hides more.
LEMMA OwnInserted ==
  ASSUME MarkTypes, OwnInv, NEW p \in Paths,
         \/ ignoreModify' = Inserted(ignoreModify, p) /\ ignoreDelete' = ignoreDelete
         \/ ignoreDelete' = Inserted(ignoreDelete, p) /\ ignoreModify' = ignoreModify,
         UNCHANGED <<disk, changes, kq, batch, list, queue, sending>>
  PROVE  OwnInv'
<1>1. \A q \in Paths : /\ Contains(ignoreModify, q) => Contains(ignoreModify', q)
                       /\ Contains(ignoreDelete, q) => Contains(ignoreDelete', q)
  BY DEF MarkTypes, Inserted, Contains
<1>2. \A e \in KernelEvents \cup Reports : Ignored(e) => Ignored(e)'
  BY <1>1 DEF Ignored, Contains, KernelEvents, Reports
<1>3. /\ \A e \in Hidden(KernelEvents) : e \in Hidden(KernelEvents)'
      /\ \A e \in Hidden(Reports) : e \in Hidden(Reports)'
  BY <1>2 DEF Hidden, KernelEvents, Reports
<1>4. /\ kq \in Seq(Hidden(KernelEvents)') /\ batch \in Seq(Hidden(KernelEvents)')
      /\ list \in Seq(Hidden(Reports)')
  BY <1>3, SeqIn DEF OwnInv
<1> QED
  BY <1>4 DEF OwnInv, Foreign, Reports

\* A mark goes when no event needs it any more.
LEMMA OwnRemoved ==
  ASSUME Prompt, MarkTypes, OwnInv, NEW p \in Paths, Flushed(p),
         \/ ignoreModify' = Removed(ignoreModify, p) /\ ignoreDelete' = ignoreDelete
         \/ ignoreDelete' = Removed(ignoreDelete, p) /\ ignoreModify' = ignoreModify,
         UNCHANGED <<disk, changes, kq, batch, list, queue, sending>>
  PROVE  OwnInv'
<1>1. \A q \in Paths \ {p} : /\ Contains(ignoreModify, q) => Contains(ignoreModify', q)
                             /\ Contains(ignoreDelete, q) => Contains(ignoreDelete', q)
  BY DEF MarkTypes, Removed, Contains
<1>2. \A e \in KernelEvents \cup Reports : e.path # p /\ Ignored(e) => Ignored(e)'
  BY <1>1 DEF Ignored, Contains, KernelEvents, Reports
<1>3. \A s \in {kq, batch, list} : \A i \in DOMAIN s : ~(s[i].path = p /\ s[i].by = "peer")
  BY DEF Flushed
<1>4. kq \in Seq(Hidden(KernelEvents)')
  <2>1. \A i \in DOMAIN kq : kq[i] \in Hidden(KernelEvents) /\ ~(kq[i].path = p /\ kq[i].by = "peer")
    BY <1>3 DEF OwnInv
  <2>2. \A i \in DOMAIN kq : kq[i] \in Hidden(KernelEvents)'
    BY <1>2, <2>1 DEF Hidden, KernelEvents
  <2> QED
    BY <2>2, SeqIn DEF OwnInv
<1>5. batch \in Seq(Hidden(KernelEvents)')
  <2>1. \A i \in DOMAIN batch : batch[i] \in Hidden(KernelEvents) /\ ~(batch[i].path = p /\ batch[i].by = "peer")
    BY <1>3 DEF OwnInv
  <2>2. \A i \in DOMAIN batch : batch[i] \in Hidden(KernelEvents)'
    BY <1>2, <2>1 DEF Hidden, KernelEvents
  <2> QED
    BY <2>2, SeqIn DEF OwnInv
<1>6. list \in Seq(Hidden(Reports)')
  <2>1. \A i \in DOMAIN list : list[i] \in Hidden(Reports) /\ ~(list[i].path = p /\ list[i].by = "peer")
    BY <1>3 DEF OwnInv
  <2>2. \A i \in DOMAIN list : list[i] \in Hidden(Reports)'
    BY <1>2, <2>1 DEF Hidden, Reports
  <2> QED
    BY <2>2, SeqIn DEF OwnInv
<1> QED
  BY <1>4, <1>5, <1>6 DEF OwnInv, Foreign, Reports

\* The kernel's queue after a change whose event, if it is the peer's own, is marked.
LEMMA QueuedHidden ==
  ASSUME OwnInv, NEW kind \in Kinds, NEW p \in Paths, NEW by \in Authors,
         by = "peer" => Contains(IF kind = "DELETED" THEN ignoreDelete ELSE ignoreModify, p)
  PROVE  Queued(kind, p, by) \in Seq(Hidden(KernelEvents))
<1> DEFINE n == Len(kq)
           alike == n > 0 /\ kq[n].kind = kind /\ kq[n].path = p
           author == IF alike /\ kq[n].by = "user" THEN "user" ELSE by
           e == [kind |-> kind, path |-> p, by |-> author]
           before == IF alike THEN SubSeq(kq, 1, n - 1) ELSE kq
<1>1. e \in Hidden(KernelEvents)
  BY DEF Hidden, KernelEvents, Ignored, Authors
<1>2. before \in Seq(Hidden(KernelEvents))
  BY DEF OwnInv
<1>3. Queued(kind, p, by) = Append(before, e)
  BY DEF Queued
<1> HIDE DEF e, before
<1> QED
  BY <1>1, <1>2, <1>3

LEMMA OwnChange ==
  ASSUME OwnInv, NEW kind \in Kinds, NEW p \in Paths, NEW version \in Nat, NEW by \in Authors,
         by = "peer" => Contains(IF kind = "DELETED" THEN ignoreDelete ELSE ignoreModify, p),
         Change(kind, p, version, by), changes' \in Nat,
         UNCHANGED <<batch, list, queue, sending, ignoreModify, ignoreDelete>>
  PROVE  OwnInv'
<1>1. disk' \in [Paths -> Nat]
  BY DEF Change, OwnInv
<1>2. kq' \in Seq(Hidden(KernelEvents))
  BY QueuedHidden DEF Change, OwnInv
<1>3. Hidden(KernelEvents)' = Hidden(KernelEvents) /\ Hidden(Reports)' = Hidden(Reports)
  BY DEF Hidden, Ignored, Contains, KernelEvents, Reports
<1> QED
  BY <1>1, <1>2, <1>3 DEF OwnInv, Foreign, Reports

(***************************************************************************)
(* The steps.                                                              *)
(***************************************************************************)
LEMMA OwnUser ==
  ASSUME OwnInv, NEW p \in Paths, UserWrites(p) \/ UserDeletes(p)
  PROVE  OwnInv'
<1>1. CASE UserWrites(p)
  <2>1. /\ Change(Overwritten(p), p, IF p \in Dirs THEN Fetched ELSE changes + 2, "user")
        /\ changes' \in Nat
        /\ UNCHANGED <<batch, list, queue, sending, ignoreModify, ignoreDelete>>
    BY <1>1 DEF UserWrites, OwnInv, observer, marks
  <2>2. Overwritten(p) \in Kinds /\ (IF p \in Dirs THEN Fetched ELSE changes + 2) \in Nat
    BY DEF Overwritten, Kinds, Fetched, OwnInv
  <2> QED
    BY <2>1, <2>2, OwnChange DEF Authors
<1>2. CASE UserDeletes(p)
  <2>1. /\ Change("DELETED", p, Absent, "user")
        /\ changes' \in Nat
        /\ UNCHANGED <<batch, list, queue, sending, ignoreModify, ignoreDelete>>
    BY <1>2 DEF UserDeletes, OwnInv, observer, marks
  <2> QED
    BY <2>1, OwnChange DEF Authors, Kinds, Absent
<1> QED
  BY <1>1, <1>2

LEMMA OwnObserver == OwnInv /\ Observer => OwnInv'
<1> SUFFICES ASSUME OwnInv, Observer PROVE OwnInv'
  OBVIOUS
<1>0. UNCHANGED <<ignoreModify, ignoreDelete, disk, changes, sending>>
  BY DEF Observer, Read, Convert, Filter, FilterDone, marks, tree
<1>1. /\ Hidden(KernelEvents)' = Hidden(KernelEvents) /\ Hidden(Reports)' = Hidden(Reports)
      /\ Foreign' = Foreign
  BY <1>0 DEF Hidden, Foreign, Ignored, Contains, KernelEvents, Reports
<1>2. CASE Read
  <2>1. batch' = kq /\ kq' = <<>> /\ UNCHANGED <<list, queue>>
    BY <1>2 DEF Read
  <2> QED
    BY <1>0, <1>1, <2>1 DEF OwnInv
<1>3. CASE Convert
  <2> DEFINE e == Head(batch)
  <2>1. /\ batch # <<>> /\ batch' = Tail(batch) /\ UNCHANGED <<kq, queue>>
        /\ list' = IF Vanished(e) THEN list ELSE <<InotifyToFileevent(e)>> \o list
    BY <1>3 DEF Convert
  <2>2. e \in Hidden(KernelEvents) /\ batch' \in Seq(Hidden(KernelEvents))
    BY <2>1 DEF OwnInv
  <2>3. InotifyToFileevent(e) \in Hidden(Reports)
    BY <2>2 DEF InotifyToFileevent, Hidden, Reports, KernelEvents, Ignored, Absent, OwnInv
  <2>4. list' \in Seq(Hidden(Reports))
    BY <2>1, <2>3 DEF OwnInv
  <2> QED
    BY <1>0, <1>1, <2>1, <2>2, <2>4 DEF OwnInv
<1>4. CASE Filter
  <2> DEFINE e == Head(list)
  <2>1. /\ list # <<>> /\ list' = Tail(list) /\ UNCHANGED <<kq, batch>>
        /\ queue' = IF Ignored(e) THEN queue ELSE Append(queue, e)
    BY <1>4 DEF Filter, tree
  <2>2. e \in Hidden(Reports) /\ list' \in Seq(Hidden(Reports))
    BY <2>1 DEF OwnInv
  <2>3. ~Ignored(e) => e \in Foreign
    BY <2>2 DEF Hidden, Foreign
  <2>4. queue' \in Seq(Foreign)
    BY <2>1, <2>3 DEF OwnInv
  <2> QED
    BY <1>0, <1>1, <2>1, <2>2, <2>4 DEF OwnInv
<1>5. CASE FilterDone
  <2>1. /\ UNCHANGED <<kq, batch, list>>
        /\ queue' = [i \in DOMAIN queue |-> [queue[i] EXCEPT !.new = FALSE]]
    BY <1>5 DEF FilterDone, tree
  <2>2. \A i \in DOMAIN queue : [queue[i] EXCEPT !.new = FALSE] \in Foreign
    <3>1. \A e \in Foreign : [e EXCEPT !.new = FALSE] \in Foreign
      BY DEF Foreign, Reports
    <3> QED
      BY <3>1 DEF OwnInv
  <2>3. queue' \in Seq(Foreign)
    <3>1. queue \in Seq(Foreign)
      BY DEF OwnInv
    <3>2. DOMAIN queue = 1..Len(queue) /\ Len(queue) \in Nat
      BY <3>1
    <3> QED
      BY <2>1, <2>2, <3>2
  <2> QED
    BY <1>0, <1>1, <2>1, <2>3 DEF OwnInv
<1> QED
  BY <1>2, <1>3, <1>4, <1>5 DEF Observer

LEMMA OwnReporter == OwnInv /\ Reporter => OwnInv'
<1> SUFFICES ASSUME OwnInv, Reporter PROVE OwnInv'
  OBVIOUS
<1>1. /\ UNCHANGED <<disk, changes, kq, batch, list, ignoreModify, ignoreDelete>>
      /\ \/ sending' = queue /\ queue' = <<>>
         \/ sending' = <<>> /\ queue' = queue
  BY DEF Reporter, TakeEvents, SendEvents, tree, observer, marks
<1>2. /\ Hidden(KernelEvents)' = Hidden(KernelEvents) /\ Hidden(Reports)' = Hidden(Reports)
      /\ Foreign' = Foreign
  BY <1>1 DEF Hidden, Foreign, Ignored, Contains, KernelEvents, Reports
<1>3. queue' \in Seq(Foreign) /\ sending' \in Seq(Foreign)
  <2>1. queue \in Seq(Foreign) /\ <<>> \in Seq(Foreign)
    BY DEF OwnInv
  <2> QED
    BY <1>1, <2>1
<1>4. /\ kq' \in Seq(Hidden(KernelEvents)) /\ batch' \in Seq(Hidden(KernelEvents))
      /\ list' \in Seq(Hidden(Reports))
      /\ disk' \in [Paths -> Nat] /\ changes' \in Nat
  BY <1>1 DEF OwnInv
<1> QED
  BY <1>2, <1>3, <1>4 DEF OwnInv

\* Whoever changes the directory for the peer has marked the path.
LEMMA OwnMain == Prompt /\ MarkInv /\ OwnInv /\ MainThread => OwnInv'
<1> SUFFICES ASSUME Prompt, MarkInv, OwnInv, MainThread PROVE OwnInv'
  OBVIOUS
<1>0. MarkTypes /\ Marking /\ main.path \in Paths
  BY DEF MarkInv, MarkTypes
<1>1. CASE UpdateFromFiletable
  BY <1>1, OwnUnchanged DEF UpdateFromFiletable, ownVars, tree, observer, marks
<1>2. ASSUME NEW p \in Paths, DownloadFile(p) \/ DeleteFile(p) PROVE OwnInv'
  BY <1>2, OwnUnchanged DEF DownloadFile, DeleteFile, Turn, ownVars, tree, observer, marks
<1>3. CASE Walked
  BY <1>3, OwnUnchanged DEF Walked, ownVars, tree, observer, marks
<1>4. CASE IgnoreModify
  BY <1>0, <1>4, OwnInserted DEF IgnoreModify, tree, observer
<1>5. main.pc = "make" => Contains(ignoreModify, main.path)
  BY <1>0, SaversKept DEF Marking, MarkTypes, At, Count, Contains
<1>6. CASE MakeDir
  <2>1. /\ UNCHANGED <<changes, batch, list, queue, sending, ignoreModify, ignoreDelete>>
        /\ main.pc = "make"
        /\ Change("CREATED", main.path, Fetched, "peer") \/ UNCHANGED tree
    BY <1>6 DEF MakeDir, observer
  <2>2. CASE Change("CREATED", main.path, Fetched, "peer")
    BY <1>0, <1>5, <2>1, <2>2, OwnChange DEF Kinds, Authors, Fetched, OwnInv
  <2>3. CASE UNCHANGED tree
    BY <2>1, <2>3, OwnUnchanged DEF tree, ownVars
  <2> QED
    BY <2>1, <2>2, <2>3
<1>7. CASE MakeFile
  <2>1. /\ UNCHANGED <<changes, batch, list, queue, sending, ignoreModify, ignoreDelete>>
        /\ main.pc = "make"
        /\ Change(Overwritten(main.path), main.path, Fetched, "peer")
    BY <1>7 DEF MakeFile, observer, marks
  <2>2. Overwritten(main.path) \in Kinds \ {"DELETED"}
    BY DEF Overwritten, Kinds
  <2> QED
    BY <1>0, <1>5, <2>1, <2>2, OwnChange DEF Authors, Fetched, OwnInv
<1>8. CASE MakeParent
  <2>1. /\ UNCHANGED <<changes, batch, list, queue, sending, ignoreModify, ignoreDelete>>
        /\ main.path \in Files /\ ~Exists(Parent[main.path])
        /\ Change("CREATED", Parent[main.path], Fetched, "stray") \/ UNCHANGED tree
    BY <1>8 DEF MakeParent, observer
  <2>2. Parent[main.path] \in Paths
    BY <1>0, <2>1, PathsAssumption DEF Exists, Paths
  <2>3. CASE Change("CREATED", Parent[main.path], Fetched, "stray")
    BY <2>1, <2>2, <2>3, OwnChange DEF Kinds, Authors, Fetched, OwnInv
  <2>4. CASE UNCHANGED tree
    BY <2>1, <2>4, OwnUnchanged DEF tree, ownVars
  <2> QED
    BY <2>1, <2>3, <2>4
<1>9. CASE ResumeModify
  BY <1>0, <1>9, OwnRemoved DEF ResumeModify, tree, observer
<1>10. CASE IgnoreDelete
  BY <1>0, <1>10, OwnInserted DEF IgnoreDelete, tree, observer
<1>11. CASE Unlink
  <2>1. /\ UNCHANGED <<changes, batch, list, queue, sending, ignoreModify, ignoreDelete>>
        /\ main.pc = "unlink"
        /\ Change("DELETED", main.path, Absent, "peer") \/ UNCHANGED tree
    BY <1>11 DEF Unlink, observer, marks
  <2>2. Contains(ignoreDelete, main.path)
    BY <1>0, <2>1 DEF Marking, MarkTypes, At, Count, Contains
  <2>3. CASE Change("DELETED", main.path, Absent, "peer")
    BY <1>0, <2>1, <2>2, <2>3, OwnChange DEF Kinds, Authors, Absent, OwnInv
  <2>4. CASE UNCHANGED tree
    BY <2>1, <2>4, OwnUnchanged DEF tree, ownVars
  <2> QED
    BY <2>1, <2>3, <2>4
<1>12. CASE ResumeDelete
  BY <1>0, <1>12, OwnRemoved DEF ResumeDelete, tree, observer
<1> QED
  BY <1>1, <1>2, <1>3, <1>4, <1>6, <1>7, <1>8, <1>9, <1>10, <1>11, <1>12 DEF MainThread

LEMMA OwnSaver == Prompt /\ MarkInv /\ OwnInv /\ Saver => OwnInv'
<1> SUFFICES ASSUME Prompt, MarkInv, OwnInv, NEW p \in Files,
                    SaverOpens(p) \/ SaverCrashes(p) \/ SaverWrites(p) \/ SaverResumes(p)
             PROVE  OwnInv'
  BY DEF Saver
<1>0. MarkTypes /\ Marking /\ p \in Paths
  BY DEF MarkInv, Paths
<1>1. job[p].placed > 0 \/ job[p].open > 0 \/ job[p].detached > 0 => Contains(ignoreModify, p)
  <2>1. /\ job[p].placed \in Nat /\ job[p].open \in Nat
        /\ job[p].detached \in Nat /\ job[p].written \in Nat
    BY <1>0, SaversType DEF Savings
  <2>2. ignoreModify[p] >= Savers(p) /\ ignoreModify[p] \in Nat
    <3>1. Savers(p) \in Nat /\ ignoreModify[p] \in Nat
      BY <1>0, SaversType DEF MarkTypes
    <3>2. ignoreModify[p] >= Savers(p) + Count(At(p, {"make", "resume"}))
      BY <1>0 DEF Marking
    <3> QED
      BY <3>1, <3>2 DEF Count
  <2> QED
    BY <2>1, <2>2 DEF Savers, Contains
<1>2. CASE SaverOpens(p)
  <2>1. /\ UNCHANGED <<changes, batch, list, queue, sending, ignoreModify, ignoreDelete>>
        /\ job[p].placed > 0
        /\ Change(Overwritten(p), p, Fetched, "peer")
    BY <1>2 DEF SaverOpens, observer, marks
  <2>2. Overwritten(p) \in Kinds \ {"DELETED"}
    BY DEF Overwritten, Kinds
  <2> QED
    BY <1>0, <1>1, <2>1, <2>2, OwnChange DEF Authors, Fetched, OwnInv
<1>3. CASE SaverCrashes(p)
  BY <1>3, OwnUnchanged DEF SaverCrashes, ownVars, tree, observer, marks
<1>4. CASE SaverWrites(p)
  <2>1. /\ UNCHANGED <<changes, batch, list, queue, sending, ignoreModify, ignoreDelete>>
        /\ job[p].open > 0 \/ job[p].detached > 0
        /\ Change("MODIFIED", p, Fetched, "peer") \/ UNCHANGED tree
    BY <1>4 DEF SaverWrites, observer, marks
  <2>2. CASE Change("MODIFIED", p, Fetched, "peer")
    BY <1>0, <1>1, <2>1, <2>2, OwnChange DEF Kinds, Authors, Fetched, OwnInv
  <2>3. CASE UNCHANGED tree
    BY <2>1, <2>3, OwnUnchanged DEF tree, ownVars
  <2> QED
    BY <2>1, <2>2, <2>3
<1>5. CASE SaverResumes(p)
  BY <1>0, <1>5, OwnRemoved DEF SaverResumes, tree, observer
<1> QED
  BY <1>2, <1>3, <1>4, <1>5

(***************************************************************************)
(* When WAIT_TIME outlasts what the observer has to read (peer.c:17-18),   *)
(* no event by the peer itself passes the filter of monitor_thread         *)
(* (monitor.c), whatever else goes wrong, the torn read included.          *)
(***************************************************************************)
THEOREM OwnChangesStayHidden ==
  ASSUME Prompt, Paths # {} PROVE Spec => []OwnChangesIgnored
<1>1. MarkInv /\ OwnInv /\ [Next]_vars => OwnInv'
  <2> SUFFICES ASSUME MarkInv, OwnInv, [Next]_vars PROVE OwnInv'
    OBVIOUS
  <2>1. CASE User
    BY <2>1, OwnUser DEF User
  <2>2. CASE UNCHANGED vars
    BY <2>2, OwnUnchanged DEF vars, tree, observer, marks, ownVars
  <2> QED
    BY <2>1, <2>2, OwnObserver, OwnReporter, OwnMain, OwnSaver DEF Next
<1>2. OwnInv => OwnChangesIgnored
  <2> SUFFICES ASSUME OwnInv, NEW s \in {queue, sending}, NEW i \in DOMAIN s
               PROVE  s[i].by # "peer"
    BY DEF OwnChangesIgnored
  <2>1. s \in Seq(Foreign)
    BY DEF OwnInv
  <2>2. s[i] \in Foreign
    BY <2>1
  <2> QED
    BY <2>2 DEF Foreign
<1> QED
  BY <1>1, <1>2, MarkInit, MarkNext, OwnInit, PTL DEF Spec
-----------------------------------------------------------------------------
(***************************************************************************)
(* Types.  Whatever a thread does outside the observer and the reporter is *)
(* one change to the directory, or none.                                   *)
(***************************************************************************)
Seen == {e \in [kind : Kinds, path : Paths, by : Authors, new : BOOLEAN, version : Versions] :
           e.kind = "DELETED" <=> e.version = Absent}

TreeTypes ==
  /\ disk \in [Paths -> Versions] /\ watched \subseteq Dirs
  /\ kq \in Seq(KernelEvents)
  /\ byUser \subseteq Paths /\ lost \subseteq Paths

RouteTypes ==
  /\ batch \in Seq(KernelEvents)
  /\ list \in Seq(Seen) /\ queue \in Seq(Seen) /\ sending \in Seq(Seen)
  /\ obs \in {"convert", "filter"} /\ early \subseteq Paths
  /\ told \in [Paths -> Versions]

CountTypes ==
  /\ todo \subseteq Orders /\ crashed \in BOOLEAN
  /\ changes \in 0..MaxUser /\ orders \in 0..MaxOrders

Types == TreeTypes /\ RouteTypes /\ CountTypes

route == <<observer, sending, told>>

LEMMA SmallVersions == Absent \in Versions /\ Fetched \in Versions /\ Fetched # Absent
  BY BoundsAssumption DEF Absent, Fetched, Versions

LEMMA TypesInit == Init => Types
<1> SUFFICES ASSUME Init PROVE Types
  OBVIOUS
<1>1. disk \in [Paths -> Versions] /\ told = disk
  BY SmallVersions DEF Init
<1>2. TreeTypes
  BY <1>1 DEF Init, TreeTypes
<1>3. RouteTypes
  <2>1. <<>> \in Seq(KernelEvents) /\ <<>> \in Seq(Seen)
    OBVIOUS
  <2>2. batch = <<>> /\ list = <<>> /\ queue = <<>> /\ sending = <<>> /\ obs = "convert" /\ early = {}
    BY DEF Init
  <2> QED
    BY <1>1, <2>1, <2>2 DEF RouteTypes
<1>4. CountTypes
  <2>1. 0 \in 0..MaxUser /\ 0 \in 0..MaxOrders
    BY BoundsAssumption
  <2> QED
    BY <2>1 DEF Init, CountTypes
<1> QED
  BY <1>2, <1>3, <1>4 DEF Types

LEMMA RouteUnchanged == RouteTypes /\ UNCHANGED route => RouteTypes'
  BY DEF RouteTypes, route, observer, Seen

LEMMA CountsTyped == Types /\ [Next]_vars => CountTypes'
<1> SUFFICES ASSUME Types, [Next]_vars PROVE CountTypes'
  OBVIOUS
<1> USE DEF Types, CountTypes
<1>1. CASE User
  BY <1>1, BoundsAssumption DEF User, UserWrites, UserDeletes, peer
<1>2. CASE Observer
  BY <1>2 DEF Observer, Read, Convert, Filter, FilterDone, peer
<1>3. CASE Reporter
  BY <1>3 DEF Reporter, TakeEvents, SendEvents, peer
<1>4. CASE UpdateFromFiletable
  <2>1. todo' \subseteq Orders
    BY <1>4 DEF UpdateFromFiletable, Orders
  <2>2. /\ Cardinality(todo') \in 1..(MaxOrders - orders) /\ orders' = orders + Cardinality(todo')
        /\ UNCHANGED <<crashed, changes>>
    BY <1>4 DEF UpdateFromFiletable
  <2>3. orders' \in 0..MaxOrders
    <3> DEFINE n == Cardinality(todo')
    <3>1. n \in 1..(MaxOrders - orders) /\ orders' = orders + n
      BY <2>2
    <3> HIDE DEF n
    <3> QED
      BY <3>1, BoundsAssumption
  <2> QED
    BY <2>1, <2>2, <2>3
<1>5. ASSUME NEW p \in Paths, DownloadFile(p) \/ DeleteFile(p) PROVE CountTypes'
  BY <1>5 DEF DownloadFile, DeleteFile, Turn
<1>6. CASE Walked \/ IgnoreModify \/ MakeDir \/ MakeFile \/ MakeParent \/ ResumeModify
           \/ IgnoreDelete \/ Unlink \/ ResumeDelete
  BY <1>6 DEF Walked, IgnoreModify, MakeDir, MakeFile, MakeParent, ResumeModify,
              IgnoreDelete, Unlink, ResumeDelete
<1>7. CASE Saver
  BY <1>7 DEF Saver, SaverOpens, SaverCrashes, SaverWrites, SaverResumes
<1>8. CASE UNCHANGED vars
  BY <1>8 DEF vars, peer
<1> QED
  BY <1>1, <1>2, <1>3, <1>4, <1>5, <1>6, <1>7, <1>8 DEF Next, MainThread

\* A change of a path, deleted or not as the event says, or none.
Changing ==
  \E kind \in Kinds, p \in Paths, version \in Versions, by \in Authors :
    (kind = "DELETED" <=> version = Absent) /\ Change(kind, p, version, by)
TreeStep == UNCHANGED route /\ (Changing \/ UNCHANGED <<tree, lost>>)

LEMMA Rewritten ==
  ASSUME NEW p \in Paths, NEW version \in Versions, NEW by \in Authors, version # Absent,
         Change(Overwritten(p), p, version, by)
  PROVE  Changing
<1>1. Overwritten(p) \in Kinds /\ Overwritten(p) # "DELETED"
  BY DEF Overwritten, Kinds
<1> QED
  BY <1>1 DEF Changing

LEMMA OthersTreeStep ==
  ASSUME MarkTypes, Types, User \/ MainThread \/ Saver
  PROVE  TreeStep
<1> USE DEF TreeStep, route
<1>0. /\ "CREATED" \in Kinds /\ "MODIFIED" \in Kinds /\ "DELETED" \in Kinds
      /\ "user" \in Authors /\ "peer" \in Authors /\ "stray" \in Authors
      /\ main.path \in Paths
  BY DEF Kinds, Authors, MarkTypes
<1>1. ASSUME NEW p \in Paths, UserWrites(p) PROVE TreeStep
  <2> DEFINE version == IF p \in Dirs THEN Fetched ELSE changes + 2
  <2>1. version \in Versions /\ version # Absent
    BY <1>1, SmallVersions, BoundsAssumption DEF UserWrites, Types, CountTypes, Versions, Absent
  <2>2. Change(Overwritten(p), p, version, "user") /\ UNCHANGED <<observer, sending, told>>
    BY <1>1 DEF UserWrites
  <2> HIDE DEF version
  <2> QED
    BY <1>0, <2>1, <2>2, Rewritten
<1>2. ASSUME NEW p \in Paths, UserDeletes(p) PROVE TreeStep
  BY <1>0, <1>2, SmallVersions DEF UserDeletes, Changing
<1>3. CASE UpdateFromFiletable
  BY <1>3 DEF UpdateFromFiletable
<1>4. ASSUME NEW p \in Paths, DownloadFile(p) \/ DeleteFile(p) PROVE TreeStep
  BY <1>4 DEF DownloadFile, DeleteFile, Turn
<1>5. CASE Walked \/ IgnoreModify \/ ResumeModify \/ IgnoreDelete \/ ResumeDelete
  BY <1>5 DEF Walked, IgnoreModify, ResumeModify, IgnoreDelete, ResumeDelete
<1>6. CASE MakeDir
  <2>1. /\ UNCHANGED <<observer, sending, told>>
        /\ Change("CREATED", main.path, Fetched, "peer") \/ UNCHANGED <<tree, lost>>
    BY <1>6 DEF MakeDir
  <2> QED
    BY <1>0, <2>1, SmallVersions DEF Changing
<1>7. CASE MakeFile
  <2>1. /\ UNCHANGED <<observer, sending, told>>
        /\ Change(Overwritten(main.path), main.path, Fetched, "peer")
    BY <1>7 DEF MakeFile
  <2> QED
    BY <1>0, <2>1, SmallVersions, Rewritten
<1>8. CASE MakeParent
  <2>1. /\ UNCHANGED <<observer, sending, told>>
        /\ main.path \in Files /\ ~Exists(Parent[main.path])
        /\ Change("CREATED", Parent[main.path], Fetched, "stray") \/ UNCHANGED <<tree, lost>>
    BY <1>8 DEF MakeParent
  <2>2. Parent[main.path] \in Paths
    BY <1>0, <2>1, PathsAssumption DEF Exists, Paths
  <2> QED
    BY <1>0, <2>1, <2>2, SmallVersions DEF Changing
<1>9. CASE Unlink
  <2>1. /\ UNCHANGED <<observer, sending, told>>
        /\ Change("DELETED", main.path, Absent, "peer") \/ UNCHANGED <<tree, lost>>
    BY <1>9 DEF Unlink
  <2> QED
    BY <1>0, <2>1, SmallVersions DEF Changing
<1>10. CASE Saver
  <2> SUFFICES ASSUME NEW p \in Files,
                      SaverOpens(p) \/ SaverCrashes(p) \/ SaverWrites(p) \/ SaverResumes(p)
               PROVE  TreeStep
    BY <1>10 DEF Saver
  <2>0. p \in Paths
    BY DEF Paths
  <2>1. CASE SaverOpens(p)
    BY <1>0, <2>0, <2>1, SmallVersions, Rewritten DEF SaverOpens
  <2>2. CASE SaverWrites(p)
    <3>1. /\ UNCHANGED <<observer, sending, told>>
          /\ Change("MODIFIED", p, Fetched, "peer") \/ UNCHANGED <<tree, lost>>
      BY <2>2 DEF SaverWrites
    <3> QED
      BY <1>0, <2>0, <3>1, SmallVersions DEF Changing
  <2>3. CASE SaverCrashes(p) \/ SaverResumes(p)
    BY <2>3 DEF SaverCrashes, SaverResumes
  <2> QED
    BY <2>1, <2>2, <2>3
<1> QED
  BY <1>1, <1>2, <1>3, <1>4, <1>5, <1>6, <1>7, <1>8, <1>9, <1>10 DEF User, MainThread

LEMMA QueuedTail ==
  ASSUME TreeTypes, NEW kind \in Kinds, NEW p \in Paths, NEW by \in Authors
  PROVE  LET k == Queued(kind, p, by) IN
           /\ k \in Seq(KernelEvents) /\ Len(k) >= 1
           /\ k[Len(k)].path = p /\ k[Len(k)].kind = kind
           /\ by = "user" => k[Len(k)].by = "user"
           /\ Len(k) - 1 <= Len(kq)
           /\ \A i \in 1..(Len(k) - 1) : k[i] = kq[i]
           /\ \A i \in Len(k)..Len(kq) : kq[i].path = p
<1> DEFINE n == Len(kq)
           alike == n > 0 /\ kq[n].kind = kind /\ kq[n].path = p
           author == IF alike /\ kq[n].by = "user" THEN "user" ELSE by
           e == [kind |-> kind, path |-> p, by |-> author]
           before == IF alike THEN SubSeq(kq, 1, n - 1) ELSE kq
           k == Append(before, e)
<1>0. n \in Nat /\ kq \in Seq(KernelEvents)
  BY DEF TreeTypes
<1>1. /\ e \in KernelEvents
      /\ e.path = p /\ e.kind = kind /\ (by = "user" => e.by = "user")
  BY DEF KernelEvents, Authors
<1>2. /\ before \in Seq(KernelEvents)
      /\ Len(before) = IF alike THEN n - 1 ELSE n
      /\ \A i \in 1..Len(before) : before[i] = kq[i]
  BY <1>0
<1>3. Queued(kind, p, by) = k
  BY DEF Queued
<1>4. \A i \in (Len(before) + 1)..n : kq[i].path = p
  BY <1>0, <1>2
<1> HIDE DEF e, before, alike
<1>5. k \in Seq(KernelEvents) /\ Len(k) = Len(before) + 1 /\ k[Len(k)] = e
  BY <1>1, <1>2
<1>6. Len(before) \in Nat /\ Len(before) <= n
  BY <1>0, <1>2
<1>7. \A i \in 1..(Len(k) - 1) : k[i] = kq[i]
  BY <1>1, <1>2, <1>5
<1> HIDE DEF k
<1>8. /\ k \in Seq(KernelEvents) /\ Len(k) >= 1
      /\ k[Len(k)].path = p /\ k[Len(k)].kind = kind
      /\ by = "user" => k[Len(k)].by = "user"
      /\ Len(k) - 1 <= Len(kq)
      /\ \A i \in 1..(Len(k) - 1) : k[i] = kq[i]
      /\ \A i \in Len(k)..Len(kq) : kq[i].path = p
  BY <1>0, <1>1, <1>4, <1>5, <1>6, <1>7
<1> QED
  BY <1>3, <1>8

LEMMA TreeTyped == Types /\ Changing => TreeTypes'
<1> SUFFICES ASSUME Types, NEW kind \in Kinds, NEW p \in Paths, NEW version \in Versions,
                    NEW by \in Authors, Change(kind, p, version, by)
             PROVE  TreeTypes'
  BY DEF Changing
<1>1. Queued(kind, p, by) \in Seq(KernelEvents)
  BY QueuedTail DEF Types
<1> QED
  BY <1>1 DEF Change, Types, TreeTypes

LEMMA TypesObserver == Types /\ Observer => TreeTypes' /\ RouteTypes'
<1> SUFFICES ASSUME Types, Observer PROVE TreeTypes' /\ RouteTypes'
  OBVIOUS
<1>0. /\ UNCHANGED <<disk, byUser, sending, told>>
      /\ sending \in Seq(Seen) /\ Seen' = Seen
  BY DEF Observer, Read, Convert, Filter, FilterDone, tree, Types, RouteTypes, Seen
<1>1. CASE Read
  BY <1>0, <1>1 DEF Read, Types, TreeTypes, RouteTypes
<1>2. CASE Convert
  <2> DEFINE e == Head(batch)
  <2>1. /\ batch # <<>> /\ batch' = Tail(batch) /\ UNCHANGED <<kq, queue, early, lost>>
        /\ list' = IF Vanished(e) THEN list ELSE <<InotifyToFileevent(e)>> \o list
        /\ watched' = watched \/ (watched' = watched \cup {e.path} /\ e.path \in Dirs)
        /\ obs' \in {"convert", "filter"}
    BY <1>2 DEF Convert
  <2>2. e \in KernelEvents /\ batch' \in Seq(KernelEvents)
    BY <2>1 DEF Types, RouteTypes
  <2>3. ~Vanished(e) => InotifyToFileevent(e) \in Seen
    <3>1. e.path \in Paths /\ Exists(e.path) = (disk[e.path] # Absent)
      BY <2>2, PathsAssumption DEF KernelEvents, Exists
    <3> QED
      BY <2>2, <3>1, SmallVersions
      DEF InotifyToFileevent, Vanished, Seen, KernelEvents, Types, TreeTypes
  <2>4. list' \in Seq(Seen)
    BY <2>1, <2>3 DEF Types, RouteTypes
  <2> QED
    BY <1>0, <2>1, <2>2, <2>4 DEF Types, TreeTypes, RouteTypes
<1>3. CASE Filter
  <2> DEFINE e == Head(list)
  <2>1. /\ list # <<>> /\ list' = Tail(list) /\ UNCHANGED <<watched, kq, batch, obs, early>>
        /\ queue' = queue \/ queue' = Append(queue, e)
        /\ lost' = lost \/ lost' = lost \cup {e.path}
    BY <1>3 DEF Filter, tree
  <2>2. e \in Seen /\ list' \in Seq(Seen)
    BY <2>1 DEF Types, RouteTypes
  <2> HIDE DEF e
  <2>3. queue' \in Seq(Seen)
    <3>1. queue \in Seq(Seen)
      BY DEF Types, RouteTypes
    <3>2. Append(queue, e) \in Seq(Seen)
      BY <2>2, <3>1
    <3> QED
      BY <2>1, <3>1, <3>2
  <2>4. e.path \in Paths
    BY <2>2 DEF Seen
  <2> QED
    BY <1>0, <2>1, <2>2, <2>3, <2>4 DEF Types, TreeTypes, RouteTypes
<1>4. CASE FilterDone
  <2>1. /\ UNCHANGED <<watched, kq, batch, list, lost>> /\ obs' = "convert" /\ early' = {}
        /\ queue' = [i \in DOMAIN queue |-> [queue[i] EXCEPT !.new = FALSE]]
    BY <1>4 DEF FilterDone, tree
  <2>2. \A i \in DOMAIN queue : [queue[i] EXCEPT !.new = FALSE] \in Seen
    <3>1. \A e \in Seen : [e EXCEPT !.new = FALSE] \in Seen
      BY DEF Seen
    <3> QED
      BY <3>1 DEF Types, RouteTypes
  <2>3. queue' \in Seq(Seen)
    <3>1. DOMAIN queue = 1..Len(queue) /\ Len(queue) \in Nat
      BY DEF Types, RouteTypes
    <3> QED
      BY <2>1, <2>2, <3>1
  <2> QED
    BY <1>0, <2>1, <2>3 DEF Types, TreeTypes, RouteTypes
<1> QED
  BY <1>1, <1>2, <1>3, <1>4 DEF Observer

LEMMA TypesReporter == Types /\ Reporter => TreeTypes' /\ RouteTypes'
<1> SUFFICES ASSUME Types, Reporter PROVE TreeTypes' /\ RouteTypes'
  OBVIOUS
<1>0. UNCHANGED <<tree, lost, batch, list, obs>> /\ Seen' = Seen
  BY DEF Reporter, TakeEvents, SendEvents, observer, Seen
<1>1. TreeTypes'
  BY <1>0 DEF Types, TreeTypes, tree
<1>2. CASE TakeEvents
  <2>1. /\ sending' = queue /\ queue' = <<>> /\ told' = told
        /\ early' = early \cup {queue[i].path : i \in {j \in DOMAIN queue : queue[j].new}}
    BY <1>2 DEF TakeEvents
  <2>2. early' \subseteq Paths
    <3>1. \A i \in DOMAIN queue : queue[i] \in Seen
      BY DEF Types, RouteTypes
    <3> QED
      BY <2>1, <3>1 DEF Types, RouteTypes, Seen
  <2> QED
    BY <1>0, <1>1, <2>1, <2>2 DEF Types, RouteTypes
<1>3. CASE SendEvents
  <2>1. sending' = <<>> /\ UNCHANGED <<queue, early>>
    BY <1>3 DEF SendEvents, observer
  <2>2. told' \in [Paths -> Versions]
    <3> DEFINE first(p) == {i \in Firsts(sending) : sending[i].path = p}
               now(p) == IF first(p) = {} THEN told[p]
                         ELSE sending[CHOOSE i \in first(p) : TRUE].version
    <3>1. \A i \in DOMAIN sending : sending[i] \in Seen
      BY DEF Types, RouteTypes
    <3>2. \A i \in DOMAIN sending : sending[i].version \in Versions
      BY <3>1 DEF Seen
    <3>3. \A p \in Paths : now(p) \in Versions
      <4> SUFFICES ASSUME NEW p \in Paths PROVE now(p) \in Versions
        OBVIOUS
      <4>1. first(p) # {} => (CHOOSE i \in first(p) : TRUE) \in DOMAIN sending
        BY DEF Firsts
      <4> QED
        BY <3>2, <4>1 DEF Types, RouteTypes
    <3>4. told' = [p \in Paths |-> now(p)]
      BY <1>3 DEF SendEvents
    <3> HIDE DEF now
    <3> QED
      BY <3>3, <3>4
  <2> QED
    BY <1>0, <1>1, <2>1, <2>2 DEF Types, RouteTypes
<1> QED
  BY <1>1, <1>2, <1>3 DEF Reporter

LEMMA TypesNext == MarkTypes /\ Types /\ [Next]_vars => Types'
<1> SUFFICES ASSUME MarkTypes, Types, [Next]_vars PROVE TreeTypes' /\ RouteTypes'
  BY CountsTyped DEF Types
<1>1. CASE TreeStep
  <2>1. RouteTypes'
    BY <1>1, RouteUnchanged DEF TreeStep, Types
  <2>2. CASE Changing
    BY <2>1, <2>2, TreeTyped
  <2>3. CASE UNCHANGED <<tree, lost>>
    BY <2>1, <2>3 DEF tree, Types, TreeTypes
  <2> QED
    BY <1>1, <2>2, <2>3 DEF TreeStep
<1>2. CASE UNCHANGED vars
  <2>1. TreeStep
    BY <1>2 DEF vars, TreeStep, route
  <2> QED
    BY <1>1, <2>1
<1> QED
  BY <1>1, <1>2, TypesObserver, TypesReporter, OthersTreeStep DEF Next

(***************************************************************************)
(* Nothing on the way from the kernel to the tracker is malformed: in      *)
(* particular fileobserver.c:41-97 makes an event without a file for a     *)
(* deletion, and only for a deletion.                                      *)
(***************************************************************************)
THEOREM TypeCorrect == ASSUME Paths # {} PROVE Spec => []TypeOK
<1>1. MarkTypes /\ Types => TypeOK
  <2> SUFFICES ASSUME MarkTypes, Types PROVE TypeOK
    OBVIOUS
  <2>1. ASSUME NEW s \in {list, queue, sending}, NEW i \in DOMAIN s
        PROVE  /\ s[i].kind \in Kinds /\ s[i].path \in Paths /\ s[i].by \in Authors
               /\ s[i].version \in Versions
               /\ s[i].kind = "DELETED" <=> s[i].version = Absent
    <3>1. s \in Seq(Seen)
      BY DEF Types, RouteTypes
    <3>2. s[i] \in Seen
      BY <3>1
    <3> QED
      BY <3>2 DEF Seen
  <2> QED
    BY <2>1 DEF TypeOK, MarkTypes, Types, TreeTypes, RouteTypes, CountTypes, Pcs
<1>2. MarkInv => MarkTypes
  BY DEF MarkInv
<1> QED
  BY <1>1, <1>2, MarkInit, MarkNext, TypesInit, TypesNext, PTL DEF Spec
-----------------------------------------------------------------------------
(***************************************************************************)
(* Where the last event of a path the user changed last has got to: it is  *)
(* the last of the path in what the kernel queued, the last of it in what  *)
(* is left of one read, the first of it in the list, and then the first of *)
(* it in the update that carries it.                                       *)
(***************************************************************************)
Occurs(s, p) == \E i \in DOMAIN s : s[i].path = p
Starts(s, p) == \E i \in Firsts(s) : s[i].path = p
Lasts(s) == {i \in DOMAIN s : \A j \in (i + 1)..Len(s) : s[j].path # s[i].path}

EndsWell(s, p) ==
  \A i \in Lasts(s) :
    s[i].path = p => s[i].by = "user" /\ (s[i].kind = "DELETED" <=> disk[p] = Absent)
StartsWell(s, p) == \A i \in Firsts(s) : s[i].path = p => s[i].version = disk[p]
StartsByUser(s, p) == \A i \in Firsts(s) : s[i].path = p => s[i].by = "user"

\* The filter has let an event of p from this read pass.
Passed(p) == p \in early \/ \E i \in DOMAIN queue : queue[i].path = p /\ queue[i].new

Settled(p) ==
  IF Starts(queue, p) THEN StartsWell(queue, p)
  ELSE IF Starts(sending, p) THEN StartsWell(sending, p)
  ELSE told[p] = disk[p]

Followed(p) ==
  IF Occurs(kq, p) THEN EndsWell(kq, p)
  ELSE IF Occurs(batch, p) THEN EndsWell(batch, p)
  ELSE IF Occurs(list, p) /\ ~Passed(p) THEN StartsWell(list, p) /\ StartsByUser(list, p)
  ELSE Settled(p)

\* While a read is converted the filter has done nothing yet.
Phases ==
  /\ obs = "convert" => early = {} /\ \A i \in DOMAIN queue : ~queue[i].new
  /\ obs = "filter" => batch = <<>>
  /\ \A i \in DOMAIN list : list[i].new

WordInv == Phases /\ \A p \in byUser \ lost : Followed(p)

LEMMA WordInit == Init => WordInv
<1> SUFFICES ASSUME Init PROVE Phases
  BY DEF Init, WordInv
<1> QED
  BY DEF Init, Phases

LEMMA WordChange == Types /\ WordInv /\ UNCHANGED route /\ Changing => WordInv'
<1> SUFFICES ASSUME Types, WordInv, UNCHANGED route,
                    NEW kind \in Kinds, NEW p \in Paths, NEW version \in Versions,
                    NEW by \in Authors, kind = "DELETED" <=> version = Absent,
                    Change(kind, p, version, by)
             PROVE  WordInv'
  BY DEF Changing
<1>1. Phases'
  BY DEF WordInv, Phases, route, observer
<1> DEFINE k == Queued(kind, p, by)
           n == Len(k)
<1>2. /\ k \in Seq(KernelEvents) /\ n >= 1
      /\ k[n].path = p /\ k[n].kind = kind
      /\ by = "user" => k[n].by = "user"
      /\ n - 1 <= Len(kq)
      /\ \A i \in 1..(n - 1) : k[i] = kq[i]
      /\ \A i \in n..Len(kq) : kq[i].path = p
  BY QueuedTail DEF Types
<1>3. n \in Nat /\ DOMAIN k = 1..n /\ Len(kq) \in Nat /\ DOMAIN kq = 1..Len(kq)
  BY <1>2 DEF Types, TreeTypes
<1>4. kq' = IF Watching(p) THEN k ELSE kq
  BY DEF Change
<1> HIDE DEF k
<1>5. /\ disk' = [disk EXCEPT ![p] = version] /\ disk \in [Paths -> Versions]
      /\ byUser' = IF by = "user" THEN byUser \cup {p} ELSE byUser \ {p}
      /\ lost' = IF by = "user" /\ ~Watching(p) THEN lost \cup {p} ELSE lost
  BY DEF Change, Types, TreeTypes
<1>6. ASSUME NEW q \in byUser' \ lost', q # p PROVE Followed(q)'
  <2>1. q \in byUser \ lost /\ disk'[q] = disk[q] /\ Followed(q) /\ q \in Paths
    BY <1>5, <1>6 DEF WordInv, Types, TreeTypes
  <2>2. Occurs(k, q) <=> Occurs(kq, q)
    <3>1. ASSUME Occurs(k, q) PROVE Occurs(kq, q)
      <4>1. PICK i \in 1..n : k[i].path = q
        BY <1>3, <3>1 DEF Occurs
      <4>2. i \in 1..(n - 1) /\ i \in 1..Len(kq)
        BY <1>2, <1>3, <1>6, <4>1
      <4> QED
        BY <1>2, <1>3, <4>1, <4>2 DEF Occurs
    <3>2. ASSUME Occurs(kq, q) PROVE Occurs(k, q)
      <4>1. PICK i \in 1..Len(kq) : kq[i].path = q
        BY <1>3, <3>2 DEF Occurs
      <4>2. i \in 1..(n - 1) /\ i \in 1..n
        BY <1>2, <1>3, <1>6, <4>1
      <4> QED
        BY <1>2, <1>3, <4>1, <4>2 DEF Occurs
    <3> QED
      BY <3>1, <3>2
  <2>3. EndsWell(kq, q) => \A i \in Lasts(k) :
          k[i].path = q => k[i].by = "user" /\ (k[i].kind = "DELETED" <=> disk[q] = Absent)
    <3> SUFFICES ASSUME EndsWell(kq, q), NEW i \in Lasts(k), k[i].path = q
                 PROVE  k[i].by = "user" /\ (k[i].kind = "DELETED" <=> disk[q] = Absent)
      OBVIOUS
    <3>1. i \in 1..n /\ \A j \in (i + 1)..n : k[j].path # q
      BY <1>3 DEF Lasts
    <3>2. i \in 1..(n - 1) /\ i \in 1..Len(kq)
      BY <1>2, <1>3, <1>6, <3>1
    <3>3. k[i] = kq[i]
      BY <1>2, <3>2
    <3>4. ASSUME NEW j \in (i + 1)..Len(kq) PROVE kq[j].path # q
      <4>1. CASE j < n
        <5>1. j \in 1..(n - 1) /\ j \in (i + 1)..n
          BY <1>3, <3>2, <3>4, <4>1
        <5> QED
          BY <1>2, <3>1, <5>1
      <4>2. CASE j >= n
        <5>1. j \in n..Len(kq)
          BY <1>3, <3>2, <3>4, <4>2
        <5> QED
          BY <1>2, <1>6, <5>1
      <4> QED
        BY <1>3, <3>2, <3>4, <4>1, <4>2
    <3>5. i \in Lasts(kq)
      BY <1>3, <3>2, <3>3, <3>4 DEF Lasts
    <3> QED
      BY <3>3, <3>5 DEF EndsWell
  <2>4. (EndsWell(kq, q) => EndsWell(kq, q)') /\ (Occurs(kq, q)' <=> Occurs(kq, q))
    <3>1. CASE kq' = k
      BY <2>1, <2>2, <2>3, <3>1 DEF EndsWell, Occurs, Lasts
    <3>2. CASE kq' = kq
      BY <2>1, <3>2 DEF EndsWell, Occurs, Lasts
    <3> QED
      BY <1>4, <3>1, <3>2
  <2>5. /\ Occurs(batch, q)' = Occurs(batch, q) /\ EndsWell(batch, q)' = EndsWell(batch, q)
        /\ Occurs(list, q)' = Occurs(list, q) /\ Passed(q)' = Passed(q)
        /\ StartsWell(list, q)' = StartsWell(list, q)
        /\ StartsByUser(list, q)' = StartsByUser(list, q)
        /\ Settled(q)' = Settled(q)
    BY <2>1 DEF Occurs, EndsWell, Lasts, StartsWell, StartsByUser, Firsts, Starts, Passed, Settled,
                route, observer
  <2> QED
    BY <2>1, <2>4, <2>5 DEF Followed
<1>7. ASSUME p \in byUser' \ lost' PROVE Followed(p)'
  <2>1. by = "user" /\ kq' = k
    BY <1>4, <1>5, <1>7
  <2>2. disk'[p] = version
    BY <1>5
  <2>3. Occurs(kq, p)'
    <3>1. n \in 1..n
      BY <1>2, <1>3
    <3>2. \E i \in DOMAIN k : k[i].path = p
      BY <1>2, <1>3, <3>1
    <3> QED
      BY <2>1, <3>2 DEF Occurs
  <2>4. ASSUME NEW i \in Lasts(k), k[i].path = p PROVE i = n
    <3>1. i \in 1..n /\ \A j \in (i + 1)..n : k[j].path # p
      BY <1>3, <2>4 DEF Lasts
    <3>2. ASSUME i # n PROVE n \in (i + 1)..n
      <4> HIDE DEF n
      <4> QED
        BY <1>3, <3>1, <3>2
    <3> QED
      BY <1>2, <3>1, <3>2
  <2>5. \A i \in Lasts(k) :
          k[i].path = p => k[i].by = "user" /\ (k[i].kind = "DELETED" <=> version = Absent)
    BY <1>2, <2>1, <2>4
  <2>6. EndsWell(kq, p)'
    BY <2>1, <2>2, <2>5 DEF EndsWell, Lasts
  <2> QED
    BY <2>3, <2>6 DEF Followed
<1> QED
  BY <1>1, <1>6, <1>7 DEF WordInv

LEMMA WordRead == Types /\ WordInv /\ Read => WordInv'
<1> SUFFICES ASSUME Types, WordInv, Read PROVE WordInv'
  OBVIOUS
<1>1. /\ obs = "convert" /\ batch = <<>> /\ list = <<>> /\ batch' = kq /\ kq' = <<>>
      /\ UNCHANGED <<disk, byUser, lost, list, obs, queue, early, sending, told>>
  BY DEF Read
<1>2. Phases'
  BY <1>1 DEF WordInv, Phases
<1>3. ASSUME NEW p \in byUser \ lost PROVE Followed(p)'
  <2>1. Followed(p) /\ ~Occurs(list, p) /\ ~Occurs(batch, p)
    BY <1>1, <1>3 DEF WordInv, Occurs
  <2>2. ~Occurs(kq, p)' /\ ~Occurs(list, p)' /\ Occurs(batch, p)' = Occurs(kq, p)
    BY <1>1 DEF Occurs
  <2>3. EndsWell(batch, p)' = EndsWell(kq, p) /\ Settled(p)' = Settled(p)
    BY <1>1 DEF EndsWell, Lasts, Settled, Starts, StartsWell, Firsts
  <2> QED
    BY <2>1, <2>2, <2>3 DEF Followed
<1> QED
  BY <1>1, <1>2, <1>3 DEF WordInv

\* What is left of a sequence ends as it did.
LEMMA TailEnds ==
  ASSUME NEW S, NEW s \in Seq(S), s # <<>>
  PROVE  LET t == Tail(s) IN
           /\ t \in Seq(S) /\ Len(t) + 1 = Len(s)
           /\ \A i \in DOMAIN t : i + 1 \in DOMAIN s /\ t[i] = s[i + 1]
           /\ \A i \in DOMAIN s : i # 1 => i - 1 \in DOMAIN t /\ t[i - 1] = s[i]
           /\ 1 \in DOMAIN s /\ Head(s) = s[1]
<1> DEFINE t == Tail(s)
<1>1. t \in Seq(S) /\ Len(t) + 1 = Len(s) /\ Len(t) \in Nat /\ Len(s) \in Nat
  OBVIOUS
<1>2. DOMAIN t = 1..Len(t) /\ DOMAIN s = 1..Len(s) /\ Head(s) = s[1]
  BY <1>1
<1>3. \A i \in 1..Len(t) : t[i] = s[i + 1]
  OBVIOUS
<1> HIDE DEF t
<1>4. \A i \in DOMAIN t : i + 1 \in DOMAIN s /\ t[i] = s[i + 1]
  BY <1>1, <1>2, <1>3
<1>5. \A i \in DOMAIN s : i # 1 => i - 1 \in DOMAIN t /\ t[i - 1] = s[i]
  <2> SUFFICES ASSUME NEW i \in DOMAIN s, i # 1 PROVE i - 1 \in DOMAIN t /\ t[i - 1] = s[i]
    OBVIOUS
  <2>1. i - 1 \in DOMAIN t /\ (i - 1) + 1 = i
    BY <1>1, <1>2
  <2> QED
    BY <1>4, <2>1
<1> QED
  BY <1>1, <1>2, <1>4, <1>5

LEMMA ConsStarts ==
  ASSUME NEW S, NEW s \in Seq(S), NEW e \in S
  PROVE  LET t == <<e>> \o s IN
           /\ t \in Seq(S) /\ 1 \in DOMAIN t /\ t[1] = e
           /\ \A i \in DOMAIN s : i + 1 \in DOMAIN t /\ t[i + 1] = s[i]
           /\ \A i \in DOMAIN t : i # 1 => i - 1 \in DOMAIN s /\ t[i] = s[i - 1]
<1> DEFINE t == <<e>> \o s
<1>1. t \in Seq(S) /\ Len(t) = Len(s) + 1 /\ Len(s) \in Nat
  OBVIOUS
<1>2. DOMAIN t = 1..Len(t) /\ DOMAIN s = 1..Len(s) /\ t[1] = e
  BY <1>1
<1>3. \A i \in 1..Len(s) : t[i + 1] = s[i]
  OBVIOUS
<1> HIDE DEF t
<1>4. \A i \in DOMAIN s : i + 1 \in DOMAIN t /\ t[i + 1] = s[i]
  BY <1>1, <1>2, <1>3
<1>5. \A i \in DOMAIN t : i # 1 => i - 1 \in DOMAIN s /\ t[i] = s[i - 1]
  <2> SUFFICES ASSUME NEW i \in DOMAIN t, i # 1 PROVE i - 1 \in DOMAIN s /\ t[i] = s[i - 1]
    OBVIOUS
  <2>1. i - 1 \in DOMAIN s /\ (i - 1) + 1 = i
    BY <1>1, <1>2
  <2> QED
    BY <1>4, <2>1
<1>6. 1 \in DOMAIN t
  BY <1>1, <1>2
<1> QED
  BY <1>1, <1>2, <1>4, <1>5, <1>6

LEMMA TailStarts ==
  ASSUME NEW S, NEW s \in Seq(S), s # <<>>, NEW p, s[1].path # p
  PROVE  /\ Occurs(Tail(s), p) <=> Occurs(s, p)
         /\ \A i \in Firsts(Tail(s)) : Tail(s)[i].path = p =>
              i + 1 \in Firsts(s) /\ s[i + 1] = Tail(s)[i]
<1> DEFINE t == Tail(s)
<1>1. /\ t \in Seq(S) /\ Len(t) + 1 = Len(s)
      /\ \A i \in DOMAIN t : i + 1 \in DOMAIN s /\ t[i] = s[i + 1]
      /\ \A i \in DOMAIN s : i # 1 => i - 1 \in DOMAIN t /\ t[i - 1] = s[i]
  BY TailEnds
<1>2. DOMAIN t = 1..Len(t) /\ DOMAIN s = 1..Len(s) /\ Len(t) \in Nat /\ Len(s) \in Nat
  BY <1>1
<1> HIDE DEF t
<1>3. Occurs(t, p) <=> Occurs(s, p)
  BY <1>1 DEF Occurs
<1>4. ASSUME NEW i \in Firsts(t), t[i].path = p PROVE i + 1 \in Firsts(s) /\ s[i + 1] = t[i]
  <2>1. i \in DOMAIN t /\ \A j \in 1..(i - 1) : t[j].path # p
    BY <1>4 DEF Firsts
  <2>2. i + 1 \in DOMAIN s /\ s[i + 1] = t[i]
    BY <1>1, <2>1
  <2>3. ASSUME NEW j \in 1..((i + 1) - 1) PROVE s[j].path # p
    <3>1. CASE j = 1
      BY <3>1
    <3>2. CASE j # 1
      <4>1. i \in 1..Len(t) /\ j \in 1..i
        BY <1>2, <2>1, <2>3
      <4>2. j - 1 \in 1..(i - 1) /\ j \in 1..Len(s)
        BY <1>1, <1>2, <3>2, <4>1
      <4> QED
        BY <1>1, <1>2, <2>1, <3>2, <4>2
    <3> QED
      BY <3>1, <3>2
  <2> QED
    BY <1>4, <2>2, <2>3 DEF Firsts
<1> QED
  BY <1>3, <1>4 DEF t

\* What is left of a sequence, and has not come to its last event of p, ends as it did.
LEMMA TailLasts ==
  ASSUME NEW S, NEW s \in Seq(S), s # <<>>, NEW p
  PROVE  /\ Occurs(Tail(s), p) => Occurs(s, p)
         /\ s[1].path # p => (Occurs(Tail(s), p) <=> Occurs(s, p))
         /\ \A i \in Lasts(Tail(s)) : i + 1 \in Lasts(s) /\ s[i + 1] = Tail(s)[i]
         /\ s[1].path = p /\ ~Occurs(Tail(s), p) => 1 \in Lasts(s)
<1> DEFINE t == Tail(s)
<1>1. /\ t \in Seq(S) /\ Len(t) + 1 = Len(s)
      /\ \A i \in DOMAIN t : i + 1 \in DOMAIN s /\ t[i] = s[i + 1]
      /\ \A i \in DOMAIN s : i # 1 => i - 1 \in DOMAIN t /\ t[i - 1] = s[i]
      /\ 1 \in DOMAIN s
  BY TailEnds
<1>2. DOMAIN t = 1..Len(t) /\ DOMAIN s = 1..Len(s) /\ Len(t) \in Nat /\ Len(s) \in Nat
  BY <1>1
<1> HIDE DEF t
<1>3. /\ Occurs(t, p) => Occurs(s, p)
      /\ s[1].path # p => (Occurs(t, p) <=> Occurs(s, p))
  BY <1>1 DEF Occurs
<1>4. ASSUME NEW i \in Lasts(t) PROVE i + 1 \in Lasts(s) /\ s[i + 1] = t[i]
  <2>1. i \in 1..Len(t) /\ \A j \in (i + 1)..Len(t) : t[j].path # t[i].path
    BY <1>2 DEF Lasts
  <2>2. i + 1 \in DOMAIN s /\ s[i + 1] = t[i]
    BY <1>1, <1>2, <2>1
  <2>3. ASSUME NEW j \in ((i + 1) + 1)..Len(s) PROVE s[j].path # t[i].path
    <3>1. j \in 1..Len(s) /\ j # 1 /\ j - 1 \in (i + 1)..Len(t)
      BY <1>1, <1>2, <2>1, <2>3
    <3> QED
      BY <1>1, <1>2, <2>1, <3>1
  <2> QED
    BY <2>2, <2>3 DEF Lasts
<1>5. ASSUME s[1].path = p, ~Occurs(t, p) PROVE 1 \in Lasts(s)
  <2>1. ASSUME NEW j \in (1 + 1)..Len(s) PROVE s[j].path # p
    <3>1. j \in DOMAIN s /\ j # 1
      BY <1>2, <2>1
    <3> QED
      BY <1>1, <1>5, <3>1 DEF Occurs
  <2> QED
    BY <1>1, <1>5, <2>1 DEF Lasts
<1> QED
  BY <1>3, <1>4, <1>5 DEF t

LEMMA WordConvert == Types /\ WordInv /\ Convert => WordInv'
<1> SUFFICES ASSUME Types, WordInv, Convert PROVE WordInv'
  OBVIOUS
<1> DEFINE e == Head(batch)
           f == InotifyToFileevent(e)
<1>1. /\ obs = "convert" /\ batch # <<>> /\ batch' = Tail(batch)
      /\ list' = IF Vanished(e) THEN list ELSE <<f>> \o list
      /\ obs' = IF Len(batch) = 1 THEN "filter" ELSE "convert"
      /\ UNCHANGED <<disk, kq, byUser, lost, queue, early, sending, told>>
  BY DEF Convert
<1>2. /\ batch \in Seq(KernelEvents) /\ list \in Seq(Seen) /\ disk \in [Paths -> Versions]
      /\ byUser \subseteq Paths
  BY DEF Types, TreeTypes, RouteTypes
<1>3. e \in KernelEvents /\ e = batch[1] /\ 1 \in DOMAIN batch
  BY <1>1, <1>2
<1>4. f.path = e.path /\ f.by = e.by /\ f.new = TRUE
      /\ f.version = IF e.kind = "DELETED" THEN Absent ELSE disk[e.path]
  BY DEF InotifyToFileevent
<1>5. Vanished(e) <=> e.kind # "DELETED" /\ disk[e.path] = Absent
  BY <1>3, PathsAssumption DEF Vanished, Exists, KernelEvents
<1>6. ~Vanished(e) => f \in Seen
  <2>1. e.path \in Paths /\ e.kind \in Kinds /\ e.by \in Authors
    BY <1>3 DEF KernelEvents
  <2> QED
    BY <1>2, <1>5, <2>1, SmallVersions DEF InotifyToFileevent, Seen
<1> HIDE DEF e, f
<1>7. ~Vanished(e) =>
        /\ 1 \in DOMAIN list' /\ list'[1] = f
        /\ \A i \in DOMAIN list : i + 1 \in DOMAIN list' /\ list'[i + 1] = list[i]
        /\ \A i \in DOMAIN list' : i # 1 => i - 1 \in DOMAIN list /\ list'[i] = list[i - 1]
        /\ list' \in Seq(Seen)
  BY <1>1, <1>2, <1>6, ConsStarts
<1>8. Phases'
  <2>1. \A i \in DOMAIN list' : list'[i].new
    BY <1>1, <1>4, <1>7 DEF WordInv, Phases
  <2>2. early = {} /\ \A i \in DOMAIN queue : ~queue[i].new
    BY <1>1 DEF WordInv, Phases
  <2>3. obs' = "filter" => batch' = <<>>
    BY <1>1, <1>2
  <2> QED
    BY <1>1, <2>1, <2>2, <2>3 DEF Phases
<1>9. ASSUME NEW p \in byUser \ lost PROVE Followed(p)'
  <2>1. Followed(p) /\ ~Passed(p)
    BY <1>1, <1>9 DEF WordInv, Phases, Passed
  <2>2. /\ Occurs(kq, p)' = Occurs(kq, p) /\ EndsWell(kq, p)' = EndsWell(kq, p)
        /\ Settled(p)' = Settled(p) /\ Passed(p)' = Passed(p)
    BY <1>1 DEF Occurs, EndsWell, Lasts, Settled, Starts, StartsWell, Firsts, Passed
  <2>3. /\ Occurs(Tail(batch), p) => Occurs(batch, p)
        /\ batch[1].path # p => (Occurs(Tail(batch), p) <=> Occurs(batch, p))
        /\ \A i \in Lasts(Tail(batch)) : i + 1 \in Lasts(batch) /\ batch[i + 1] = Tail(batch)[i]
        /\ batch[1].path = p /\ ~Occurs(Tail(batch), p) => 1 \in Lasts(batch)
    BY <1>1, <1>2, TailLasts
  <2>4. (EndsWell(batch, p) => EndsWell(batch, p)') /\ Occurs(batch, p)' = Occurs(Tail(batch), p)
    <3>1. EndsWell(batch, p) => \A i \in Lasts(Tail(batch)) : Tail(batch)[i].path = p =>
             /\ Tail(batch)[i].by = "user"
             /\ Tail(batch)[i].kind = "DELETED" <=> disk[p] = Absent
      BY <2>3 DEF EndsWell
    <3> QED
      BY <1>1, <3>1 DEF EndsWell, Lasts, Occurs
  <2>5. CASE Occurs(kq, p) \/ Occurs(Tail(batch), p)
    BY <2>1, <2>2, <2>3, <2>4, <2>5 DEF Followed
  <2>6. CASE ~Occurs(kq, p) /\ Occurs(batch, p) /\ ~Occurs(Tail(batch), p)
    <3>1. batch[1].path = p /\ 1 \in Lasts(batch) /\ EndsWell(batch, p)
      BY <2>1, <2>3, <2>6 DEF Followed
    <3>2. e.path = p /\ e.by = "user" /\ (e.kind = "DELETED" <=> disk[p] = Absent)
      BY <1>3, <3>1 DEF EndsWell
    <3>3. ~Vanished(e) /\ f.path = p /\ f.by = "user" /\ f.version = disk[p]
      BY <1>4, <1>5, <3>2
    <3>4. Occurs(list, p)'
      BY <1>7, <3>3 DEF Occurs
    <3>5. ASSUME NEW i \in Firsts(list'), list'[i].path = p PROVE i = 1
      <4>1. i \in 1..Len(list') /\ \A j \in 1..(i - 1) : list'[j].path # p
        BY <1>7, <3>3, <3>5 DEF Firsts
      <4>2. ASSUME i # 1 PROVE 1 \in 1..(i - 1)
        BY <4>1, <4>2
      <4> QED
        BY <1>7, <3>3, <4>1, <4>2
    <3>6. StartsWell(list, p)' /\ StartsByUser(list, p)'
      <4>1. \A i \in Firsts(list') : list'[i].path = p =>
               list'[i].version = disk'[p] /\ list'[i].by = "user"
        BY <1>1, <1>7, <3>3, <3>5
      <4> QED
        BY <4>1 DEF StartsWell, StartsByUser, Firsts
    <3> QED
      BY <2>1, <2>2, <2>4, <2>6, <3>4, <3>6 DEF Followed
  <2>7. CASE ~Occurs(kq, p) /\ ~Occurs(batch, p)
    <3>1. e.path # p /\ ~Occurs(Tail(batch), p)
      BY <1>3, <2>3, <2>7 DEF Occurs
    <3>2. Occurs(list, p)' = Occurs(list, p)
      <4>1. CASE Vanished(e)
        BY <1>1, <4>1 DEF Occurs
      <4>2. CASE ~Vanished(e)
        BY <1>4, <1>7, <3>1, <4>2 DEF Occurs
      <4> QED
        BY <4>1, <4>2
    <3>3. ASSUME ~Vanished(e), NEW i \in Firsts(list'), list'[i].path = p
          PROVE  \E k \in Firsts(list) : list[k] = list'[i]
      <4>1. i \in DOMAIN list' /\ \A j \in 1..(i - 1) : list'[j].path # p
        BY <3>3 DEF Firsts
      <4>2. i # 1 /\ i - 1 \in DOMAIN list /\ list'[i] = list[i - 1]
        BY <1>4, <1>7, <3>1, <3>3, <4>1
      <4>3. ASSUME NEW j \in 1..((i - 1) - 1) PROVE list[j].path # p
        <5>1. i - 1 \in 1..Len(list) /\ DOMAIN list = 1..Len(list) /\ Len(list) \in Nat
          BY <1>2, <4>2
        <5>2. j \in DOMAIN list /\ j + 1 \in 1..(i - 1)
          BY <4>3, <5>1
        <5> QED
          BY <1>7, <3>3, <4>1, <5>2
      <4> QED
        BY <3>3, <4>2, <4>3 DEF Firsts
    <3>4. /\ StartsWell(list, p) => StartsWell(list, p)'
          /\ StartsByUser(list, p) => StartsByUser(list, p)'
      <4>1. CASE Vanished(e)
        BY <1>1, <4>1 DEF StartsWell, StartsByUser, Firsts
      <4>2. CASE ~Vanished(e)
        <5>1. \A i \in Firsts(list') : list'[i].path = p =>
                 /\ StartsWell(list, p) => list'[i].version = disk'[p]
                 /\ StartsByUser(list, p) => list'[i].by = "user"
          <6>1. disk' = disk
            BY <1>1
          <6> QED
            BY <3>3, <4>2, <6>1 DEF StartsWell, StartsByUser
        <5> QED
          BY <5>1 DEF StartsWell, StartsByUser, Firsts
      <4> QED
        BY <4>1, <4>2
    <3> QED
      BY <2>1, <2>2, <2>4, <2>7, <3>1, <3>2, <3>4 DEF Followed
  <2> QED
    BY <2>5, <2>6, <2>7
<1> QED
  BY <1>1, <1>8, <1>9 DEF WordInv

FirstAt(s, i, p) == i \in Firsts(s) /\ s[i].path = p

\* An event behind another of its path is not the first of any.
LEMMA AppendFirsts ==
  ASSUME NEW S, NEW s \in Seq(S), NEW e \in S, NEW p
  PROVE  LET t == Append(s, e) IN
           /\ \A i \in DOMAIN s : i \in DOMAIN t /\ t[i] = s[i]
           /\ \A i \in DOMAIN t : i \notin DOMAIN s => t[i] = e
           /\ Len(s) + 1 \in DOMAIN t /\ t[Len(s) + 1] = e
           /\ e.path # p \/ Occurs(s, p) => \A i : FirstAt(t, i, p) <=> FirstAt(s, i, p)
           /\ e.path = p /\ ~Occurs(s, p) =>
                \A i : FirstAt(t, i, p) <=> i = Len(s) + 1
<1> DEFINE t == Append(s, e)
           n == Len(s)
<1>1. n \in Nat /\ DOMAIN s = 1..n /\ DOMAIN t = 1..(n + 1)
  OBVIOUS
<1>2. t[n + 1] = e /\ \A i \in 1..n : t[i] = s[i]
  OBVIOUS
<1> HIDE DEF t, n
<1>3. n + 1 \in DOMAIN t /\ \A i \in DOMAIN t : i \in DOMAIN s \/ i = n + 1
  BY <1>1
<1>4. \A i \in DOMAIN s : i \in DOMAIN t /\ t[i] = s[i]
  BY <1>1, <1>2
<1>5. ASSUME NEW i \in DOMAIN s PROVE FirstAt(t, i, p) <=> FirstAt(s, i, p)
  <2>1. \A j \in 1..(i - 1) : t[j] = s[j]
    BY <1>1, <1>2, <1>5
  <2> QED
    BY <1>4, <1>5, <2>1 DEF FirstAt, Firsts
<1>6. ASSUME e.path # p \/ Occurs(s, p), NEW i PROVE FirstAt(t, i, p) <=> FirstAt(s, i, p)
  <2>1. CASE i \in DOMAIN s
    BY <1>5, <2>1
  <2>2. CASE i \notin DOMAIN s
    <3>1. ~FirstAt(s, i, p)
      BY <2>2 DEF FirstAt, Firsts
    <3>2. ASSUME FirstAt(t, i, p) PROVE FALSE
      <4>1. i = n + 1 /\ e.path = p /\ \A j \in 1..(i - 1) : t[j].path # p
        BY <1>2, <1>3, <2>2, <3>2 DEF FirstAt, Firsts
      <4>2. PICK j \in 1..n : s[j].path = p
        BY <1>1, <1>6, <4>1 DEF Occurs
      <4>3. j \in 1..(i - 1)
        BY <1>1, <4>1
      <4> QED
        BY <1>2, <4>1, <4>2, <4>3
    <3> QED
      BY <3>1, <3>2
  <2> QED
    BY <2>1, <2>2
<1>7. ASSUME e.path = p, ~Occurs(s, p), NEW i PROVE FirstAt(t, i, p) <=> i = n + 1
  <2>1. i \in DOMAIN s => ~FirstAt(t, i, p)
    BY <1>4, <1>7 DEF FirstAt, Occurs
  <2>2. \A j \in 1..((n + 1) - 1) : t[j].path # p
    BY <1>1, <1>2, <1>7 DEF Occurs
  <2>3. FirstAt(t, n + 1, p)
    BY <1>2, <1>3, <1>7, <2>2 DEF FirstAt, Firsts
  <2> QED
    BY <1>3, <2>1, <2>3 DEF FirstAt, Firsts
<1>8. \A i \in DOMAIN t : i \notin DOMAIN s => t[i] = e
  BY <1>2, <1>3
<1> QED
  BY <1>2, <1>3, <1>4, <1>6, <1>7, <1>8 DEF t, n

LEMMA SettledKept ==
  ASSUME NEW p, UNCHANGED <<disk, told, sending>>,
         \A i : FirstAt(queue', i, p) <=> FirstAt(queue, i, p),
         \A i : FirstAt(queue, i, p) => queue'[i].version = queue[i].version,
         Settled(p)
  PROVE  Settled(p)'
<1>1. Starts(queue, p)' <=> Starts(queue, p)
  <2>1. (\E i : FirstAt(queue', i, p)) <=> (\E i : FirstAt(queue, i, p))
    OBVIOUS
  <2>2. Starts(queue, p) <=> (\E i : FirstAt(queue, i, p))
    BY DEF Starts, FirstAt
  <2>3. Starts(queue, p)' <=> (\E i : FirstAt(queue', i, p))
    <3>1. Starts(queue, p)' <=> \E i \in Firsts(queue') : queue'[i].path = p
      BY DEF Starts, Firsts
    <3> QED
      BY <3>1 DEF FirstAt
  <2> QED
    BY <2>1, <2>2, <2>3
<1>2. StartsWell(queue, p) => StartsWell(queue, p)'
  <2>1. StartsWell(queue, p) => \A i : FirstAt(queue', i, p) => queue'[i].version = disk'[p]
    BY DEF StartsWell, FirstAt
  <2> QED
    BY <2>1 DEF StartsWell, FirstAt, Firsts
<1>3. /\ Starts(sending, p)' = Starts(sending, p)
      /\ StartsWell(sending, p)' = StartsWell(sending, p)
  BY DEF Starts, StartsWell, Firsts
<1> QED
  BY <1>1, <1>2, <1>3 DEF Settled

LEMMA WordFilter == Types /\ WordInv /\ Filter => WordInv'
<1> SUFFICES ASSUME Types, WordInv, Filter PROVE WordInv'
  OBVIOUS
<1> DEFINE e == Head(list)
<1>1. /\ obs = "filter" /\ list # <<>> /\ list' = Tail(list)
      /\ IF Ignored(e)
         THEN /\ lost' = IF e.by = "user" THEN lost \cup {e.path} ELSE lost
              /\ queue' = queue
         ELSE /\ lost' = IF Overtaken(e.path) THEN lost \cup {e.path} ELSE lost
              /\ queue' = Append(queue, e)
      /\ UNCHANGED <<disk, kq, byUser, batch, obs, early, sending, told>>
  BY DEF Filter, tree
<1>2. list \in Seq(Seen) /\ queue \in Seq(Seen) /\ batch = <<>>
  BY <1>1 DEF Types, RouteTypes, WordInv, Phases
<1>3. e = list[1] /\ 1 \in DOMAIN list /\ e \in Seen
  BY <1>1, <1>2
<1>7. e.new
  BY <1>3 DEF WordInv, Phases
<1>4. \A i \in DOMAIN list' : i + 1 \in DOMAIN list /\ list'[i] = list[i + 1]
  BY <1>1, <1>2, TailEnds
<1> HIDE DEF e
<1>5. Phases'
  BY <1>1, <1>2, <1>4 DEF WordInv, Phases
<1>6. ASSUME NEW p \in byUser \ lost' PROVE Followed(p)'
  <2>1. p \in byUser \ lost /\ Followed(p)
    BY <1>1, <1>6 DEF WordInv
  <2>2. /\ Occurs(kq, p)' = Occurs(kq, p) /\ EndsWell(kq, p)' = EndsWell(kq, p)
        /\ ~Occurs(batch, p) /\ ~Occurs(batch, p)'
    BY <1>1, <1>2 DEF Occurs, EndsWell, Lasts
  <2>3. CASE Occurs(kq, p)
    BY <2>1, <2>2, <2>3 DEF Followed
  <2> DEFINE t == Append(queue, e)
  <2>4. /\ \A i \in DOMAIN queue : i \in DOMAIN t /\ t[i] = queue[i]
        /\ \A i \in DOMAIN t : i \notin DOMAIN queue => t[i] = e
        /\ Len(queue) + 1 \in DOMAIN t /\ t[Len(queue) + 1] = e
        /\ e.path # p \/ Occurs(queue, p) => \A i : FirstAt(t, i, p) <=> FirstAt(queue, i, p)
        /\ e.path = p /\ ~Occurs(queue, p) => \A i : FirstAt(t, i, p) <=> i = Len(queue) + 1
    <3>1. queue \in Seq(Seen) /\ e \in Seen
      BY <1>2, <1>3
    <3> QED
      BY <3>1, AppendFirsts
  <2> HIDE DEF t
  <2>5. queue' = queue \/ queue' = t
    BY <1>1 DEF t
  <2>6. (e.path # p \/ Occurs(queue, p) \/ queue' = queue) /\ Settled(p) => Settled(p)'
    <3> SUFFICES ASSUME e.path # p \/ Occurs(queue, p) \/ queue' = queue, Settled(p) PROVE Settled(p)'
      OBVIOUS
    <3>1. \A i : FirstAt(queue', i, p) <=> FirstAt(queue, i, p)
      BY <2>4, <2>5
    <3>2. \A i : FirstAt(queue, i, p) => queue'[i].version = queue[i].version
      BY <2>4, <2>5 DEF FirstAt, Firsts
    <3> QED
      BY <1>1, <3>1, <3>2, SettledKept
  <2>7. CASE ~Occurs(kq, p) /\ e.path # p
    <3>1. /\ Occurs(Tail(list), p) <=> Occurs(list, p)
          /\ \A i \in Firsts(Tail(list)) : Tail(list)[i].path = p =>
                i + 1 \in Firsts(list) /\ list[i + 1] = Tail(list)[i]
      <4>1. list \in Seq(Seen) /\ list # <<>> /\ list[1].path # p
        BY <1>1, <1>2, <1>3, <2>7
      <4> QED
        BY <4>1, TailStarts
    <3>2. Occurs(list, p)' = Occurs(list, p)
      BY <1>1, <3>1 DEF Occurs
    <3>3. /\ StartsWell(list, p) => StartsWell(list, p)'
          /\ StartsByUser(list, p) => StartsByUser(list, p)'
      <4>1. \A i \in Firsts(Tail(list)) : Tail(list)[i].path = p =>
               /\ StartsWell(list, p) => Tail(list)[i].version = disk[p]
               /\ StartsByUser(list, p) => Tail(list)[i].by = "user"
        BY <3>1 DEF StartsWell, StartsByUser
      <4> QED
        BY <1>1, <4>1 DEF StartsWell, StartsByUser, Firsts
    <3>4. Passed(p)' = Passed(p)
      BY <1>1, <2>4, <2>5, <2>7 DEF Passed
    <3> QED
      BY <2>1, <2>2, <2>6, <2>7, <3>2, <3>3, <3>4 DEF Followed
  <2>8. CASE ~Occurs(kq, p) /\ e.path = p
    <3>0. Occurs(list, p)
      BY <1>3, <2>8 DEF Occurs
    <3>1. 1 \in Firsts(list)
      BY <1>3 DEF Firsts
    <3>2. Passed(p) \/ (e.version = disk[p] /\ e.by = "user")
      BY <1>3, <2>1, <2>2, <2>8, <3>0, <3>1 DEF Followed, StartsWell, StartsByUser
    <3>3. CASE Ignored(e)
      <4>1. queue' = queue /\ Passed(p)
        BY <1>1, <1>6, <2>8, <3>2, <3>3
      <4>2. Settled(p) /\ Passed(p)'
        BY <1>1, <2>1, <2>2, <2>8, <4>1 DEF Followed, Passed
      <4> QED
        BY <2>2, <2>6, <2>8, <4>1, <4>2 DEF Followed
    <3>4. CASE ~Ignored(e)
      <4>1. queue' = t /\ ~Overtaken(p)
        BY <1>1, <1>6, <2>8, <3>4 DEF t
      <4>2. Passed(p)'
        BY <1>7, <2>4, <2>8, <4>1 DEF Passed
      <4>3. CASE Passed(p)
        <5>1. Occurs(queue, p) /\ Settled(p)
          BY <2>1, <2>2, <2>8, <4>1, <4>3 DEF Passed, Overtaken, Occurs, Followed
        <5> QED
          BY <2>2, <2>6, <2>8, <4>2, <5>1 DEF Followed
      <4>4. CASE ~Passed(p)
        <5>1. ~Occurs(queue, p)
          BY <4>1, <4>4 DEF Passed, Overtaken, Occurs
        <5>2. \A i : FirstAt(queue', i, p) <=> i = Len(queue) + 1
          BY <2>4, <2>8, <4>1, <5>1
        <5>3. queue'[Len(queue) + 1].version = disk'[p]
          BY <1>1, <2>4, <3>2, <4>1, <4>4
        <5>4. Starts(queue, p)' /\ StartsWell(queue, p)'
          <6>1. \A i : FirstAt(queue', i, p) => queue'[i].version = disk'[p]
            BY <5>2, <5>3
          <6>2. \E i : FirstAt(queue', i, p)
            BY <5>2
          <6> QED
            BY <6>1, <6>2 DEF Starts, StartsWell, FirstAt, Firsts
        <5> QED
          BY <2>2, <2>8, <4>2, <5>4 DEF Followed, Settled
      <4> QED
        BY <4>3, <4>4
    <3> QED
      BY <3>3, <3>4
  <2> QED
    BY <2>3, <2>7, <2>8
<1> QED
  BY <1>1, <1>5, <1>6 DEF WordInv

LEMMA WordFilterDone == Types /\ WordInv /\ FilterDone => WordInv'
<1> SUFFICES ASSUME Types, WordInv, FilterDone PROVE WordInv'
  OBVIOUS
<1>1. /\ obs = "filter" /\ list = <<>> /\ obs' = "convert" /\ early' = {}
      /\ queue' = [i \in DOMAIN queue |-> [queue[i] EXCEPT !.new = FALSE]]
      /\ UNCHANGED <<disk, kq, byUser, lost, batch, list, sending, told>>
  BY DEF FilterDone, tree
<1>2. /\ DOMAIN queue' = DOMAIN queue
      /\ \A i \in DOMAIN queue : /\ ~queue'[i].new /\ queue'[i].path = queue[i].path
                                 /\ queue'[i].version = queue[i].version
  <2>1. \A e \in Seen : LET f == [e EXCEPT !.new = FALSE]
                        IN ~f.new /\ f.path = e.path /\ f.version = e.version
    BY DEF Seen
  <2>2. \A i \in DOMAIN queue : queue[i] \in Seen
    BY DEF Types, RouteTypes
  <2> QED
    BY <1>1, <2>1, <2>2
<1>3. Phases'
  BY <1>1, <1>2 DEF WordInv, Phases
<1>4. ASSUME NEW p \in byUser \ lost PROVE Followed(p)'
  <2>1. Followed(p) /\ ~Occurs(batch, p) /\ ~Occurs(list, p)
    BY <1>1, <1>4 DEF WordInv, Phases, Occurs
  <2>2. /\ Occurs(kq, p)' = Occurs(kq, p) /\ EndsWell(kq, p)' = EndsWell(kq, p)
        /\ ~Occurs(batch, p)' /\ ~Occurs(list, p)'
    BY <1>1, <2>1 DEF Occurs, EndsWell, Lasts
  <2>3. \A i : FirstAt(queue', i, p) <=> FirstAt(queue, i, p)
    <3>1. DOMAIN queue = 1..Len(queue) /\ Len(queue) \in Nat
      BY DEF Types, RouteTypes
    <3>2. ASSUME NEW i \in DOMAIN queue PROVE \A j \in 1..(i - 1) : j \in DOMAIN queue
      BY <3>1
    <3>3. ASSUME NEW i \in DOMAIN queue PROVE FirstAt(queue', i, p) <=> FirstAt(queue, i, p)
      <4>1. \A j \in 1..(i - 1) : queue'[j].path = queue[j].path
        BY <1>2, <3>2
      <4> QED
        BY <1>2, <4>1 DEF FirstAt, Firsts
    <3> QED
      BY <1>2, <3>3 DEF FirstAt, Firsts
  <2>4. \A i : FirstAt(queue, i, p) => queue'[i].version = queue[i].version
    BY <1>2 DEF FirstAt, Firsts
  <2>5. Settled(p) => Settled(p)'
    BY <1>1, <2>3, <2>4, SettledKept
  <2> QED
    BY <2>1, <2>2, <2>5 DEF Followed
<1> QED
  BY <1>1, <1>3, <1>4 DEF WordInv

LEMMA WordTake == Types /\ WordInv /\ TakeEvents => WordInv'
<1> SUFFICES ASSUME Types, WordInv, TakeEvents PROVE WordInv'
  OBVIOUS
<1>1. /\ sending = <<>> /\ sending' = queue /\ queue' = <<>>
      /\ early' = early \cup {queue[i].path : i \in {j \in DOMAIN queue : queue[j].new}}
      /\ UNCHANGED <<disk, kq, byUser, lost, batch, list, obs, told>>
  BY DEF TakeEvents, tree
<1>2. Phases'
  BY <1>1 DEF WordInv, Phases
<1>3. ASSUME NEW p \in byUser \ lost PROVE Followed(p)'
  <2>1. Followed(p)
    BY <1>3 DEF WordInv
  <2>2. /\ Occurs(kq, p)' = Occurs(kq, p) /\ EndsWell(kq, p)' = EndsWell(kq, p)
        /\ Occurs(batch, p)' = Occurs(batch, p) /\ EndsWell(batch, p)' = EndsWell(batch, p)
        /\ Occurs(list, p)' = Occurs(list, p) /\ StartsWell(list, p)' = StartsWell(list, p)
        /\ StartsByUser(list, p)' = StartsByUser(list, p)
    BY <1>1 DEF Occurs, EndsWell, Lasts, StartsWell, StartsByUser, Firsts
  <2>3. Passed(p)' <=> Passed(p)
    BY <1>1 DEF Passed
  <2>4. Settled(p) => Settled(p)'
    <3>1. /\ ~Starts(sending, p) /\ ~Starts(queue, p)'
          /\ Starts(sending, p)' = Starts(queue, p)
          /\ StartsWell(sending, p)' = StartsWell(queue, p)
      BY <1>1 DEF Starts, StartsWell, Firsts
    <3> QED
      BY <1>1, <3>1 DEF Settled
  <2> QED
    BY <2>1, <2>2, <2>3, <2>4 DEF Followed
<1> QED
  BY <1>1, <1>2, <1>3 DEF WordInv

LEMMA WordSend == Types /\ WordInv /\ SendEvents => WordInv'
<1> SUFFICES ASSUME Types, WordInv, SendEvents PROVE WordInv'
  OBVIOUS
<1> DEFINE first(p) == {i \in Firsts(sending) : sending[i].path = p}
<1>1. /\ sending' = <<>>
      /\ told' = [p \in Paths |-> IF first(p) = {} THEN told[p]
                                  ELSE sending[CHOOSE i \in first(p) : TRUE].version]
      /\ UNCHANGED <<disk, kq, byUser, lost, batch, list, obs, queue, early>>
  BY DEF SendEvents, tree, observer
<1>2. Phases'
  BY <1>1 DEF WordInv, Phases
<1>3. ASSUME NEW p \in byUser \ lost PROVE Followed(p)'
  <2>1. Followed(p) /\ p \in Paths
    BY <1>3 DEF WordInv, Types, TreeTypes
  <2>2. /\ Occurs(kq, p)' = Occurs(kq, p) /\ EndsWell(kq, p)' = EndsWell(kq, p)
        /\ Occurs(batch, p)' = Occurs(batch, p) /\ EndsWell(batch, p)' = EndsWell(batch, p)
        /\ Occurs(list, p)' = Occurs(list, p) /\ StartsWell(list, p)' = StartsWell(list, p)
        /\ StartsByUser(list, p)' = StartsByUser(list, p) /\ Passed(p)' = Passed(p)
    BY <1>1 DEF Occurs, EndsWell, Lasts, StartsWell, StartsByUser, Firsts, Passed
  <2>3. Settled(p) => Settled(p)'
    <3>1. /\ Starts(queue, p)' = Starts(queue, p) /\ StartsWell(queue, p)' = StartsWell(queue, p)
          /\ ~Starts(sending, p)'
      BY <1>1 DEF Starts, StartsWell, Firsts
    <3>2. CASE Starts(sending, p)
      <4>1. first(p) # {}
        BY <3>2 DEF Starts
      <4>2. (CHOOSE i \in first(p) : TRUE) \in first(p)
        BY <4>1
      <4>3. StartsWell(sending, p) => \A i \in first(p) : sending[i].version = disk[p]
        BY DEF StartsWell
      <4>4. told'[p] = sending[CHOOSE i \in first(p) : TRUE].version
        BY <1>1, <2>1, <4>1
      <4> HIDE DEF first
      <4>5. StartsWell(sending, p) => told'[p] = disk'[p]
        BY <1>1, <4>2, <4>3, <4>4
      <4> QED
        BY <3>1, <3>2, <4>5 DEF Settled
    <3>3. CASE ~Starts(sending, p)
      <4>1. first(p) = {}
        BY <3>3 DEF Starts
      <4>2. told'[p] = told[p]
        BY <1>1, <2>1, <4>1
      <4> QED
        BY <1>1, <3>1, <3>3, <4>2 DEF Settled
    <3> QED
      BY <3>2, <3>3
  <2> QED
    BY <2>1, <2>2, <2>3 DEF Followed
<1> QED
  BY <1>1, <1>2, <1>3 DEF WordInv

LEMMA WordUnchanged == WordInv /\ UNCHANGED <<route, tree, lost>> => WordInv'
<1> SUFFICES ASSUME WordInv, UNCHANGED <<route, tree, lost>> PROVE WordInv'
  OBVIOUS
<1>1. UNCHANGED <<disk, kq, byUser, lost, batch, list, obs, queue, early, sending, told>>
  BY DEF route, tree, observer
<1>2. Phases'
  BY <1>1 DEF WordInv, Phases
<1>3. ASSUME NEW p \in byUser \ lost PROVE Followed(p)' = Followed(p)
  BY <1>1 DEF Followed, Occurs, EndsWell, Lasts, StartsWell, StartsByUser, Starts, Firsts,
              Passed, Settled
<1> QED
  BY <1>1, <1>2, <1>3 DEF WordInv

LEMMA WordNext == MarkTypes /\ Types /\ WordInv /\ [Next]_vars => WordInv'
<1> SUFFICES ASSUME MarkTypes, Types, WordInv, [Next]_vars PROVE WordInv'
  OBVIOUS
<1>1. CASE TreeStep
  BY <1>1, WordChange, WordUnchanged DEF TreeStep
<1>2. CASE Observer
  BY <1>2, WordRead, WordConvert, WordFilter, WordFilterDone DEF Observer
<1>3. CASE Reporter
  BY <1>3, WordTake, WordSend DEF Reporter
<1>4. CASE UNCHANGED vars
  BY <1>4, WordUnchanged DEF vars, route
<1> QED
  BY <1>1, <1>2, <1>3, <1>4, OthersTreeStep DEF Next

(***************************************************************************)
(* The tracker hears the last word on every path of which no event was     *)
(* missed, filtered or overtaken: the list is built back to front          *)
(* (fileobserver.c:182), FILE_UPDATE is read back to front                 *)
(* (fileevent.c:92), and stat at the time of reading (fileobserver.c:41)   *)
(* is not too late for the last event.                                     *)
(***************************************************************************)
THEOREM LastWordHeard == ASSUME Paths # {} PROVE Spec => []LastWord
<1>1. WordInv => LastWord
  <2> SUFFICES ASSUME WordInv, NEW p \in byUser \ lost, ~OnItsWay(p) PROVE told[p] = disk[p]
    BY DEF LastWord
  <2>1. \A s \in {kq, batch, list, queue, sending} : ~Occurs(s, p)
    BY DEF OnItsWay, Occurs
  <2>2. ~Starts(queue, p) /\ ~Starts(sending, p)
    BY <2>1 DEF Starts, Firsts, Occurs
  <2>3. Followed(p)
    BY DEF WordInv
  <2> QED
    BY <2>1, <2>2, <2>3 DEF Followed, Settled
<1>2. MarkInv => MarkTypes
  BY DEF MarkInv
<1> QED
  BY <1>1, <1>2, MarkInit, MarkNext, TypesInit, TypesNext, WordInit, WordNext, PTL DEF Spec
=============================================================================
