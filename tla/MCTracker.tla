----------------------------- MODULE MCTracker -----------------------------
(* Two peers on different machines; a file in a directory. *)
EXTENDS Tracker, TLC

CONSTANTS c1, c2

MCNames == {1, 2}
MCDotNames == {}
MCExtending == [n \in MCNames |-> IF n = 1 THEN {2} ELSE {}]
MCTimes == 1..2
MCSizes == 0..1

MCAddrs == { <<1, 1>>, <<2, 1>> }
MCAddrOf == [c \in Conns |-> CASE c = c1 -> <<1, 1>> [] c = c2 -> <<2, 1>>]

File(n, m) == [name |-> n, mtime |-> m, size |-> IF n = 1 THEN 0 ELSE 1, dir |-> n = 1]
Event(k, n, m) == [action |-> k, file |-> File(n, m)]

\* A peer has the directory and its file, or has removed it and written the file anew.
MCFileLists == { <<File(1, 1), File(2, 1)>> }
MCEventLists == { <<Event("FILE_DELETED", 1, 1), Event("FILE_CREATED", 2, 2)>> }

\* One file, and one change to it.
OneFileLists == { <<File(2, 1)>> }
OneEventLists == { <<Event("FILE_MODIFIED", 2, 2)>> }
============================================================================
