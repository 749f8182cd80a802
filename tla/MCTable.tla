------------------------------ MODULE MCTable ------------------------------
(* A directory "d", its subdirectory "d/s", a file "d/s/x" in that and a    *)
(* file "dy" beside "d"; two peers behind one ip and one elsewhere.         *)
EXTENDS TableChecks

Dot == 0
D == 1
S == 2
X == 3
DY == 4

MCNames == {Dot, D, S, X, DY}
MCDotNames == {Dot}
MCExtending == [n \in MCNames |-> CASE n = D -> {S, X, DY} [] n = S -> {X} [] OTHER -> {}]
MCInside == [MCExtending EXCEPT ![D] = {S, X}]
MCAddrs == { <<1, 1>>, <<1, 2>>, <<2, 1>> }
MCTimes == 1..2
MCSizes == 0..1

File(n, m, s) == [name |-> n, mtime |-> m, size |-> s, dir |-> n \in {D, S}]
Event(k, n, m, s) == [action |-> k, file |-> File(n, m, s)]

MCFileLists ==
  { <<File(D, 1, 0), File(S, 1, 0), File(X, 1, 1), File(Dot, 1, 1)>>,
    <<File(X, 2, 0), File(DY, 1, 1)>>,
    <<File(DY, 1, 1), File(X, 2, 1)>>,
    <<>> }

MCEventLists ==
  { <<Event("FILE_DELETED", n, 1, 0)>> : n \in {D, S, X} } \cup
  { <<Event("FILE_CREATED", Dot, 1, 1), Event("FILE_CREATED", X, 1, 1)>>,
    <<Event("FILE_MODIFIED", X, 2, 0), Event("DOWNLOAD_COMPLETE", DY, 1, 1)>>,
    <<Event("FILE_DELETED", D, 1, 0), Event("FILE_CREATED", D, 1, 0)>>,
    <<Event("DOWNLOAD_COMPLETE", X, 2, 1)>> }
=============================================================================
