------------------------------- MODULE MCSync -------------------------------
(* Two machines, or three; files of 0 bytes and of 1. *)
EXTENDS Sync

MCNames == {1}
MCDotNames == {}
MCExtending == [n \in MCNames |-> {}]
MCPeers == {1, 2}
MCThree == {1, 2, 3}
MCAddrs == MCPeers \X (1..2)
MCThreeAddrs == MCThree \X (1..2)
MCTimes == 0..4
MCSizes == 0..1
=============================================================================
