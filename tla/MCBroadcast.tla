---------------------------- MODULE MCBroadcast ----------------------------
(* Three peers, of which b only listens; no file, or two of which one has  *)
(* lost its holders.                                                       *)
EXTENDS Broadcast

CONSTANTS a, b, c

MCOrder == <<a, b, c>>
MCTables == { <<>>, <<1, 0>> }
MCMerged == [t \in MCTables |-> MCTables \ {t}]
MCMaxReports == [p \in Peers |-> CASE p = a -> 2 [] p = b -> 0 [] p = c -> 3]
=============================================================================
