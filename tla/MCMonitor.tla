----------------------------- MODULE MCMonitor -----------------------------
(* A directory with a file in it. *)
EXTENDS Monitor, TLC

CONSTANTS d, g

MCParent == d :> Root @@ g :> d
=============================================================================
