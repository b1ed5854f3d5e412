--------------------------- MODULE MCInitCritical ----------------------------
(* InitCritical on one critical daemon with a keychord; a window of one     *)
(* second and a threshold of 2 crashes leave room for a burst across two    *)
(* windows.                                                                 *)
EXTENDS InitCritical

MCClass == [s \in Svc |-> "main"]

MCOnRestart == [s \in Svc |-> {}]
=============================================================================
