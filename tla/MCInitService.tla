---------------------------- MODULE MCInitService ----------------------------
(* InitService on two services: a daemon in class "main", and a oneshot in  *)
(* class "late" that the daemon's exit restarts.                            *)
EXTENDS InitService, TLC

MCClass == [s \in Svc |-> IF s = "daemon" THEN "main" ELSE "late"]

MCOnRestart == [s \in Svc |-> IF s = "daemon" THEN {"once"} ELSE {}]

PidSymmetry == Permutations(Pid)
=============================================================================
