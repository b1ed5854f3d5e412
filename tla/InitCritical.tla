---------------------------- MODULE InitCritical -----------------------------
(***************************************************************************)
(* The services of init with option critical: InitService together with    *)
(* the history of the crashes of each critical service, against which the  *)
(* counting of wait_for_one_process (signal_handler.c), which keeps only a *)
(* count and the start of a window, is judged.                             *)
(***************************************************************************)
EXTENDS InitService, Sequences

VARIABLE crashes    \* the ages of the last crashes of a service, oldest first

(* A burst is one crash more than the threshold.                           *)
Burst == CrashThreshold + 1

CInit == Init /\ crashes = [s \in Critical |-> <<>>]

(* The process of s is reaped in this step, and nobody asked for its end.  *)
Crash(s) ==
    /\ sv[s].pid # NoPid /\ sv'[s].pid = NoPid
    /\ s \notin Oneshot
    /\ sv[s].flags \intersect {"DISABLED", "RESET", "RESTART"} = {}

Latest(ages) == IF Len(ages) > Burst THEN Tail(ages) ELSE ages

CNext ==
    \/ /\ Act
       /\ crashes' = [s \in Critical |->
                        IF Crash(s) THEN Latest(Append(crashes[s], 0))
                        ELSE crashes[s]]
    \/ /\ Tick
       /\ crashes' = [s \in Critical |->
                        [i \in DOMAIN crashes[s] |->
                           Older(crashes[s][i], CrashWindow + 1)]]

CSpec == CInit /\ [][CNext]_<<vars, crashes>>

CFairSpec == CSpec /\ Fairness

(* The last crashes of s are more than the threshold within the window.    *)
Bursting(s) == Len(crashes[s]) = Burst /\ Head(crashes[s]) <= CrashWindow

-----------------------------------------------------------------------------
(* No false alarm: init reboots into recovery only when some critical      *)
(* service has just crashed more than CRITICAL_CRASH_THRESHOLD times       *)
(* within CRITICAL_CRASH_WINDOW, however its stops, resets, restarts and   *)
(* earlier windows of crashes were interleaved.                            *)
RecoveryOnlyAfterBurst ==
    rebooted => \E s \in Critical : Bursting(s)
=============================================================================
