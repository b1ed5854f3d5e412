------------------------------ MODULE MCLkThread ------------------------------
(* Small instances of LkThread for TLC: t1 is bootstrap2, of the default   *)
(* priority. All threads have its priority (PrioFlat), t3 has a higher one *)
(* (PrioHigh), or t2 comes before the dpc thread as well (PrioAbove).      *)
EXTENDS LkThread, TLC

CONSTANTS t1, t2, t3, idle, dpcthread

PrioFlat == (t1 :> 2) @@ (t2 :> 2) @@ (t3 :> 2) @@ (idle :> 1) @@ (dpcthread :> 4)

PrioHigh == (t1 :> 2) @@ (t2 :> 2) @@ (t3 :> 3) @@ (idle :> 1) @@ (dpcthread :> 4)

PrioAbove == (t1 :> 2) @@ (t2 :> 5) @@ (t3 :> 2) @@ (idle :> 1) @@ (dpcthread :> 4)
=============================================================================
