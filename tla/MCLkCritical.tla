----------------------------- MODULE MCLkCritical -----------------------------
(* Three threads with sections nested up to MaxDepth.                      *)
EXTENDS LkCritical

CONSTANTS t1, t2, t3
=============================================================================
