------------------------------ MODULE MCZygote -------------------------------
(***************************************************************************)
(* Instance of Zygote for TLC: two connections, of peers with and without  *)
(* rights, and requests that they may and may not make.                    *)
(***************************************************************************)
EXTENDS Zygote

App == [NoRequest EXCEPT !.valid = TRUE]
Low == [App EXCEPT !.uid = "low", !.rlimits = TRUE]
High == [App EXCEPT !.uid = "high", !.caps = TRUE, !.seInfo = TRUE]
Invoke == [App EXCEPT !.invoke = TRUE]
Wrapped == [App EXCEPT !.wrap = TRUE]
Missing == [App EXCEPT !.init = FALSE, !.class = "missing"]
Unknown == [App EXCEPT !.class = "unknown"]

PeerIs(uid, selinux, n, asks) ==
    [uid |-> uid, selinux |-> selinux, caps |-> uid = "system", asks |-> asks, n |-> n]

TwoPeers(p1, p2) == [c \in {"c1", "c2"} |-> IF c = "c1" THEN p1 ELSE p2]

MCPeers ==
    {TwoPeers(PeerIs("root", TRUE, 1, {Invoke, Missing}), PeerIs("app", TRUE, 1, {Wrapped, High})),
     TwoPeers(PeerIs("system", TRUE, 1, {High}), PeerIs("system", FALSE, 1, {Unknown})),
     TwoPeers(PeerIs("system", TRUE, 2, {Low, High}), PeerIs("app", FALSE, 0, {App}))}
=============================================================================
