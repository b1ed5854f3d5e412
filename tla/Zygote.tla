------------------------------- MODULE Zygote --------------------------------
(***************************************************************************)
(* The zygote (ZygoteInit.java, ZygoteConnection.java): it preloads, forks *)
(* the system server, and then takes requests for new processes from the   *)
(* connections of its select loop.  A child is a copy of the zygote, with  *)
(* its descriptors and its place in the code, and closes what it is not to *)
(* keep; one whose handleChildProc returns is back in the select loop, and *)
(* so each process here may be in it.                                      *)
(*                                                                         *)
(* A request is what the policies and the fork tell apart.  A client sends *)
(* the next one when it has the answer, as android.os.Process does, and    *)
(* may go away at any time.  Processes die, and the death of the system    *)
(* server is the death of the zygote.                                      *)
(***************************************************************************)
EXTENDS Integers, Sequences, FiniteSets, Functions

CONSTANTS
    Clients,        \* the processes that connect, one connection each
    Peers,          \* what their credentials may be, which requests they send, and how many (n)
    Kids,           \* the processes the zygote forks
    Factory,        \* ro.factorytest is 1 or 2
    GcLoopCount,    \* GC_LOOP_COUNT, 10
    MaxRequests     \* how many requests a client sends at most, a bound of the model

VARIABLES
    proc,       \* the processes
    cred,       \* the credentials of the clients
    cli,        \* the clients and their sockets
    backlog     \* the connections that are not accepted

vars == <<proc, cred, cli, backlog>>

Z == "zygote"

SystemServer == "system_server"

Requests == UNION {pc[c].asks : pc \in Peers, c \in Clients}

Procs == {Z, SystemServer} \union Kids

NoOne == "(none)"

(* What the policies and the fork look at: whether Arguments accepts it;   *)
(* the uid, below SYSTEM_UID, above, or only groups or none given; limits, *)
(* capabilities, wrapper and seinfo; whether a property names a wrapper;   *)
(* runtimeInit; and what becomes of the class name.                        *)
Request ==
    [valid : BOOLEAN, uid : {"unspecified", "gids", "low", "high"}, rlimits : BOOLEAN, caps : BOOLEAN,
     invoke : BOOLEAN, seInfo : BOOLEAN, wrap : BOOLEAN, init : BOOLEAN,
     class : {"ok", "unknown", "missing"}]

(* The credentials of a peer, what SELinux allows it, whether it has the   *)
(* capabilities it asks for, and its requests.                             *)
Peer ==
    [uid : {"root", "system", "app"}, selinux : BOOLEAN, caps : BOOLEAN,
     asks : SUBSET Request, n : 0..MaxRequests]

ASSUME RequestsAndLimits ==
    /\ Peers \subseteq [Clients -> Peer]
    /\ GcLoopCount \in Nat /\ MaxRequests \in Nat

ASSUME FiniteAndApart ==
    /\ IsFiniteSet(Clients) /\ IsFiniteSet(Kids)
    /\ NoOne \notin Clients /\ NoOne \notin Kids
    /\ Z \notin Kids /\ SystemServer \notin Kids

NoRequest ==
    [valid |-> FALSE, uid |-> "unspecified", rlimits |-> FALSE, caps |-> FALSE,
     invoke |-> FALSE, seInfo |-> FALSE, wrap |-> FALSE, init |-> TRUE, class |-> "ok"]

(* Of a process: where it is; fds and peers of its select loop without the *)
(* server socket, and what is left in fdArray; the connections it has open *)
(* and whether it has the server socket; in dispatch, the connection that  *)
(* was selected, and while it waits for a wrapped child, that child.  The  *)
(* last three say who asked for the process, how, and with which uid.      *)
Process ==
    [st : {"none", "preload", "select", "dispatch", "pipe", "start", "app", "dead"},
     fds : Seq(Clients), peers : Seq(Clients), fdArray : Seq(Clients \union {NoOne}),
     open : SUBSET Clients, server : BOOLEAN,
     index : 0..Cardinality(Clients), loopCount : 0..GcLoopCount, kid : Procs \union {NoOne},
     by : Clients \union {NoOne}, req : Requests \union {NoRequest},
     uid : {"root", "system", "app", "low", "high"}]

Absent ==
    [st |-> "none", fds |-> <<>>, peers |-> <<>>, fdArray |-> <<NoOne, NoOne, NoOne>>,
     open |-> {}, server |-> FALSE, index |-> 0, loopCount |-> GcLoopCount, kid |-> NoOne, by |-> NoOne,
     req |-> NoRequest, uid |-> "root"]

(* Of a client: its connection; what is in the socket of its last request; *)
(* how many it has sent and has answers to, and the last answer, a process *)
(* or NoOne for -1.                                                        *)
Client ==
    [st : {"idle", "connected", "gone"}, sent : {"no", "partly", "whole"},
     req : Requests \union {NoRequest}, asked : 0..MaxRequests, answers : 0..MaxRequests,
     pid : Procs \union {NoOne}]

TypeOK ==
    /\ proc \in [Procs -> Process]
    /\ cred \in Peers
    /\ cli \in [Clients -> Client]
    /\ backlog \in Seq(Clients)

(* registerZygoteSocket comes first.                                       *)
Init ==
    /\ proc = [p \in Procs |->
                 IF p = Z THEN [Absent EXCEPT !.st = "preload", !.server = TRUE] ELSE Absent]
    /\ cli = [c \in Clients |->
                [st |-> "idle", sent |-> "no", req |-> NoRequest, asked |-> 0, answers |-> 0,
                 pid |-> NoOne]]
    /\ cred \in Peers
    /\ backlog = <<>>

-----------------------------------------------------------------------------
(* The policies; what SELinux allows a peer is external.                   *)

Ids(r) == r.uid # "unspecified"

applyUidSecurityPolicy(r, peer) ==
    /\ peer.uid = "system" /\ ~Factory => r.uid # "low"
    /\ peer.uid = "app" => ~Ids(r)
    /\ Ids(r) => peer.selinux

applyRlimitSecurityPolicy(r, peer) ==
    r.rlimits => peer.uid \in {"root", "system"} /\ peer.selinux

(* peer.caps: the peer has the capabilities that r asks for.               *)
applyCapabilitiesSecurityPolicy(r, peer) ==
    r.caps => peer.selinux /\ (peer.uid = "root" \/ peer.caps)

applyInvokeWithSecurityPolicy(r, peer) == r.invoke => peer.uid = "root" /\ peer.selinux

applyseInfoSecurityPolicy(r, peer) ==
    r.seInfo => peer.uid \in {"root", "system"} /\ peer.selinux

Allowed(r, peer) ==
    /\ applyUidSecurityPolicy(r, peer) /\ applyRlimitSecurityPolicy(r, peer)
    /\ applyCapabilitiesSecurityPolicy(r, peer) /\ applyInvokeWithSecurityPolicy(r, peer)
    /\ applyseInfoSecurityPolicy(r, peer)

(* applyInvokeWithSystemProperty: the property wrap.<name> counts as well. *)
invokeWith(r) == r.invoke \/ r.wrap

UidOf(r, peer) == IF r.uid \in {"low", "high"} THEN r.uid ELSE peer.uid

-----------------------------------------------------------------------------
(* The select loop, of the process p.                                      *)

InLoop(p) == proc[p].st \in {"select", "dispatch", "pipe"}

Dead(me) == [Absent EXCEPT !.st = "dead", !.by = me.by, !.req = me.req, !.uid = me.uid]

(* ArrayList.toArray: a longer array gets one null after the elements.     *)
toArray(fds, array) ==
    IF Len(array) < Len(fds) THEN fds
    ELSE [i \in DOMAIN array |->
            IF i <= Len(fds) THEN fds[i]
            ELSE IF i = Len(fds) + 1 THEN NoOne ELSE array[i]]

(* Each GcLoopCount + 1 turns gc closes the sockets nothing refers to.     *)
gc(me) ==
    IF me.loopCount = 0
    THEN [me EXCEPT !.loopCount = GcLoopCount, !.open = @ \intersect Range(me.fds)]
    ELSE [me EXCEPT !.loopCount = @ - 1]

(* A socket is readable when there is something to read or its other end   *)
(* is closed.                                                              *)
Readable(c) == cli[c].sent # "no" \/ cli[c].st = "gone"

(* selectReadable (external) returns the first that is readable; what it   *)
(* does with the closed server socket of a child is not defined, and the   *)
(* child may go on or fail.                                                *)
Turn(p) ==
    LET me == gc([proc[p] EXCEPT !.fdArray = toArray(proc[p].fds, @)])
        ready == {i \in DOMAIN me.fdArray : me.fdArray[i] # NoOne /\ Readable(me.fdArray[i])}
        accept == me.server /\ backlog # <<>>
        first == CHOOSE i \in ready : \A j \in ready : i <= j
    IN  /\ me.st = "select"
        /\ \/ /\ accept \/ ready # {}
              /\ proc' = [proc EXCEPT ![p] = [me EXCEPT !.st = "dispatch",
                                                        !.index = IF accept THEN 0 ELSE first]]
           \/ /\ ~me.server
              /\ proc' = [proc EXCEPT ![p] = Dead(me)]
        /\ UNCHANGED <<cred, cli, backlog>>

(* When accept or the look at the credentials fails the zygote dies.       *)
acceptCommandPeer(p) ==
    LET me == proc[p]
        c == Head(backlog)
    IN  /\ me.st = "dispatch" /\ me.index = 0
        /\ backlog' = Tail(backlog)
        /\ \/ proc' = [proc EXCEPT ![p] = Dead(me)]
           \/ proc' = [proc EXCEPT ![p] =
                         [me EXCEPT !.st = "select", !.peers = Append(@, c),
                                    !.fds = Append(@, c), !.open = @ \union {c}]]
        /\ UNCHANGED <<cred, cli>>

(* ArrayList.remove.                                                       *)
remove(s, i) == SubSeq(s, 1, i - 1) \o SubSeq(s, i + 1, Len(s))

(* Mutant: only peers is updated.                                          *)
DoneWithPeer(me) == [me EXCEPT !.st = "select", !.peers = remove(@, me.index)]

(* runOnce was done: the connection leaves the lists.                      *)
Done(me) ==
    [me EXCEPT !.st = "select", !.peers = remove(@, me.index), !.fds = remove(@, me.index)]

Again(me) == [me EXCEPT !.st = "select"]

closeSocket(me, c) == [me EXCEPT !.open = @ \ {c}]

(* Mutant: without setSoTimeout.                                           *)
runOnceFails_no_timeout(p) ==
    LET me == proc[p]
        c == me.peers[me.index]
    IN  /\ me.st = "dispatch" /\ me.index > 0 /\ cli[c].sent # "whole" /\ cli[c].st = "gone"
        /\ proc' = [proc EXCEPT ![p] = Done(closeSocket(me, c))]
        /\ cli' = [cli EXCEPT ![c].sent = "no"]
        /\ UNCHANGED <<cred, backlog>>

(* The end of file, and the timeout of a read that finds nothing or not    *)
(* the whole request.                                                      *)
runOnceFails(p) ==
    LET me == proc[p]
        c == me.peers[me.index]
    IN  /\ me.st = "dispatch" /\ me.index > 0 /\ cli[c].sent # "whole"
        /\ proc' = [proc EXCEPT ![p] = Done(closeSocket(me, c))]
        /\ cli' = [cli EXCEPT ![c].sent = "no"]
        /\ UNCHANGED <<cred, backlog>>

(* The answer of handleParentProc; a write that fails is done as well, and *)
(* the socket is left open.                                                *)
Answer(me, c, pid) ==
    IF cli[c].st = "gone" THEN <<Done(me), [cli[c] EXCEPT !.sent = "no"]>>
    ELSE <<Again(me), [cli[c] EXCEPT !.sent = "no", !.answers = @ + 1, !.pid = pid]>>

Answered(p, c, pid, procs) ==
    LET a == Answer(procs[p], c, pid)
    IN  /\ proc' = [procs EXCEPT ![p] = a[1]]
        /\ cli' = [cli EXCEPT ![c] = a[2]]

(* The policies refuse the request, or the fork fails: -1.                 *)
Refuse(p) ==
    LET me == proc[p]
        c == me.peers[me.index]
    IN  /\ me.st = "dispatch" /\ me.index > 0 /\ cli[c].sent = "whole"
        /\ \/ ~cli[c].req.valid
           \/ ~Allowed(cli[c].req, cred[c])
           \/ \A k \in Kids : proc[k].st # "none"
        /\ Answered(p, c, NoOne, proc)
        /\ UNCHANGED <<cred, backlog>>

(* forkAndSpecialize: the child has all that the parent has.  The parent   *)
(* waits for the pid of a wrapped child, and answers at once otherwise.    *)
forkAndSpecialize(p) ==
    LET me == proc[p]
        c == me.peers[me.index]
        r == cli[c].req
    IN  /\ me.st = "dispatch" /\ me.index > 0 /\ cli[c].sent = "whole"
        /\ r.valid /\ Allowed(r, cred[c])
        /\ \E k \in {x \in Kids : proc[x].st = "none"} :
             LET forked == [proc EXCEPT ![k] = [me EXCEPT !.st = "start", !.by = c, !.req = r,
                                                          !.uid = UidOf(r, cred[c])]]
             IN  IF r.init /\ invokeWith(r)
                 THEN /\ proc' = [forked EXCEPT ![p].st = "pipe", ![p].kid = k]
                      /\ cli' = [cli EXCEPT ![c].sent = "no"]
                 ELSE Answered(p, c, k, forked)
        /\ UNCHANGED <<cred, backlog>>

(* Mutant: any pid is taken.                                               *)
InnerPidTrusted(k, pid) == pid

(* A wrapped child writes a pid to the pipe, of any process, or dies; only *)
(* its own, or that of a descendant, is the answer.                        *)
InnerPid(k, pid) == IF pid = k THEN pid ELSE k

handleParentProc(p) ==
    LET me == proc[p]
    IN  /\ me.st = "pipe" /\ proc[me.kid].st \in {"app", "dead"}
        /\ \E pid \in IF proc[me.kid].st = "dead" THEN {me.kid} ELSE Procs :
             Answered(p, me.peers[me.index], InnerPid(me.kid, pid),
                      [proc EXCEPT ![p].kid = NoOne])
        /\ UNCHANGED <<cred, backlog>>

-----------------------------------------------------------------------------
(* The child.                                                              *)

(* Whether handleChildProc returns: for want of a class name, or when      *)
(* invokeStaticMain throws.                                                *)
ChildReturns(r) ==
    /\ ~r.init
    /\ r.class = "missing" \/ (r.class = "unknown" /\ ~invokeWith(r))

(* It closes its connection and the server socket, and runs its class or   *)
(* the wrapper, dies of an exception, or is in the select loop again.      *)
handleChildProc(k) ==
    LET me == proc[k]
        child == [closeSocket(me, me.by) EXCEPT !.server = FALSE]
    IN  /\ me.st = "start" /\ k # SystemServer
        /\ proc' = [proc EXCEPT ![k] =
             IF ChildReturns(me.req) THEN Done(child)
             ELSE IF me.req.class = "ok" \/ invokeWith(me.req)
             THEN [child EXCEPT !.st = "app", !.fds = <<>>, !.peers = <<>>,
                                !.fdArray = Absent.fdArray, !.index = 0]
             ELSE Dead(me)]
        /\ UNCHANGED <<cred, cli, backlog>>

startSystemServer ==
    /\ proc[Z].st = "preload"
    /\ proc' = [proc EXCEPT ![Z].st = "select",
                            ![SystemServer] = [proc[Z] EXCEPT !.st = "start", !.uid = "system"]]
    /\ UNCHANGED <<cred, cli, backlog>>

handleSystemServerProcess ==
    /\ proc[SystemServer].st = "start"
    /\ proc' = [proc EXCEPT ![SystemServer].st = "app", ![SystemServer].server = FALSE]
    /\ UNCHANGED <<cred, cli, backlog>>

-----------------------------------------------------------------------------
(* The rest of the system (external).                                      *)

(* A process dies; the zygote dies when its system server does.            *)
Die(p) ==
    /\ proc[p].st \in {"app", "start"} \/ (p \in Kids /\ InLoop(p))
    /\ proc' = [q \in Procs |->
                  IF q = p \/ (p = SystemServer /\ q = Z) THEN Dead(proc[q]) ELSE proc[q]]
    /\ UNCHANGED <<cred, cli, backlog>>

Connect(c) ==
    /\ cli[c].st = "idle" /\ proc[Z].st # "dead"
    /\ cli' = [cli EXCEPT ![c].st = "connected"]
    /\ backlog' = Append(backlog, c)
    /\ UNCHANGED <<proc, cred>>

(* A client writes a request when it has the answer to the one before, and *)
(* in more than one piece if it is long.                                   *)
Send(c) ==
    /\ cli[c].st = "connected" /\ cli[c].answers = cli[c].asked /\ cli[c].asked < cred[c].n
    /\ \E r \in cred[c].asks, s \in {"partly", "whole"} :
         cli' = [cli EXCEPT ![c].sent = s, ![c].req = r, ![c].asked = @ + 1]
    /\ UNCHANGED <<proc, cred, backlog>>

SendRest(c) ==
    /\ cli[c].st = "connected" /\ cli[c].sent = "partly"
    /\ cli' = [cli EXCEPT ![c].sent = "whole"]
    /\ UNCHANGED <<proc, cred, backlog>>

(* The client goes away, or sees that no one has its connection.           *)
Leave(c) ==
    /\ cli[c].st = "connected"
    /\ cli' = [cli EXCEPT ![c].st = "gone"]
    /\ UNCHANGED <<proc, cred, backlog>>

LoopStep(p) ==
    \/ Turn(p)
    \/ acceptCommandPeer(p)
    \/ runOnceFails(p)
    \/ Refuse(p)
    \/ forkAndSpecialize(p)
    \/ handleParentProc(p)

ClientStep(c) ==
    \/ Connect(c)
    \/ Send(c)
    \/ SendRest(c)
    \/ Leave(c)

Next ==
    \/ startSystemServer
    \/ handleSystemServerProcess
    \/ \E p \in Procs : LoopStep(p) \/ Die(p)
    \/ \E k \in Kids : handleChildProc(k)
    \/ \E c \in Clients : ClientStep(c)

Spec == Init /\ [][Next]_vars

(* The zygote goes on when it can; a wrapped child need not write its pid. *)
Unwrapped(p) == proc[p].st = "pipe" => proc[proc[p].kid].st = "dead"

FairSpec ==
    /\ Spec
    /\ WF_vars(startSystemServer)
    /\ WF_vars(Unwrapped(Z) /\ LoopStep(Z))

-----------------------------------------------------------------------------
(* The index selectReadable returns is one of fds and peers, whichever     *)
(* connections went away before: fdArray is used again and again, and has  *)
(* nothing behind the elements of fds.                                     *)
IndexesAgree ==
    \A p \in Procs : InLoop(p) =>
        /\ proc[p].fds = proc[p].peers
        /\ proc[p].st # "select" =>
             /\ Len(proc[p].fds) <= Len(proc[p].fdArray)
             /\ \A i \in DOMAIN proc[p].fdArray :
                  proc[p].fdArray[i] = IF i <= Len(proc[p].fds) THEN proc[p].fds[i] ELSE NoOne
             /\ proc[p].index <= Len(proc[p].peers)

(* selectReadable gets no closed connection, of which it would say         *)
(* "Error in select()" and end the process; and the connections a failed   *)
(* answer leaves open are closed by the gc of the next turns.              *)
DescriptorsAccounted ==
    \A p \in Procs : InLoop(p) =>
        /\ Range(proc[p].fds) \subseteq proc[p].open
        /\ Cardinality(proc[p].open \ Range(proc[p].fds)) <= GcLoopCount + 1

(* A request is run once: one answer, and one process at most, also when   *)
(* its connection is selected by two processes.                            *)
OncePerRequest ==
    \A c \in Clients :
        /\ cli[c].answers <= cli[c].asked
        /\ Cardinality({k \in Kids : proc[k].by = c}) <= cli[c].asked

(* "App UIDs may not specify uid's or gid's": a process has the uid of its *)
(* peer or one the peer may give; a system peer gives none below           *)
(* SYSTEM_UID but in factory test mode; limits and seinfo are for root and *)
(* system, and a wrapper for root or where the property wrap. names it.    *)
SpawnsWithinPolicy ==
    \A k \in Kids : proc[k].by # NoOne =>
        LET peer == cred[proc[k].by]
            r == proc[k].req
        IN  /\ peer.uid = "app" => proc[k].uid = "app" /\ ~r.rlimits /\ ~r.seInfo
            /\ peer.uid = "system" => Factory \/ proc[k].uid # "low"
            /\ proc[k].uid # peer.uid => peer.selinux
            /\ peer.uid # "root" => ~r.invoke

(* The pid a client is told is -1 or that of the process that was forked   *)
(* for this request, whatever pid the wrapped process wrote.               *)
AnswersItsOwn ==
    \A c \in Clients : cli'[c].answers # cli[c].answers =>
        LET pid == cli'[c].pid
        IN  pid # NoOne => proc'[pid].by = c /\ proc'[pid].req = cli[c].req

(* A child that came back from handleChildProc ("should never get here").  *)
Stray == \E k \in Kids : proc[k].st # "none" /\ ChildReturns(proc[k].req)

(* Each whole request on a connection is answered, or the zygote closes    *)
(* the connection or dies; unless a wrapped child keeps it waiting for the *)
(* pid, or a stray child takes the request and dies.                       *)
RequestsServed ==
    \A c \in Clients :
        (cli[c].sent = "whole" /\ c \in proc[Z].open)
          ~> \/ cli[c].answers = cli[c].asked
             \/ cli[c].st = "gone" \/ c \notin proc[Z].open
             \/ proc[Z].st = "pipe" \/ Stray

(* The tables of runSelectLoop stay in step with each other and with the   *)
(* descriptors that are open.                                              *)
ConnectionsSound == TypeOK /\ IndexesAgree /\ DescriptorsAccounted

(* What runOnce makes of a request: one answer and one process at most,    *)
(* within the policies, and the pid answered is that of the client's own   *)
(* request.                                                                *)
RequestsHonoured == [][OncePerRequest' /\ SpawnsWithinPolicy' /\ AnswersItsOwn]_vars
=============================================================================
