---------------------------- MODULE ZygoteProofs -----------------------------
(***************************************************************************)
(* Proofs about the zygote, for any connections, requests and processes:   *)
(* the tables of runSelectLoop stay in step and lose no descriptor, and a  *)
(* request makes one process at most, within the policies, and is answered *)
(* once, with the pid of that process.                                     *)
(***************************************************************************)
EXTENDS ZygoteTables

(* What is tried, and for how long, for a leaf that names no prover.       *)
USE SMTT(15), ZenonT(30), SMTT(60)

(* A connection waits to be accepted once, or was accepted.                *)
BacklogSound ==
    /\ IsInjective(backlog)
    /\ \A c \in Range(backlog) : cli[c].st # "idle" /\ c \notin Range(proc[Z].fds)
    /\ \A c \in Range(proc[Z].fds) : cli[c].st # "idle"
    /\ proc[Z].st = "dispatch" /\ proc[Z].index = 0 => backlog # <<>>

(* p waits for the pid of the child that c asked for.                      *)
Waits(p, c) == proc[p].st = "pipe" /\ proc[p].peers[proc[p].index] = c

Spawned(c) == {k \in Kids : proc[k].by = c}

(* What a client was given for its requests: all but the last is settled,  *)
(* and the last one is in the socket, or a process waits for its pid, or   *)
(* it is settled too.                                                      *)
Accounts ==
    \A c \in Clients :
        /\ cli[c].answers <= cli[c].asked
        /\ Cardinality(Spawned(c)) <= cli[c].asked
        /\ cli[c].sent # "no" =>
             /\ cli[c].answers < cli[c].asked
             /\ Cardinality(Spawned(c)) < cli[c].asked
        /\ \A p \in Procs : Waits(p, c) =>
             /\ cli[c].sent = "no" /\ cli[c].answers < cli[c].asked
             /\ proc[p].kid \in Kids /\ proc[proc[p].kid].st # "none"
             /\ proc[proc[p].kid].by = c /\ proc[proc[p].kid].req = cli[c].req
             /\ \A q \in Procs : Waits(q, c) => q = p

ZInv ==
    /\ TypeOK
    /\ \A p \in Procs : Sound(p, proc[p])
    /\ BacklogSound
    /\ Accounts
    /\ SpawnsWithinPolicy

-----------------------------------------------------------------------------
(* What a step keeps when it leaves the origins of the processes alone.    *)

ProcsSound == \A p \in Procs : Sound(p, proc[p])

LEMMA OneProcess ==
    ASSUME TypeOK, ProcsSound, NEW p \in Procs, NEW n \in Process, Sound(p, n),
           proc' = [proc EXCEPT ![p] = n]
    PROVE  /\ proc' \in [Procs -> Process] /\ ProcsSound' /\ proc'[p] = n
           /\ \A q \in Procs \ {p} : proc'[q] = proc[q]
  <1>1. proc \in [Procs -> Process]
    BY DEF TypeOK
  <1>2. /\ proc' \in [Procs -> Process] /\ proc'[p] = n
        /\ \A q \in Procs \ {p} : proc'[q] = proc[q]
    BY <1>1
  <1>3. ASSUME NEW q \in Procs PROVE Sound(q, proc'[q])
    <2>1. CASE q = p
      BY <1>2, <2>1
    <2>2. CASE q # p
      BY <1>2, <2>2 DEF ProcsSound
    <2> QED
      BY <2>1, <2>2
  <1> QED
    BY <1>2, <1>3 DEF ProcsSound

LEMMA BacklogQuiet ==
    ASSUME BacklogSound, backlog' = backlog,
           Range(proc'[Z].fds) \subseteq Range(proc[Z].fds),
           \A c \in Clients : cli[c].st # "idle" => cli'[c].st # "idle",
           proc'[Z].st = "dispatch" /\ proc'[Z].index = 0 => backlog # <<>>,
           TypeOK
    PROVE  BacklogSound'
  <1>1. Range(backlog) \subseteq Clients /\ Range(proc[Z].fds) \subseteq Clients
    <2>1. backlog \in Seq(Clients) /\ proc[Z].fds \in Seq(Clients)
      BY DEF TypeOK, Process, Procs
    <2> QED
      BY <2>1, LenProperties, ElementOfSeq DEF Range
  <1> QED
    BY <1>1 DEF BacklogSound

(* The account of a client is about the requests and who waits.            *)
SameRequests(c) ==
    /\ cli'[c].asked = cli[c].asked /\ cli'[c].answers = cli[c].answers
    /\ cli'[c].req = cli[c].req
    /\ cli'[c].sent # "no" => cli[c].sent # "no"

OriginsKept ==
    \A k \in Kids : /\ proc'[k].by = proc[k].by /\ proc'[k].req = proc[k].req
                    /\ proc'[k].uid = proc[k].uid
                    /\ proc[k].st # "none" => proc'[k].st # "none"

NoneWaits == \A q \in Procs : proc'[q].st = "pipe" => proc'[q] = proc[q]

LEMMA AccountsQuiet ==
    ASSUME Accounts, OriginsKept, NoneWaits, \A c \in Clients : SameRequests(c)
    PROVE  Accounts'
  <1>1. ASSUME NEW c \in Clients PROVE Spawned(c)' = Spawned(c)
    BY DEF Spawned, OriginsKept
  <1>2. ASSUME NEW c \in Clients, NEW q \in Procs, Waits(q, c)'
        PROVE  /\ Waits(q, c) /\ proc'[q].kid = proc[q].kid /\ proc[q].kid \in Kids
    <2>1. Waits(q, c) /\ proc'[q].kid = proc[q].kid
      BY <1>2 DEF Waits, NoneWaits
    <2> QED
      BY <2>1 DEF Accounts
  <1>3. ASSUME NEW c \in Clients, NEW q \in Procs, Waits(q, c)'
        PROVE  /\ cli'[c].sent = "no" /\ cli'[c].answers < cli'[c].asked
               /\ proc'[q].kid \in Kids /\ proc'[proc'[q].kid].st # "none"
               /\ proc'[proc'[q].kid].by = c /\ proc'[proc'[q].kid].req = cli'[c].req
               /\ \A x \in Procs : Waits(x, c)' => x = q
    <2>1. Waits(q, c) /\ proc'[q].kid = proc[q].kid /\ proc[q].kid \in Kids
      BY <1>2, <1>3
    <2>2. /\ cli[c].sent = "no" /\ cli[c].answers < cli[c].asked
          /\ proc[proc[q].kid].st # "none"
          /\ proc[proc[q].kid].by = c /\ proc[proc[q].kid].req = cli[c].req
          /\ \A x \in Procs : Waits(x, c) => x = q
      BY <2>1 DEF Accounts
    <2>3. \A x \in Procs : Waits(x, c)' => x = q
      BY <1>2, <2>2
    <2> QED
      BY <2>1, <2>2, <2>3 DEF SameRequests, OriginsKept
  <1>4. ASSUME NEW c \in Clients
        PROVE  /\ cli'[c].answers <= cli'[c].asked
               /\ Cardinality(Spawned(c)') <= cli'[c].asked
               /\ cli'[c].sent # "no" =>
                    /\ cli'[c].answers < cli'[c].asked
                    /\ Cardinality(Spawned(c)') < cli'[c].asked
    BY <1>1 DEF Accounts, SameRequests
  <1> QED
    BY <1>3, <1>4 DEF Accounts

LEMMA PolicyQuiet ==
    ASSUME SpawnsWithinPolicy, OriginsKept, cred' = cred
    PROVE  SpawnsWithinPolicy'
  BY DEF SpawnsWithinPolicy, OriginsKept

LEMMA NoAnswer ==
    ASSUME \A c \in Clients : SameRequests(c)
    PROVE  AnswersItsOwn
  BY DEF AnswersItsOwn, SameRequests

(* A step of one process that says nothing to a client.                    *)
LEMMA QuietStep ==
    ASSUME ZInv, NEW p \in Procs, NEW n \in Process, Sound(p, n),
           proc' = [proc EXCEPT ![p] = n], n.st \notin {"none", "pipe"},
           n.by = proc[p].by, n.req = proc[p].req, n.uid = proc[p].uid,
           p = Z => /\ Range(n.fds) \subseteq Range(proc[p].fds)
                    /\ n.st = "dispatch" /\ n.index = 0 => backlog # <<>>,
           cred' = cred, backlog' = backlog, cli' \in [Clients -> Client],
           \A c \in Clients : SameRequests(c) /\ (cli[c].st # "idle" => cli'[c].st # "idle")
    PROVE  ZInv' /\ AnswersItsOwn
  <1>1. TypeOK /\ ProcsSound /\ BacklogSound /\ Accounts /\ SpawnsWithinPolicy
    BY DEF ZInv, ProcsSound
  <1>2. /\ proc' \in [Procs -> Process] /\ ProcsSound' /\ proc'[p] = n
        /\ \A q \in Procs \ {p} : proc'[q] = proc[q]
    BY <1>1, OneProcess, Zenon
  <1>3. TypeOK'
    BY <1>1, <1>2 DEF TypeOK
  <1>4. OriginsKept /\ NoneWaits
    <2>1. Kids \subseteq Procs
      BY DEF Procs
    <2> QED
      BY <1>2, <2>1 DEF OriginsKept, NoneWaits
  <1>5. BacklogSound'
    <2>1. Z \in Procs
      BY DEF Procs
    <2>2. CASE p = Z
      BY <1>1, <1>2, <2>2, BacklogQuiet
    <2>3. CASE p # Z
      <3>1. proc'[Z] = proc[Z]
        BY <1>2, <2>1, <2>3
      <3> QED
        BY <1>1, <3>1, BacklogQuiet DEF BacklogSound
    <2> QED
      BY <2>2, <2>3
  <1>6. Accounts' /\ SpawnsWithinPolicy' /\ AnswersItsOwn
    BY <1>1, <1>4, AccountsQuiet, PolicyQuiet, NoAnswer
  <1> QED
    BY <1>2, <1>3, <1>5, <1>6 DEF ZInv, ProcsSound

-----------------------------------------------------------------------------
(* The steps, one by one.                                                  *)

LEMMA Parts ==
    ASSUME ZInv, NEW p \in Procs
    PROVE  /\ TypeOK /\ ProcsSound /\ BacklogSound /\ Accounts /\ SpawnsWithinPolicy
           /\ proc \in [Procs -> Process] /\ proc[p] \in Process /\ Sound(p, proc[p])
           /\ cli \in [Clients -> Client] /\ backlog \in Seq(Clients)
  BY DEF ZInv, ProcsSound, TypeOK

LEMMA TurnKeeps ==
    ASSUME ZInv, NEW p \in Procs, Turn(p)
    PROVE  ZInv' /\ AnswersItsOwn
  <1> DEFINE was == proc[p]
             me == gc([was EXCEPT !.fdArray = toArray(was.fds, @)])
             ready == {i \in DOMAIN me.fdArray : me.fdArray[i] # NoOne /\ Readable(me.fdArray[i])}
             accept == me.server /\ backlog # <<>>
             first == CHOOSE i \in ready : \A j \in ready : i <= j
             x == IF accept THEN 0 ELSE first
  <1>1. /\ me.st = "select" /\ cred' = cred /\ cli' = cli /\ backlog' = backlog
        /\ \/ /\ accept \/ ready # {}
              /\ proc' = [proc EXCEPT ![p] = [me EXCEPT !.st = "dispatch", !.index = x]]
           \/ proc' = [proc EXCEPT ![p] = Dead(me)]
    BY Zenon DEF Turn
  <1>2. was \in Process /\ Sound(p, was)
    BY Parts
  <1>3. was.st = "select"
    <2>1. CASE was.loopCount = 0
      BY <1>1, <1>2, <2>1, SMTT(30) DEF gc, Process
    <2>2. CASE was.loopCount # 0
      BY <1>1, <1>2, <2>2 DEF gc, Process
    <2> QED
      BY <2>1, <2>2
  <1> HIDE DEF was
  <1>4. me = Turned(was)
    BY DEF Turned
  <1> HIDE DEF me
  <1>5. /\ me \in Process /\ me.server = was.server
        /\ me.by = was.by /\ me.req = was.req /\ me.uid = was.uid
        /\ DOMAIN me.fdArray \subseteq Nat \ {0}
    <2>1. /\ me \in Process /\ me.server = was.server
          /\ me.by = was.by /\ me.req = was.req /\ me.uid = was.uid
          /\ DOMAIN me.fdArray = 1..Len(me.fdArray) /\ Len(me.fdArray) \in Nat
      <3>1. TurnedWell(was, me)
        BY <1>2, <1>3, <1>4, TurnGc
      <3> QED
        BY <3>1 DEF TurnedWell
    <2> QED
      BY <2>1
  <1>6. /\ cli' \in [Clients -> Client]
        /\ \A c \in Clients : SameRequests(c) /\ (cli[c].st # "idle" => cli'[c].st # "idle")
    BY <1>1, Parts DEF SameRequests
  <1>7. CASE proc' = [proc EXCEPT ![p] = Dead(me)]
    <2>1. /\ Dead(me) \in Process /\ Sound(p, Dead(me)) /\ Dead(me).st = "dead"
          /\ Dead(me).by = was.by /\ Dead(me).req = was.req /\ Dead(me).uid = was.uid
          /\ Range(Dead(me).fds) = {}
      BY <1>5, DeadSound, EmptySeq, SMTT(30) DEF Range
    <2> QED
      BY <1>1, <1>6, <1>7, <2>1, QuietStep, Zenon DEF was
  <1>8. CASE /\ accept \/ ready # {}
             /\ proc' = [proc EXCEPT ![p] = [me EXCEPT !.st = "dispatch", !.index = x]]
    <2>1. /\ x \in DOMAIN me.fdArray \union {0}
          /\ x = 0 => p = Z /\ backlog # <<>>
          /\ x # 0 => me.fdArray[x] # NoOne
      <3>1. CASE accept
        <4>1. p = Z
          BY <1>2, <1>3, <1>5, <3>1 DEF Sound
        <4> QED
          BY <3>1, <4>1
      <3>2. CASE ~accept
        <4>1. ready # {} /\ ready \in SUBSET Nat
          BY <1>5, <1>8, <3>2
        <4>2. \E i \in ready : \A j \in ready : i <= j
          BY <4>1, HasMinimum, Zenon
        <4>3. first \in ready
          BY <4>2
        <4>4. first \in DOMAIN me.fdArray /\ me.fdArray[first] # NoOne
          BY <4>3
        <4> QED
          BY <1>5, <3>2, <4>4, Zenon
      <3> QED
        BY <3>1, <3>2
    <2> HIDE DEF x
    <2> DEFINE n == [me EXCEPT !.st = "dispatch", !.index = x]
    <2>0. n = Dispatched(me, x)
      BY DEF Dispatched
    <2>3. proc' = [proc EXCEPT ![p] = n]
      BY <1>8
    <2> HIDE DEF n
    <2>2. /\ n \in Process /\ Sound(p, n) /\ n.st = "dispatch" /\ n.index = x
          /\ n.by = was.by /\ n.req = was.req /\ n.uid = was.uid
          /\ n.fds = was.fds
      <3>1. (x = 0 => p = Z) /\ (x # 0 => me.fdArray[x] # NoOne)
        BY <2>1
      <3> QED
        BY ONLY <1>2, <1>3, <1>4, <2>0, <2>1, <3>1, TurnSound
    <2> QED
      BY <1>1, <1>6, <2>1, <2>2, <2>3, QuietStep, Zenon DEF was
  <1> QED
    BY <1>1, <1>7, <1>8

(* The connection that was selected, and its client.                       *)
LEMMA Selected ==
    ASSUME ZInv, NEW p \in Procs, proc[p].st \in {"dispatch", "pipe"}, proc[p].index > 0
    PROVE  /\ proc[p].peers[proc[p].index] \in Clients
           /\ cli[proc[p].peers[proc[p].index]] \in Client
  <1>1. /\ Tables(proc[p]) /\ proc[p].peers \in Seq(Clients) /\ proc[p].index \in Nat
        /\ proc[p].index <= Len(proc[p].peers)
    <2> DEFINE me == proc[p]
    <2>1. me \in Process /\ Sound(p, me)
      BY Parts
    <2>2. me.st \in {"dispatch", "pipe"}
      OBVIOUS
    <2> HIDE DEF me
    <2>3. Tables(me) /\ me.peers \in Seq(Clients) /\ me.index \in Nat
      BY ONLY <2>1, <2>2 DEF Sound, Working, Process
    <2>4. me.index <= Len(me.peers)
      BY ONLY <2>2, <2>3 DEF Tables
    <2> QED
      BY <2>3, <2>4 DEF me
  <1>2. proc[p].index \in 1..Len(proc[p].peers)
    BY <1>1, LenProperties
  <1> QED
    BY <1>1, <1>2, ElementOfSeq, Parts

LEMMA FailsKeeps ==
    ASSUME ZInv, NEW p \in Procs, runOnceFails(p)
    PROVE  ZInv' /\ AnswersItsOwn
  <1> DEFINE me == proc[p]
             c == me.peers[me.index]
             n == Done(closeSocket(me, c))
  <1>1. /\ me.st = "dispatch" /\ me.index > 0 /\ cred' = cred /\ backlog' = backlog
        /\ proc' = [proc EXCEPT ![p] = n] /\ cli' = [cli EXCEPT ![c].sent = "no"]
    BY DEF runOnceFails
  <1>2. /\ me \in Process /\ Sound(p, me) /\ cli \in [Clients -> Client] /\ c \in Clients
    BY <1>1, Parts, Selected
  <1>3. /\ n \in Process /\ Sound(p, n) /\ n.st = "select"
        /\ n.by = me.by /\ n.req = me.req /\ n.uid = me.uid
        /\ Range(n.fds) \subseteq Range(me.fds)
    BY <1>1, <1>2, DoneSound, ZenonT(40)
  <1> HIDE DEF n, c
  <1>4. /\ cli' \in [Clients -> Client]
        /\ \A d \in Clients : SameRequests(d) /\ (cli[d].st # "idle" => cli'[d].st # "idle")
    BY <1>1, <1>2 DEF SameRequests, Client
  <1> QED
    BY <1>1, <1>3, <1>4, QuietStep, ZenonT(30)

LEMMA ChildKeeps ==
    ASSUME ZInv, NEW k \in Kids, handleChildProc(k)
    PROVE  ZInv' /\ AnswersItsOwn
  <1> DEFINE me == proc[k]
             child == [closeSocket(me, me.by) EXCEPT !.server = FALSE]
             app == [child EXCEPT !.st = "app", !.fds = <<>>, !.peers = <<>>,
                                  !.fdArray = Absent.fdArray, !.index = 0]
  <1>1. /\ me.st = "start" /\ cred' = cred /\ cli' = cli /\ backlog' = backlog
        /\ \/ proc' = [proc EXCEPT ![k] = Done(child)]
           \/ proc' = [proc EXCEPT ![k] = app]
           \/ proc' = [proc EXCEPT ![k] = Dead(me)]
    BY Zenon DEF handleChildProc
  <1>2. k \in Procs /\ k # Z /\ me \in Process /\ Sound(k, me)
    BY Parts, FiniteAndApart DEF Procs
  <1>3. /\ child \in Process /\ child.by = me.by /\ child.req = me.req /\ child.uid = me.uid
        /\ Done(child) \in Process /\ Sound(k, Done(child)) /\ Done(child).st = "select"
        /\ Done(child).by = me.by /\ Done(child).req = me.req /\ Done(child).uid = me.uid
    BY <1>1, <1>2, ChildSound, ZenonT(30)
  <1>4. /\ Dead(me) \in Process /\ Sound(k, Dead(me)) /\ Dead(me).st = "dead"
        /\ Dead(me).by = me.by /\ Dead(me).req = me.req /\ Dead(me).uid = me.uid
    BY <1>2, DeadSound, Zenon
  <1> HIDE DEF child
  <1>5. /\ app \in Process /\ app.st = "app"
        /\ app.by = me.by /\ app.req = me.req /\ app.uid = me.uid
    <2>1. Absent.fdArray \in Seq(Clients \union {NoOne}) /\ <<>> \in Seq(Clients)
      BY EmptySeq DEF Absent
    <2>2. 0 \in 0..Cardinality(Clients)
      BY OpenFinite
    <2> QED
      BY ONLY <1>3, <2>1, <2>2, Zenon DEF Process, app
  <1> HIDE DEF app
  <1>6. Sound(k, app)
    BY <1>5 DEF Sound, Working
  <1>7. /\ cli' \in [Clients -> Client]
        /\ \A d \in Clients : SameRequests(d) /\ (cli[d].st # "idle" => cli'[d].st # "idle")
    BY <1>1, <1>2, Parts DEF SameRequests
  <1>8. PICK n \in {Done(child), app, Dead(me)} : proc' = [proc EXCEPT ![k] = n]
    BY <1>1
  <1>9. /\ n \in Process /\ Sound(k, n) /\ n.st \in {"select", "app", "dead"}
        /\ n.by = me.by /\ n.req = me.req /\ n.uid = me.uid
    BY <1>3, <1>4, <1>5, <1>6, <1>8
  <1> QED
    BY <1>1, <1>2, <1>7, <1>8, <1>9, QuietStep, Zenon

(* The answer of handleParentProc, to the client c of process p.           *)
LEMMA AnswerEffect ==
    ASSUME NEW p, NEW me \in Process, Sound(p, me), me.st \in {"dispatch", "pipe"},
           me.index > 0, NEW c \in Clients, cli[c] \in Client,
           cli[c].answers < cli[c].asked, NEW pid \in Procs \union {NoOne},
           NEW a, a = Answer(me, c, pid)
    PROVE  /\ a[1] \in Process /\ Sound(p, a[1]) /\ a[1].st = "select"
           /\ a[1].by = me.by /\ a[1].req = me.req /\ a[1].uid = me.uid
           /\ Range(a[1].fds) \subseteq Range(me.fds)
           /\ a[2] \in Client /\ a[2].st = cli[c].st /\ a[2].sent = "no"
           /\ a[2].req = cli[c].req /\ a[2].asked = cli[c].asked
           /\ a[2].answers <= a[2].asked
           /\ a[2].answers # cli[c].answers => a[2].pid = pid
  <1>1. /\ cli[c].answers \in Nat /\ cli[c].asked \in 0..MaxRequests /\ MaxRequests \in Nat
    BY RequestsAndLimits DEF Client
  <1>2. CASE cli[c].st = "gone"
    <2> DEFINE d == [cli[c] EXCEPT !.sent = "no"]
    <2>1. a[1] = Done(me) /\ a[2] = d
      BY <1>2 DEF Answer
    <2>2. /\ d \in Client /\ d.st = cli[c].st /\ d.sent = "no" /\ d.req = cli[c].req
          /\ d.asked = cli[c].asked /\ d.answers = cli[c].answers
      BY DEF Client
    <2> HIDE DEF d
    <2>3. /\ Done(me) \in Process /\ Sound(p, Done(me)) /\ Done(me).st = "select"
          /\ Done(me).by = me.by /\ Done(me).req = me.req /\ Done(me).uid = me.uid
          /\ Range(Done(me).fds) \subseteq Range(me.fds)
      BY DoneSound
    <2>4. d.answers <= d.asked
      BY <1>1, <2>2
    <2> QED
      BY ONLY <2>1, <2>2, <2>3, <2>4
  <1>3. CASE cli[c].st # "gone"
    <2> DEFINE x == cli[c].answers + 1
               d == [cli[c] EXCEPT !.sent = "no", !.answers = x, !.pid = pid]
    <2>1. a[1] = Again(me) /\ a[2] = d
      BY <1>3 DEF Answer
    <2>2. x \in 0..MaxRequests /\ x <= cli[c].asked
      BY <1>1
    <2> HIDE DEF x
    <2>3. /\ d \in Client /\ d.st = cli[c].st /\ d.sent = "no" /\ d.req = cli[c].req
          /\ d.asked = cli[c].asked /\ d.answers = x /\ d.pid = pid
      BY <2>2, Zenon DEF Client
    <2> HIDE DEF d
    <2>4. /\ Again(me) \in Process /\ Sound(p, Again(me)) /\ Again(me).st = "select"
          /\ Again(me).by = me.by /\ Again(me).req = me.req /\ Again(me).uid = me.uid
          /\ Again(me).fds = me.fds
      BY AgainSound
    <2> QED
      BY ONLY <2>1, <2>2, <2>3, <2>4
  <1> QED
    BY <1>2, <1>3

(* The account of the client that gets the answer, when no process came of *)
(* this step.                                                              *)
LEMMA AccountsAnswer ==
    ASSUME Accounts, TypeOK, NEW p \in Procs, NEW c \in Clients, OriginsKept,
           proc'[p].st # "pipe",
           \A q \in Procs \ {p} : proc'[q] = proc[q],
           cli[c].sent # "no" \/ Waits(p, c),
           \A d \in Clients \ {c} : cli'[d] = cli[d],
           cli'[c].sent = "no", cli'[c].req = cli[c].req, cli'[c].asked = cli[c].asked,
           cli'[c].answers <= cli'[c].asked
    PROVE  Accounts'
  <1>1. ASSUME NEW d \in Clients PROVE Spawned(d)' = Spawned(d)
    BY DEF Spawned, OriginsKept
  <1>2. ASSUME NEW d \in Clients, NEW q \in Procs, Waits(q, d)'
        PROVE  /\ q # p /\ Waits(q, d) /\ proc'[q] = proc[q] /\ d # c
    <2>1. q # p /\ Waits(q, d) /\ proc'[q] = proc[q]
      BY <1>2 DEF Waits
    <2>2. d # c
      BY <2>1 DEF Accounts
    <2> QED
      BY <2>1, <2>2
  <1>3. ASSUME NEW d \in Clients, NEW q \in Procs, Waits(q, d)'
        PROVE  /\ cli'[d].sent = "no" /\ cli'[d].answers < cli'[d].asked
               /\ proc'[q].kid \in Kids /\ proc'[proc'[q].kid].st # "none"
               /\ proc'[proc'[q].kid].by = d /\ proc'[proc'[q].kid].req = cli'[d].req
               /\ \A x \in Procs : Waits(x, d)' => x = q
    <2>1. Waits(q, d) /\ proc'[q] = proc[q] /\ cli'[d] = cli[d]
      BY <1>2, <1>3
    <2>2. /\ cli[d].sent = "no" /\ cli[d].answers < cli[d].asked
          /\ proc[q].kid \in Kids /\ proc[proc[q].kid].st # "none"
          /\ proc[proc[q].kid].by = d /\ proc[proc[q].kid].req = cli[d].req
          /\ \A x \in Procs : Waits(x, d) => x = q
      BY <2>1 DEF Accounts
    <2>3. \A x \in Procs : Waits(x, d)' => x = q
      BY <1>2, <2>2
    <2> QED
      BY <2>1, <2>2, <2>3 DEF OriginsKept
  <1>4. ASSUME NEW d \in Clients
        PROVE  /\ cli'[d].answers <= cli'[d].asked
               /\ Cardinality(Spawned(d)') <= cli'[d].asked
               /\ cli'[d].sent # "no" =>
                    /\ cli'[d].answers < cli'[d].asked
                    /\ Cardinality(Spawned(d)') < cli'[d].asked
    <2>1. CASE d = c
      BY <1>1, <2>1 DEF Accounts
    <2>2. CASE d # c
      BY <1>1, <2>2 DEF Accounts
    <2> QED
      BY <2>1, <2>2
  <1> QED
    BY <1>3, <1>4 DEF Accounts

LEMMA AnswerStep ==
    ASSUME ZInv, NEW p \in Procs, NEW me \in Process, Sound(p, me),
           me.st \in {"dispatch", "pipe"}, me.index > 0, me.by = proc[p].by,
           me.req = proc[p].req, me.uid = proc[p].uid, me.fds = proc[p].fds,
           NEW c \in Clients, cli[c].sent # "no" \/ Waits(p, c),
           NEW pid \in Procs \union {NoOne},
           pid # NoOne => pid \in Kids /\ proc[pid].by = c /\ proc[pid].req = cli[c].req,
           NEW a, a = Answer(me, c, pid), proc' = [proc EXCEPT ![p] = a[1]],
           cli' = [cli EXCEPT ![c] = a[2]], cred' = cred, backlog' = backlog
    PROVE  ZInv' /\ AnswersItsOwn
  <1>1. /\ TypeOK /\ ProcsSound /\ BacklogSound /\ Accounts /\ SpawnsWithinPolicy
        /\ cli \in [Clients -> Client]
    BY Parts
  <1>2. cli[c].answers < cli[c].asked /\ cli[c] \in Client
    BY <1>1 DEF Accounts
  <1>3. /\ a[1] \in Process /\ Sound(p, a[1]) /\ a[1].st = "select"
        /\ a[1].by = me.by /\ a[1].req = me.req /\ a[1].uid = me.uid
        /\ Range(a[1].fds) \subseteq Range(me.fds)
        /\ a[2] \in Client /\ a[2].st = cli[c].st /\ a[2].sent = "no"
        /\ a[2].req = cli[c].req /\ a[2].asked = cli[c].asked
        /\ a[2].answers <= a[2].asked
        /\ a[2].answers # cli[c].answers => a[2].pid = pid
    BY ONLY <1>2, me \in Process, Sound(p, me), me.st \in {"dispatch", "pipe"},
       me.index > 0, c \in Clients, pid \in Procs \union {NoOne},
       a = Answer(me, c, pid), AnswerEffect, SMTT(30)
  <1> DEFINE n == a[1]
             d == a[2]
  <1>4. /\ proc' \in [Procs -> Process] /\ ProcsSound' /\ proc'[p] = n
        /\ \A q \in Procs \ {p} : proc'[q] = proc[q]
    BY <1>1, <1>3, OneProcess, Zenon
  <1>5. /\ cli' \in [Clients -> Client] /\ cli'[c] = d
        /\ \A x \in Clients \ {c} : cli'[x] = cli[x]
    BY <1>1, <1>3
  <1> HIDE DEF n, d
  <1>6. TypeOK'
    BY <1>1, <1>4, <1>5 DEF TypeOK
  <1>7. OriginsKept
    <2>1. Kids \subseteq Procs
      BY DEF Procs
    <2> QED
      BY <1>3, <1>4, <2>1 DEF OriginsKept, n
  <1>8. BacklogSound'
    <2>1. Z \in Procs
      BY DEF Procs
    <2>2. /\ Range(proc'[Z].fds) \subseteq Range(proc[Z].fds)
          /\ proc'[Z].st = "dispatch" => proc'[Z] = proc[Z]
      BY <1>3, <1>4, <2>1 DEF n
    <2>3. \A x \in Clients : cli[x].st # "idle" => cli'[x].st # "idle"
      BY <1>3, <1>5 DEF d
    <2> QED
      BY <1>1, <2>2, <2>3, BacklogQuiet, ZenonT(30) DEF BacklogSound
  <1>9. Accounts'
    BY <1>1, <1>3, <1>4, <1>5, <1>7, AccountsAnswer DEF n, d
  <1>10. SpawnsWithinPolicy'
    BY <1>1, <1>7, PolicyQuiet
  <1>11. AnswersItsOwn
    <2>1. ASSUME NEW x \in Clients, cli'[x].answers # cli[x].answers, cli'[x].pid # NoOne
          PROVE  proc'[cli'[x].pid].by = x /\ proc'[cli'[x].pid].req = cli[x].req
      <3>1. x = c
        BY <1>5, <2>1
      <3>2. cli'[x].pid = pid
        BY <1>3, <1>5, <2>1, <3>1 DEF d
      <3> QED
        BY <1>7, <2>1, <3>1, <3>2 DEF OriginsKept
    <2> QED
      BY <2>1 DEF AnswersItsOwn
  <1> QED
    BY <1>4, <1>6, <1>8, <1>9, <1>10, <1>11 DEF ZInv, ProcsSound

LEMMA RefuseKeeps ==
    ASSUME ZInv, NEW p \in Procs, Refuse(p)
    PROVE  ZInv' /\ AnswersItsOwn
  <1> DEFINE me == proc[p]
             c == me.peers[me.index]
             a == Answer(proc[p], c, NoOne)
  <1>1. /\ me.st = "dispatch" /\ me.index > 0 /\ cli[c].sent = "whole"
        /\ proc' = [proc EXCEPT ![p] = a[1]] /\ cli' = [cli EXCEPT ![c] = a[2]]
        /\ cred' = cred /\ backlog' = backlog
    BY ZenonT(30) DEF Refuse, Answered
  <1>2. me \in Process /\ Sound(p, me) /\ c \in Clients
    BY <1>1, Parts, Selected
  <1>3. a = Answer(me, c, NoOne)
    OBVIOUS
  <1> HIDE DEF a, c
  <1> QED
    BY <1>1, <1>2, <1>3, AnswerStep, ZenonT(30)

LEMMA ParentKeeps ==
    ASSUME ZInv, NEW p \in Procs, handleParentProc(p)
    PROVE  ZInv' /\ AnswersItsOwn
  <1> DEFINE me == proc[p]
             c == me.peers[me.index]
             n == [me EXCEPT !.kid = NoOne]
             a == Answer(n, c, me.kid)
             procs == [proc EXCEPT ![p].kid = NoOne]
  <1>1. /\ me.st = "pipe" /\ cred' = cred /\ backlog' = backlog
        /\ Answered(p, c, me.kid, procs)
    BY DEF handleParentProc, InnerPid
  <1>2. /\ proc \in [Procs -> Process] /\ me \in Process /\ Sound(p, me) /\ Accounts
        /\ me.index > 0
    BY <1>1, Parts DEF Sound
  <1>3. c \in Clients
    BY <1>1, <1>2, Selected
  <1>4. Waits(p, c)
    BY <1>1 DEF Waits
  <1>5. me.kid \in Kids /\ proc[me.kid].by = c /\ proc[me.kid].req = cli[c].req
    BY <1>2, <1>3, <1>4, SMTT(30) DEF Accounts
  <1>6. /\ n \in Process /\ n.st = me.st /\ n.index = me.index /\ n.by = me.by
        /\ n.req = me.req /\ n.uid = me.uid /\ n.fds = me.fds /\ n.peers = me.peers
        /\ n.fdArray = me.fdArray /\ n.open = me.open /\ n.server = me.server
        /\ n.loopCount = me.loopCount
    BY ONLY <1>2, Zenon DEF Process
  <1>7. procs[p] = n /\ procs = [proc EXCEPT ![p] = n]
    BY <1>2
  <1>8. proc' = [procs EXCEPT ![p] = a[1]] /\ cli' = [cli EXCEPT ![c] = a[2]]
    BY <1>1, <1>7, Zenon DEF Answered
  <1> HIDE DEF a
  <1>9. proc' = [proc EXCEPT ![p] = a[1]]
    BY <1>7, <1>8, Zenon
  <1> HIDE DEF procs, n, c
  <1>10. Sound(p, n)
    <2>1. Tables(me) /\ p # SystemServer /\ (p # Z => ~me.server)
      BY <1>1, <1>2 DEF Sound, Working
    <2>2. Tables(n)
      BY <1>1, <1>6, <2>1, SameTables
    <2> QED
      BY <1>1, <1>2, <1>6, <2>1, <2>2 DEF Sound
  <1>11. me.kid \in Procs
    BY <1>5 DEF Procs
  <1>12. a = Answer(n, c, me.kid)
    BY DEF a
  <1>13. n.st \in {"dispatch", "pipe"} /\ n.index > 0 /\ me.kid \in Procs \union {NoOne}
    BY <1>1, <1>2, <1>6, <1>11
  <1>14. me.kid # NoOne =>
           me.kid \in Kids /\ proc[me.kid].by = c /\ proc[me.kid].req = cli[c].req
    BY <1>5
  <1> HIDE DEF me
  <1>15. cli' = [cli EXCEPT ![c] = a[2]]
    BY <1>8
  <1> QED
    BY ONLY <1>1, <1>3, <1>4, <1>6, <1>9, <1>10, <1>12, <1>13, <1>14, <1>15,
            ZInv, p \in Procs, AnswerStep, ZenonT(30) DEF me

(* The policies, as conditions on what is asked.                           *)
WithinPolicy(peer, r, u) ==
    /\ peer.uid = "app" => u = "app" /\ ~r.rlimits /\ ~r.seInfo
    /\ peer.uid = "system" => Factory \/ u # "low"
    /\ u # peer.uid => peer.selinux
    /\ peer.uid # "root" => ~r.invoke

LEMMA PoliciesHold ==
    ASSUME NEW r, NEW peer \in Peer, Allowed(r, peer)
    PROVE  /\ UidOf(r, peer) \in {"root", "system", "app", "low", "high"}
           /\ WithinPolicy(peer, r, UidOf(r, peer))
  BY DEF Peer, Allowed, applyUidSecurityPolicy, applyRlimitSecurityPolicy,
         applyInvokeWithSecurityPolicy, applyseInfoSecurityPolicy, Ids, UidOf, WithinPolicy

(* The account of the client for which the child k was forked.             *)
ForkedFor(p, k, c) ==
    /\ p # k /\ proc[k].st = "none" /\ cli[c].sent # "no"
    /\ proc'[k].st = "start" /\ proc'[k].by = c /\ proc'[k].req = cli[c].req
    /\ proc'[p].by = proc[p].by /\ proc'[p].req = proc[p].req
    /\ proc'[p].st \in {"select", "pipe"}
    /\ proc'[p].st = "pipe" => /\ proc'[p].kid = k
                               /\ proc'[p].peers[proc'[p].index] = c
                               /\ cli'[c].answers = cli[c].answers
    /\ \A q \in Procs \ {p, k} : proc'[q] = proc[q]
    /\ \A d \in Clients \ {c} : cli'[d] = cli[d]
    /\ cli'[c].sent = "no" /\ cli'[c].req = cli[c].req /\ cli'[c].asked = cli[c].asked
    /\ cli'[c].answers <= cli'[c].asked

LEMMA AccountsFork ==
    ASSUME Accounts, TypeOK, NEW p \in Procs, NEW k \in Kids, NEW c \in Clients,
           ForkedFor(p, k, c)
    PROVE  Accounts'
  <1> USE DEF ForkedFor
  <1>0. Kids \subseteq Procs /\ \A d \in Clients : cli[d] \in Client /\ cli[d].asked \in Nat
    BY DEF Procs, TypeOK, Client
  <1>1. ASSUME NEW d \in Clients
        PROVE  IsFiniteSet(Spawned(d)) /\ Cardinality(Spawned(d)) \in Nat
    <2>1. Spawned(d) \in SUBSET Kids
      BY DEF Spawned
    <2> QED
      BY <2>1, FS_Subset, FS_CardinalityType, FiniteAndApart
  <1>2. Cardinality(Spawned(c)') <= Cardinality(Spawned(c)) + 1
    <2>1. Spawned(c)' = Spawned(c) \union {k}
      BY <1>0 DEF Spawned
    <2>2. IsFiniteSet(Spawned(c)) /\ Cardinality(Spawned(c)) \in Nat
      BY <1>1
    <2>3. Cardinality(Spawned(c) \union {k})
            = IF k \in Spawned(c) THEN Cardinality(Spawned(c)) ELSE Cardinality(Spawned(c)) + 1
      BY ONLY <2>2, FS_AddElement, ZenonT(30)
    <2> QED
      BY ONLY <2>1, <2>2, <2>3
  <1>3. ASSUME NEW d \in Clients, d # c
        PROVE  Cardinality(Spawned(d)') <= Cardinality(Spawned(d))
    <2>1. Spawned(d)' \in SUBSET Spawned(d)
      BY <1>0, <1>3 DEF Spawned
    <2> QED
      BY <1>1, <2>1, FS_Subset
  <1>4. ASSUME NEW d \in Clients, NEW q \in Procs, Waits(q, d)'
        PROVE  \/ q = p /\ d = c
               \/ Waits(q, d) /\ d # c /\ q # p /\ proc'[q] = proc[q]
    <2>1. q # k
      BY <1>4 DEF Waits
    <2>2. CASE q = p
      BY <1>4, <2>2 DEF Waits
    <2>3. CASE q # p
      <3>1. proc'[q] = proc[q] /\ Waits(q, d)
        BY <1>4, <2>1, <2>3 DEF Waits
      <3>2. cli[d].sent = "no"
        BY <3>1 DEF Accounts
      <3> QED
        BY <2>3, <3>1, <3>2
    <2> QED
      BY <2>2, <2>3
  <1>5. ASSUME NEW d \in Clients, NEW q \in Procs, Waits(q, d)'
        PROVE  /\ cli'[d].sent = "no" /\ cli'[d].answers < cli'[d].asked
               /\ proc'[q].kid \in Kids /\ proc'[proc'[q].kid].st # "none"
               /\ proc'[proc'[q].kid].by = d /\ proc'[proc'[q].kid].req = cli'[d].req
               /\ \A x \in Procs : Waits(x, d)' => x = q
    <2>1. CASE q = p /\ d = c
      <3>1. cli[c].answers < cli[c].asked
        BY DEF Accounts
      <3>2. \A x \in Procs : Waits(x, c)' => x = p
        BY <1>4
      <3>3. proc'[p].kid = k /\ cli'[c].answers = cli[c].answers
        BY <1>5, <2>1 DEF Waits
      <3> QED
        BY <2>1, <3>1, <3>2, <3>3
    <2>2. CASE Waits(q, d) /\ d # c /\ q # p /\ proc'[q] = proc[q]
      <3>1. /\ cli[d].sent = "no" /\ cli[d].answers < cli[d].asked
            /\ proc[q].kid \in Kids /\ proc[proc[q].kid].st # "none"
            /\ proc[proc[q].kid].by = d /\ proc[proc[q].kid].req = cli[d].req
            /\ \A x \in Procs : Waits(x, d) => x = q
        BY <2>2, Zenon DEF Accounts
      <3>2. /\ proc[q].kid # k /\ proc'[proc[q].kid].st # "none"
            /\ proc'[proc[q].kid].by = d /\ proc'[proc[q].kid].req = cli[d].req
        BY <1>0, <3>1, SMTT(30)
      <3>3. \A x \in Procs : Waits(x, d)' => x = q
        BY <1>4, <2>2, <3>1
      <3> QED
        BY <2>2, <3>1, <3>2, <3>3, SMTT(30)
    <2> QED
      BY <1>4, <1>5, <2>1, <2>2
  <1>6. ASSUME NEW d \in Clients
        PROVE  /\ cli'[d].answers <= cli'[d].asked
               /\ Cardinality(Spawned(d)') <= cli'[d].asked
               /\ cli'[d].sent # "no" =>
                    /\ cli'[d].answers < cli'[d].asked
                    /\ Cardinality(Spawned(d)') < cli'[d].asked
    <2>1. CASE d = c
      <3>1. Cardinality(Spawned(c)) < cli[c].asked
        BY DEF Accounts
      <3>2. Cardinality(Spawned(c)') \in Nat
        <4>1. Spawned(c)' \in SUBSET Kids
          BY DEF Spawned
        <4> QED
          BY <4>1, FS_Subset, FS_CardinalityType, FiniteAndApart
      <3>3. Cardinality(Spawned(c)') <= cli[c].asked
        BY <1>0, <1>1, <1>2, <3>1, <3>2
      <3> QED
        BY <2>1, <3>3
    <2>2. CASE d # c
      <3>1. Cardinality(Spawned(d)') \in Nat
        <4>1. Spawned(d)' \in SUBSET Kids
          BY DEF Spawned
        <4> QED
          BY <4>1, FS_Subset, FS_CardinalityType, FiniteAndApart
      <3>2. Cardinality(Spawned(d)') <= Cardinality(Spawned(d)) /\ cli'[d] = cli[d]
        BY <1>3, <2>2
      <3>3. /\ cli[d].answers <= cli[d].asked
            /\ Cardinality(Spawned(d)) <= cli[d].asked
            /\ cli[d].sent # "no" =>
                 /\ cli[d].answers < cli[d].asked
                 /\ Cardinality(Spawned(d)) < cli[d].asked
        BY DEF Accounts
      <3> QED
        BY <1>0, <1>1, <3>1, <3>2, <3>3
    <2> QED
      BY <2>1, <2>2
  <1> QED
    BY <1>5, <1>6, Zenon DEF Accounts

(* The child and its parent after the fork, and the client.                *)
ForkEffect(p, k, c, child, n, d) ==
    /\ p # k /\ proc[k].st = "none" /\ cli[c].sent # "no"
    /\ child \in Process /\ Sound(k, child) /\ child.st = "start" /\ child.by = c
    /\ child.req = cli[c].req /\ WithinPolicy(cred[c], cli[c].req, child.uid)
    /\ n \in Process /\ Sound(p, n) /\ n.st \in {"select", "pipe"}
    /\ n.by = proc[p].by /\ n.req = proc[p].req /\ n.uid = proc[p].uid
    /\ Range(n.fds) \subseteq Range(proc[p].fds)
    /\ d \in Client /\ d.st = cli[c].st /\ d.sent = "no" /\ d.req = cli[c].req
    /\ d.asked = cli[c].asked /\ d.answers <= d.asked
    /\ d.answers # cli[c].answers => d.pid = k
    /\ n.st = "pipe" => n.kid = k /\ n.peers[n.index] = c /\ d.answers = cli[c].answers
    /\ proc' = [[proc EXCEPT ![k] = child] EXCEPT ![p] = n]
    /\ cli' = [cli EXCEPT ![c] = d]

LEMMA ForkStep ==
    ASSUME ZInv, NEW p \in Procs, NEW k \in Kids, NEW c \in Clients, NEW child, NEW n, NEW d,
           ForkEffect(p, k, c, child, n, d), cred' = cred, backlog' = backlog
    PROVE  ZInv' /\ AnswersItsOwn
  <1> USE DEF ForkEffect
  <1>1. /\ TypeOK /\ ProcsSound /\ BacklogSound /\ Accounts /\ SpawnsWithinPolicy
        /\ cli \in [Clients -> Client] /\ proc \in [Procs -> Process]
    BY Parts
  <1>2. Kids \subseteq Procs /\ Z \in Procs /\ k # Z
    BY FiniteAndApart DEF Procs
  <1>3. /\ proc' \in [Procs -> Process] /\ proc'[k] = child /\ proc'[p] = n
        /\ \A q \in Procs \ {p, k} : proc'[q] = proc[q]
    BY <1>1, <1>2
  <1>4. /\ cli' \in [Clients -> Client] /\ cli'[c] = d
        /\ \A x \in Clients \ {c} : cli'[x] = cli[x]
    BY <1>1
  <1>5. TypeOK'
    BY <1>1, <1>3, <1>4, ZenonT(30) DEF TypeOK
  <1>6. ProcsSound'
    <2>1. ASSUME NEW q \in Procs PROVE Sound(q, proc'[q])
      <3>1. CASE q = p
        BY <1>3, <3>1
      <3>2. CASE q = k
        BY <1>3, <3>2
      <3>3. CASE q \notin {p, k}
        BY <1>1, <1>3, <3>3 DEF ProcsSound
      <3> QED
        BY <3>1, <3>2, <3>3
    <2> QED
      BY <2>1, Zenon DEF ProcsSound
  <1>7. BacklogSound'
    <2>1. /\ Range(proc'[Z].fds) \subseteq Range(proc[Z].fds)
          /\ proc'[Z].st = "dispatch" => proc'[Z] = proc[Z]
      BY <1>2, <1>3
    <2>2. \A x \in Clients : cli[x].st # "idle" => cli'[x].st # "idle"
      BY <1>4
    <2> QED
      BY <1>1, <2>1, <2>2, BacklogQuiet, ZenonT(30) DEF BacklogSound
  <1>8. Accounts'
    <2>1. ForkedFor(p, k, c)
      BY <1>3, <1>4, ZenonT(30) DEF ForkedFor
    <2> QED
      BY <1>1, <2>1, AccountsFork
  <1>9. SpawnsWithinPolicy'
    <2>1. ASSUME NEW x \in Kids, proc'[x].by # NoOne
          PROVE  WithinPolicy(cred[proc'[x].by], proc'[x].req, proc'[x].uid)
      <3>1. CASE x = k
        BY <1>3, <3>1, SMTT(30)
      <3>2. CASE x # k
        <4>1. /\ proc'[x].by = proc[x].by /\ proc'[x].req = proc[x].req
              /\ proc'[x].uid = proc[x].uid
          BY <1>2, <1>3, <3>2, Zenon
        <4>2. proc[x].by # NoOne => WithinPolicy(cred[proc[x].by], proc[x].req, proc[x].uid)
          <5>1. SpawnsWithinPolicy
            BY ONLY <1>1
          <5> QED
            BY ONLY <5>1, x \in Kids, Zenon DEF SpawnsWithinPolicy, WithinPolicy
        <4> QED
          BY ONLY <2>1, <4>1, <4>2
      <3> QED
        BY <3>1, <3>2
    <2> QED
      BY <2>1, ZenonT(40) DEF SpawnsWithinPolicy, WithinPolicy
  <1>10. AnswersItsOwn
    <2>1. ASSUME NEW x \in Clients, cli'[x].answers # cli[x].answers
          PROVE  x = c /\ cli'[x].pid = k
      BY <1>4, <2>1
    <2> QED
      BY <1>3, <2>1, SMTT(30) DEF AnswersItsOwn
  <1> QED
    BY <1>5, <1>6, <1>7, <1>8, <1>9, <1>10, ZenonT(30) DEF ZInv, ProcsSound

LEMMA ForkKeeps ==
    ASSUME ZInv, NEW p \in Procs, forkAndSpecialize(p)
    PROVE  ZInv' /\ AnswersItsOwn
  <1> DEFINE me == proc[p]
             c == me.peers[me.index]
             r == cli[c].req
             u == UidOf(r, cred[c])
             child == Child(me, r, u)
             Forked(k) == [proc EXCEPT ![k] = child]
  <1>1. /\ me.st = "dispatch" /\ me.index > 0 /\ cli[c].sent = "whole"
        /\ r.valid /\ Allowed(r, cred[c]) /\ cred' = cred /\ backlog' = backlog
    BY Zenon DEF forkAndSpecialize
  <1>2. PICK k \in Kids :
          /\ proc[k].st = "none"
          /\ \/ /\ proc' = [Forked(k) EXCEPT ![p].st = "pipe", ![p].kid = k]
                /\ cli' = [cli EXCEPT ![c].sent = "no"]
             \/ Answered(p, c, k, Forked(k))
    BY Zenon DEF forkAndSpecialize, Child
  <1>3. /\ me \in Process /\ Sound(p, me) /\ c \in Clients /\ cli[c] \in Client
        /\ TypeOK /\ Accounts /\ proc \in [Procs -> Process]
    BY <1>1, Parts, Selected, ZenonT(30)
  <1>4. cred[c] \in Peer
    BY <1>3, RequestsAndLimits DEF TypeOK
  <1>5. r \in Requests
    <2>1. r \in Requests \union {NoRequest}
      BY <1>3 DEF Client
    <2>2. ~NoRequest.valid
      BY DEF NoRequest
    <2> QED
      BY <1>1, <2>1, <2>2, ZenonT(30)
  <1>6. u \in {"root", "system", "app", "low", "high"} /\ WithinPolicy(cred[c], r, u)
    BY <1>1, <1>4, PoliciesHold, Zenon
  <1>7. c = me.peers[me.index] /\ p # k /\ cli[c].sent # "no"
    BY <1>1, <1>2, ZenonT(30)
  <1> HIDE DEF c, u
  <1>8. /\ child \in Process /\ Sound(k, child) /\ child.st = "start"
        /\ child.by = c /\ child.req = r /\ child.uid = u
    <2> HIDE DEF me, r, child
    <2>1. child = Child(me, r, u)
      BY DEF child
    <2>2. me \in Process /\ Sound(p, me) /\ me.st = "dispatch" /\ me.index > 0
      BY ONLY <1>1, <1>3
    <2>3. r \in Requests /\ u \in {"root", "system", "app", "low", "high"}
      BY ONLY <1>5, <1>6
    <2>4. /\ child \in Process /\ Sound(k, child) /\ child.st = "start"
          /\ child.by = me.peers[me.index] /\ child.req = r /\ child.uid = u
      BY ONLY <2>1, <2>2, <2>3, k \in Kids, ForkSound
    <2> QED
      BY ONLY <1>7, <2>4
  <1>9. k \in Procs
    BY DEF Procs
  <1>10. Forked(k) = [proc EXCEPT ![k] = child] /\ Forked(k)[p] = me
    BY <1>3, <1>7, <1>9
  <1> HIDE DEF child, Forked
  <1>11. cli[c].answers < cli[c].asked
    BY <1>3, <1>7, ZenonT(30) DEF Accounts
  <1>12. CASE /\ proc' = [Forked(k) EXCEPT ![p].st = "pipe", ![p].kid = k]
              /\ cli' = [cli EXCEPT ![c].sent = "no"]
    <2> DEFINE n == Piped(me, k)
               d == [cli[c] EXCEPT !.sent = "no"]
    <2>1. /\ n \in Process /\ Sound(p, n) /\ n.st = "pipe" /\ n.kid = k
          /\ n.by = me.by /\ n.req = me.req /\ n.uid = me.uid
          /\ n.fds = me.fds /\ n.peers = me.peers /\ n.index = me.index
      <3> HIDE DEF me, n
      <3>1. n = Piped(me, k)
        BY DEF n
      <3>2. me \in Process /\ Sound(p, me) /\ me.st = "dispatch" /\ me.index > 0
        BY ONLY <1>1, <1>3
      <3> QED
        BY ONLY <3>1, <3>2, k \in Kids, PipeSound
    <2>2. /\ d \in Client /\ d.st = cli[c].st /\ d.sent = "no" /\ d.req = cli[c].req
          /\ d.asked = cli[c].asked /\ d.answers = cli[c].answers
      BY <1>3 DEF Client
    <2>3. proc' = [Forked(k) EXCEPT ![p] = n]
      <3>1. Forked(k) \in [Procs -> Process]
        BY <1>3, <1>8, <1>9, <1>10
      <3>2. proc' = [Forked(k) EXCEPT ![p] = [Forked(k)[p] EXCEPT !.st = "pipe", !.kid = k]]
        BY <1>12, <3>1, Zenon
      <3> QED
        BY <1>10, <3>2 DEF Piped
    <2>4. cli' = [cli EXCEPT ![c] = d]
      BY <1>12
    <2> HIDE DEF n, d
    <2>5. d.answers <= d.asked
      BY <1>3, <1>11, <2>2, RequestsAndLimits DEF Client
    <2>6. proc' = [[proc EXCEPT ![k] = child] EXCEPT ![p] = n]
      BY <1>10, <2>3
    <2>7. ForkEffect(p, k, c, child, n, d)
      BY ONLY <1>2, <1>6, <1>7, <1>8, <2>1, <2>2, <2>4, <2>5, <2>6, ZenonT(30) DEF ForkEffect
    <2> QED
      BY ONLY <1>1, <1>3, <2>7, ZInv, p \in Procs, k \in Kids, ForkStep, ZenonT(30)
  <1>13. CASE Answered(p, c, k, Forked(k))
    <2> DEFINE a == Answer(me, c, k)
    <2>1. proc' = [Forked(k) EXCEPT ![p] = a[1]] /\ cli' = [cli EXCEPT ![c] = a[2]]
      BY <1>10, <1>13 DEF Answered
    <2>2. k \in Procs \union {NoOne} /\ a = Answer(me, c, k) /\ me.st \in {"dispatch", "pipe"}
      BY <1>1, <1>9
    <2> HIDE DEF a
    <2>3. /\ a[1] \in Process /\ Sound(p, a[1]) /\ a[1].st = "select"
          /\ a[1].by = me.by /\ a[1].req = me.req /\ a[1].uid = me.uid
          /\ Range(a[1].fds) \subseteq Range(me.fds)
          /\ a[2] \in Client /\ a[2].st = cli[c].st /\ a[2].sent = "no"
          /\ a[2].req = cli[c].req /\ a[2].asked = cli[c].asked
          /\ a[2].answers <= a[2].asked
          /\ a[2].answers # cli[c].answers => a[2].pid = k
      <3> HIDE DEF me
      <3>1. me \in Process /\ Sound(p, me) /\ me.st \in {"dispatch", "pipe"} /\ me.index > 0
        BY ONLY <1>1, <1>3
      <3>2. c \in Clients /\ cli[c] \in Client /\ k \in Procs \union {NoOne}
        BY ONLY <1>3, <2>2
      <3>3. a = Answer(me, c, k)
        BY ONLY <2>2
      <3> QED
        BY ONLY <1>11, <3>1, <3>2, <3>3, AnswerEffect, SMTT(30)
    <2>4. proc' = [[proc EXCEPT ![k] = child] EXCEPT ![p] = a[1]]
      BY <1>10, <2>1
    <2>5. /\ a[1].st \in {"select", "pipe"}
          /\ a[1].st = "pipe" => /\ a[1].kid = k /\ a[1].peers[a[1].index] = c
                                 /\ a[2].answers = cli[c].answers
      BY <2>3
    <2>6. ForkEffect(p, k, c, child, a[1], a[2])
      BY ONLY <1>2, <1>6, <1>7, <1>8, <2>1, <2>3, <2>4, <2>5, ZenonT(30) DEF ForkEffect
    <2> QED
      BY ONLY <1>1, <1>3, <2>6, ZInv, p \in Procs, k \in Kids, ForkStep
  <1> QED
    BY <1>2, <1>12, <1>13

(* A step of some processes that says nothing to a client.                 *)
LEMMA QuietSteps ==
    ASSUME ZInv, proc' \in [Procs -> Process], \A q \in Procs : Sound(q, proc'[q]),
           OriginsKept, NoneWaits, Range(proc'[Z].fds) \subseteq Range(proc[Z].fds),
           proc'[Z].st = "dispatch" => proc'[Z] = proc[Z],
           cred' = cred, backlog' = backlog, cli' = cli
    PROVE  ZInv' /\ AnswersItsOwn
  <1>1. TypeOK /\ BacklogSound /\ Accounts /\ SpawnsWithinPolicy
    BY DEF ZInv
  <1>2. TypeOK'
    BY <1>1 DEF TypeOK
  <1>3. \A c \in Clients : SameRequests(c)
    BY DEF SameRequests
  <1>4. Accounts' /\ SpawnsWithinPolicy' /\ AnswersItsOwn
    BY <1>1, <1>3, AccountsQuiet, PolicyQuiet, NoAnswer
  <1>5. BacklogSound'
    BY <1>1, BacklogQuiet DEF BacklogSound
  <1> QED
    BY <1>2, <1>4, <1>5 DEF ZInv

LEMMA StartKeeps ==
    ASSUME ZInv, startSystemServer
    PROVE  ZInv' /\ AnswersItsOwn
  <1> DEFINE me == proc[Z]
             z == Again(me)
             n == [me EXCEPT !.st = "start", !.uid = "system"]
  <1>1. /\ me.st = "preload" /\ cred' = cred /\ cli' = cli /\ backlog' = backlog
        /\ proc' = [proc EXCEPT ![Z] = z, ![SystemServer] = n]
    BY DEF startSystemServer, Again
  <1>2. Z \in Procs /\ SystemServer \in Procs /\ Kids \subseteq Procs /\ Z # SystemServer
    BY DEF Procs, Z, SystemServer
  <1>3. /\ proc \in [Procs -> Process] /\ me \in Process /\ Sound(Z, me) /\ ProcsSound
    BY <1>2, Parts
  <1>4. /\ z \in Process /\ Sound(Z, z) /\ z.st = "select" /\ z.fds = me.fds
    BY <1>1, <1>3, AgainSound
  <1>5. /\ n \in Process /\ n.st = "start" /\ n.fds = me.fds /\ n.peers = me.peers
        /\ n.open = me.open /\ n.loopCount = me.loopCount /\ n.fdArray = me.fdArray
        /\ n.index = me.index
    BY ONLY <1>3, Zenon DEF Process
  <1>6. Tables(me)
    BY <1>1, <1>3 DEF Sound, Working
  <1> HIDE DEF n, z
  <1>7. Sound(SystemServer, n)
    <2>1. Tables(n)
      BY <1>1, <1>5, <1>6, SameTables
    <2> QED
      BY <1>2, <1>5, <2>1, FiniteAndApart DEF Sound
  <1>8. /\ proc' \in [Procs -> Process] /\ proc'[Z] = z /\ proc'[SystemServer] = n
        /\ \A q \in Procs \ {Z, SystemServer} : proc'[q] = proc[q]
    BY <1>1, <1>2, <1>3, <1>4, <1>5
  <1>9. ASSUME NEW q \in Procs PROVE Sound(q, proc'[q])
    <2>1. CASE q = Z
      BY <1>4, <1>8, <2>1
    <2>2. CASE q = SystemServer
      BY <1>7, <1>8, <2>2
    <2>3. CASE q \notin {Z, SystemServer}
      BY <1>3, <1>8, <2>3 DEF ProcsSound
    <2> QED
      BY <2>1, <2>2, <2>3
  <1>10. OriginsKept
    BY <1>2, <1>8, FiniteAndApart DEF OriginsKept
  <1>11. NoneWaits
    BY <1>2, <1>4, <1>5, <1>8 DEF NoneWaits
  <1>12. Range(proc'[Z].fds) \subseteq Range(proc[Z].fds) /\ proc'[Z].st # "dispatch"
    BY <1>4, <1>8
  <1> QED
    BY <1>1, <1>8, <1>9, <1>10, <1>11, <1>12, QuietSteps, Zenon

LEMMA ServerKeeps ==
    ASSUME ZInv, handleSystemServerProcess
    PROVE  ZInv' /\ AnswersItsOwn
  <1> DEFINE me == proc[SystemServer]
             n == [me EXCEPT !.st = "app", !.server = FALSE]
  <1>1. SystemServer \in Procs /\ SystemServer # Z
    BY DEF Procs, Z, SystemServer
  <1>2. /\ proc \in [Procs -> Process] /\ me \in Process /\ cli \in [Clients -> Client]
    BY <1>1, Parts
  <1>3. /\ cred' = cred /\ cli' = cli /\ backlog' = backlog
        /\ proc' = [proc EXCEPT ![SystemServer] = n]
    BY <1>1, <1>2, Zenon DEF handleSystemServerProcess
  <1>4. /\ n \in Process /\ n.st = "app" /\ n.by = me.by /\ n.req = me.req /\ n.uid = me.uid
    BY ONLY <1>2, Zenon DEF Process
  <1> HIDE DEF n
  <1>5. Sound(SystemServer, n)
    BY <1>4 DEF Sound, Working
  <1>6. \A c \in Clients : SameRequests(c) /\ (cli[c].st # "idle" => cli'[c].st # "idle")
    BY <1>3 DEF SameRequests
  <1> QED
    BY <1>1, <1>2, <1>3, <1>4, <1>5, <1>6, QuietStep, Zenon

LEMMA DieKeeps ==
    ASSUME ZInv, NEW p \in Procs, Die(p)
    PROVE  ZInv' /\ AnswersItsOwn
  <1>1. /\ proc' = [q \in Procs |->
                      IF q = p \/ (p = SystemServer /\ q = Z) THEN Dead(proc[q]) ELSE proc[q]]
        /\ cred' = cred /\ cli' = cli /\ backlog' = backlog
    BY DEF Die
  <1>2. Z \in Procs /\ Kids \subseteq Procs /\ proc \in [Procs -> Process] /\ ProcsSound
    BY Parts, ZenonT(30) DEF Procs
  <1>3. ASSUME NEW q \in Procs
        PROVE  /\ proc'[q] \in Process /\ Sound(q, proc'[q])
               /\ proc'[q].by = proc[q].by /\ proc'[q].req = proc[q].req
               /\ proc'[q].uid = proc[q].uid
               /\ \/ proc'[q] = proc[q]
                  \/ proc'[q].st = "dead" /\ proc'[q].fds = <<>>
    <2>1. proc[q] \in Process /\ Sound(q, proc[q])
      BY <1>2 DEF ProcsSound
    <2>2. /\ Dead(proc[q]) \in Process /\ Sound(q, Dead(proc[q])) /\ Dead(proc[q]).st = "dead"
          /\ Dead(proc[q]).by = proc[q].by /\ Dead(proc[q]).req = proc[q].req
          /\ Dead(proc[q]).uid = proc[q].uid /\ Dead(proc[q]).fds = <<>>
      BY <2>1, DeadSound, ZenonT(30)
    <2>3. proc'[q] = Dead(proc[q]) \/ proc'[q] = proc[q]
      BY <1>1
    <2> QED
      BY ONLY <2>1, <2>2, <2>3
  <1>4. proc' \in [Procs -> Process]
    BY <1>1, <1>3
  <1>5. OriginsKept /\ NoneWaits
    BY <1>2, <1>3 DEF OriginsKept, NoneWaits
  <1>6. Range(proc'[Z].fds) \subseteq Range(proc[Z].fds)
    <2>1. Range(<<>>) = {}
      BY DEF Range
    <2> QED
      BY <1>2, <1>3, <2>1
  <1> QED
    BY <1>1, <1>2, <1>3, <1>4, <1>5, <1>6, QuietSteps

LEMMA AcceptKeeps ==
    ASSUME ZInv, NEW p \in Procs, acceptCommandPeer(p)
    PROVE  ZInv' /\ AnswersItsOwn
  <1> DEFINE me == proc[p]
             c == Head(backlog)
             n == Accepted(me, c)
  <1>1. /\ me.st = "dispatch" /\ me.index = 0 /\ backlog' = Tail(backlog)
        /\ \/ proc' = [proc EXCEPT ![p] = Dead(me)]
           \/ proc' = [proc EXCEPT ![p] = n]
        /\ cred' = cred /\ cli' = cli
    BY DEF acceptCommandPeer, Accepted
  <1>2. /\ TypeOK /\ ProcsSound /\ BacklogSound /\ Accounts /\ SpawnsWithinPolicy
        /\ me \in Process /\ Sound(p, me) /\ backlog \in Seq(Clients)
        /\ proc \in [Procs -> Process]
    BY Parts
  <1>3. p = Z /\ backlog # <<>> /\ IsInjective(backlog)
    BY <1>1, <1>2, Zenon DEF Sound, BacklogSound
  <1>4. /\ Tail(backlog) \in Seq(Clients) /\ IsInjective(Tail(backlog)) /\ c \in Clients
        /\ c \in Range(backlog) /\ Range(Tail(backlog)) = Range(backlog) \ {c}
    BY <1>2, <1>3, TailInjective
  <1>5. c \notin Range(me.fds)
    BY <1>2, <1>3, <1>4 DEF BacklogSound
  <1> HIDE DEF c
  <1>6. /\ n \in Process /\ Sound(p, n) /\ n.st = "select"
        /\ n.by = me.by /\ n.req = me.req /\ n.uid = me.uid
        /\ Range(n.fds) = Range(me.fds) \union {c}
    <2> HIDE DEF me, n
    <2>1. n = Accepted(me, c)
      BY DEF n
    <2>2. me \in Process /\ Sound(p, me) /\ me.st = "dispatch" /\ c \in Clients
      BY ONLY <1>1, <1>2, <1>4
    <2> QED
      BY ONLY <1>5, <2>1, <2>2, AcceptSound
  <1> HIDE DEF n
  <1>7. /\ Dead(me) \in Process /\ Sound(p, Dead(me)) /\ Dead(me).st = "dead"
        /\ Dead(me).by = me.by /\ Dead(me).req = me.req /\ Dead(me).uid = me.uid
        /\ Range(Dead(me).fds) = {}
    BY <1>2, DeadSound DEF Range
  <1>8. PICK m \in {Dead(me), n} : proc' = [proc EXCEPT ![p] = m]
    BY <1>1
  <1>9. /\ m \in Process /\ Sound(p, m) /\ m.st \in {"select", "dead"}
        /\ m.by = me.by /\ m.req = me.req /\ m.uid = me.uid
        /\ Range(m.fds) \subseteq Range(me.fds) \union {c}
    BY <1>6, <1>7
  <1>10. /\ proc' \in [Procs -> Process] /\ ProcsSound' /\ proc'[p] = m
         /\ \A q \in Procs \ {p} : proc'[q] = proc[q]
    BY <1>2, <1>8, <1>9, OneProcess, ZenonT(30)
  <1>11. TypeOK'
    BY <1>1, <1>2, <1>4, <1>10 DEF TypeOK
  <1>12. OriginsKept /\ NoneWaits
    <2>1. Kids \subseteq Procs
      BY DEF Procs
    <2> QED
      BY <1>9, <1>10, <2>1 DEF OriginsKept, NoneWaits
  <1>13. BacklogSound'
    BY <1>1, <1>2, <1>3, <1>4, <1>9, <1>10, ZenonT(30) DEF BacklogSound
  <1>14. \A x \in Clients : SameRequests(x)
    BY <1>1 DEF SameRequests
  <1>15. Accounts' /\ SpawnsWithinPolicy' /\ AnswersItsOwn
    BY <1>1, <1>2, <1>12, <1>14, AccountsQuiet, PolicyQuiet, NoAnswer
  <1> QED
    BY <1>10, <1>11, <1>13, <1>15 DEF ZInv, ProcsSound

(* A client that says nothing new.                                         *)
LEMMA ClientQuiet ==
    ASSUME ZInv, proc' = proc, cred' = cred, cli' \in [Clients -> Client],
           backlog' \in Seq(Clients), BacklogSound', \A c \in Clients : SameRequests(c)
    PROVE  ZInv' /\ AnswersItsOwn
  <1>1. TypeOK /\ Accounts /\ SpawnsWithinPolicy /\ \A p \in Procs : Sound(p, proc[p])
    BY DEF ZInv
  <1>2. OriginsKept /\ NoneWaits
    BY DEF OriginsKept, NoneWaits
  <1>3. TypeOK'
    BY <1>1 DEF TypeOK
  <1>4. Accounts' /\ SpawnsWithinPolicy' /\ AnswersItsOwn
    BY <1>1, <1>2, AccountsQuiet, PolicyQuiet, NoAnswer
  <1>5. \A p \in Procs : Sound(p, proc'[p])
    BY <1>1
  <1> QED
    BY <1>3, <1>4, <1>5 DEF ZInv

LEMMA ConnectKeeps ==
    ASSUME ZInv, NEW c \in Clients, Connect(c)
    PROVE  ZInv' /\ AnswersItsOwn
  <1>1. /\ cli[c].st = "idle" /\ cli' = [cli EXCEPT ![c].st = "connected"]
        /\ backlog' = Append(backlog, c) /\ proc' = proc /\ cred' = cred
    BY DEF Connect
  <1>2. /\ TypeOK /\ BacklogSound /\ cli \in [Clients -> Client] /\ backlog \in Seq(Clients)
    BY DEF ZInv, TypeOK
  <1>3. /\ cli' \in [Clients -> Client] /\ cli'[c].st = "connected"
        /\ \A d \in Clients \ {c} : cli'[d] = cli[d]
        /\ \A d \in Clients : SameRequests(d)
    BY <1>1, <1>2, ZenonT(30) DEF Client, SameRequests
  <1>4. c \notin Range(backlog) /\ c \notin Range(proc[Z].fds)
    BY <1>1, <1>2 DEF BacklogSound
  <1>5. /\ backlog' \in Seq(Clients) /\ IsInjective(backlog')
        /\ Range(backlog') = Range(backlog) \union {c}
    BY <1>1, <1>2, <1>4, AppendProperties, AppendInjectiveSeq DEF BacklogSound
  <1>6. backlog' # <<>>
    BY <1>1, <1>2, AppendProperties, EmptySeq
  <1>7. Range(backlog) \subseteq Clients /\ Range(proc[Z].fds) \subseteq Clients
    <2>1. proc[Z].fds \in Seq(Clients)
      BY <1>2 DEF TypeOK, Process, Procs
    <2> QED
      BY <1>2, <2>1, LenProperties, ElementOfSeq DEF Range
  <1>8. BacklogSound'
    BY <1>1, <1>2, <1>3, <1>4, <1>5, <1>6, <1>7 DEF BacklogSound
  <1> QED
    BY <1>1, <1>3, <1>5, <1>8, ClientQuiet

LEMMA RestKeeps ==
    ASSUME ZInv, NEW c \in Clients, SendRest(c) \/ Leave(c)
    PROVE  ZInv' /\ AnswersItsOwn
  <1>1. /\ proc' = proc /\ cred' = cred /\ backlog' = backlog /\ cli[c].st = "connected"
        /\ \/ cli[c].sent = "partly" /\ cli' = [cli EXCEPT ![c].sent = "whole"]
           \/ cli' = [cli EXCEPT ![c].st = "gone"]
    BY DEF SendRest, Leave
  <1>2. /\ TypeOK /\ BacklogSound /\ cli \in [Clients -> Client] /\ backlog \in Seq(Clients)
    BY DEF ZInv, TypeOK
  <1>3. /\ cli' \in [Clients -> Client]
        /\ \A d \in Clients : SameRequests(d) /\ (cli[d].st # "idle" => cli'[d].st # "idle")
    <2> DEFINE x == cli[c]
    <2>1. x \in Client
      BY <1>2
    <2>2. PICK y \in {[x EXCEPT !.sent = "whole"], [x EXCEPT !.st = "gone"]} :
            cli' = [cli EXCEPT ![c] = y] /\ (y.sent # "no" => x.sent # "no")
      <3>1. CASE x.sent = "partly" /\ cli' = [cli EXCEPT ![c].sent = "whole"]
        BY <3>1
      <3>2. CASE cli' = [cli EXCEPT ![c].st = "gone"]
        BY <2>1, <3>2 DEF Client
      <3> QED
        BY <1>1, <3>1, <3>2
    <2>3. /\ y \in Client /\ y.asked = x.asked /\ y.answers = x.answers /\ y.req = x.req
          /\ x.st = "connected" /\ y.st # "idle"
      BY <1>1, <2>1, <2>2 DEF Client
    <2>4. /\ cli' \in [Clients -> Client] /\ cli'[c] = y
          /\ \A d \in Clients \ {c} : cli'[d] = cli[d]
      BY <1>2, <2>2, <2>3
    <2> QED
      BY <2>2, <2>3, <2>4 DEF SameRequests
  <1>4. BacklogSound'
    BY <1>1, <1>2, <1>3, BacklogQuiet DEF BacklogSound
  <1> QED
    BY <1>1, <1>2, <1>3, <1>4, ClientQuiet

LEMMA SendKeeps ==
    ASSUME ZInv, NEW c \in Clients, Send(c)
    PROVE  ZInv' /\ AnswersItsOwn
  <1> DEFINE x == cli[c]
             more == x.asked + 1
  <1>1. /\ x.st = "connected" /\ x.answers = x.asked /\ x.asked < cred[c].n
        /\ proc' = proc /\ cred' = cred /\ backlog' = backlog
    BY DEF Send
  <1>2. PICK r \in cred[c].asks, t \in {"partly", "whole"} :
          cli' = [cli EXCEPT ![c].sent = t, ![c].req = r, ![c].asked = more]
    BY Zenon DEF Send
  <1>3. /\ TypeOK /\ BacklogSound /\ Accounts /\ SpawnsWithinPolicy
        /\ cli \in [Clients -> Client] /\ x \in Client /\ \A p \in Procs : Sound(p, proc[p])
    BY DEF ZInv, TypeOK
  <1>4. cred[c] \in Peer /\ cred \in Peers
    BY <1>3, RequestsAndLimits DEF TypeOK
  <1>5. r \in Requests
    BY <1>4 DEF Requests
  <1>6. more \in 0..MaxRequests /\ x.asked \in Nat /\ x.answers \in Nat
    BY <1>1, <1>3, <1>4, RequestsAndLimits DEF Peer, Client
  <1>7. more = x.asked + 1
    OBVIOUS
  <1> HIDE DEF more
  <1> DEFINE y == [x EXCEPT !.sent = t, !.req = r, !.asked = more]
  <1>8. cli' = [cli EXCEPT ![c] = y]
    BY <1>2, <1>3, Zenon
  <1>9. /\ y \in Client /\ y.st = x.st /\ y.asked = more /\ y.answers = x.answers
    BY <1>3, <1>5, <1>6, Zenon DEF Client
  <1> HIDE DEF y
  <1>10. /\ cli' \in [Clients -> Client] /\ cli'[c] = y
         /\ \A d \in Clients \ {c} : cli'[d] = cli[d]
    BY <1>3, <1>8, <1>9
  <1>11. TypeOK'
    BY <1>1, <1>3, <1>10 DEF TypeOK
  <1>12. BacklogSound'
    <2>1. \A d \in Clients : cli[d].st # "idle" => cli'[d].st # "idle"
      BY <1>9, <1>10
    <2> QED
      BY <1>1, <1>3, <2>1, BacklogQuiet, ZenonT(30) DEF BacklogSound
  <1>13. Accounts'
    <2>1. ASSUME NEW q \in Procs PROVE ~Waits(q, c)
      <3>1. Waits(q, c) => x.answers < x.asked
        BY <1>3, Zenon DEF Accounts
      <3> QED
        BY ONLY <1>1, <1>6, <3>1
    <2>2. ASSUME NEW d \in Clients, NEW q \in Procs
          PROVE  (Waits(q, d)' <=> Waits(q, d)) /\ Spawned(d)' = Spawned(d)
      BY <1>1, Zenon DEF Waits, Spawned
    <2>3. ASSUME NEW d \in Clients PROVE Spawned(d)' = Spawned(d)
      BY <1>1 DEF Spawned
    <2>4. Cardinality(Spawned(c)) \in Nat
      <3>1. Spawned(c) \in SUBSET Kids
        BY DEF Spawned
      <3> QED
        BY <3>1, FS_Subset, FS_CardinalityType, FiniteAndApart, Zenon
    <2>5. /\ cli'[c].answers < cli'[c].asked
          /\ Cardinality(Spawned(c)') < cli'[c].asked
      <3>1. Cardinality(Spawned(c)) <= x.asked
        BY <1>3, ZenonT(30) DEF Accounts
      <3>2. cli'[c].answers = x.asked /\ cli'[c].asked = x.asked + 1
        BY <1>1, <1>7, <1>9, <1>10
      <3> QED
        BY ONLY <1>6, <2>3, <2>4, <3>1, <3>2, c \in Clients, SMTT(30)
    <2>6. /\ cli'[c].answers <= cli'[c].asked
          /\ Cardinality(Spawned(c)') <= cli'[c].asked
      BY <1>6, <1>7, <1>9, <1>10, <2>3, <2>4, <2>5
    <2>7. ASSUME NEW d \in Clients, d # c
          PROVE  /\ cli'[d].answers <= cli'[d].asked
                 /\ Cardinality(Spawned(d)') <= cli'[d].asked
                 /\ cli'[d].sent # "no" =>
                      /\ cli'[d].answers < cli'[d].asked
                      /\ Cardinality(Spawned(d)') < cli'[d].asked
      BY <1>3, <1>10, <2>3, <2>7, ZenonT(30) DEF Accounts
    <2>8. ASSUME NEW d \in Clients, NEW q \in Procs, Waits(q, d)'
          PROVE  /\ cli'[d].sent = "no" /\ cli'[d].answers < cli'[d].asked
                 /\ proc'[q].kid \in Kids /\ proc'[proc'[q].kid].st # "none"
                 /\ proc'[proc'[q].kid].by = d /\ proc'[proc'[q].kid].req = cli'[d].req
                 /\ \A z \in Procs : Waits(z, d)' => z = q
      <3>1. Waits(q, d) /\ d # c /\ cli'[d] = cli[d]
        BY <1>10, <2>1, <2>2, <2>8
      <3>2. \A z \in Procs : Waits(z, d)' => z = q
        BY <1>3, <2>2, <3>1, Zenon DEF Accounts
      <3> QED
        BY <1>1, <1>3, <3>1, <3>2, ZenonT(30) DEF Accounts
    <2> QED
      BY <2>5, <2>6, <2>7, <2>8 DEF Accounts
  <1>14. SpawnsWithinPolicy' /\ AnswersItsOwn
    BY <1>1, <1>3, <1>9, <1>10, Zenon DEF SpawnsWithinPolicy, AnswersItsOwn
  <1>15. \A p \in Procs : Sound(p, proc'[p])
    BY <1>1, <1>3
  <1> QED
    BY <1>11, <1>12, <1>13, <1>14, <1>15 DEF ZInv

-----------------------------------------------------------------------------
(* The invariant, and what it says.                                        *)

LEMMA ZInit ==
    ASSUME Init
    PROVE  ZInv
  <1> DEFINE z == [Absent EXCEPT !.st = "preload", !.server = TRUE]
  <1>1. Absent \in Process
    <2>1. <<NoOne, NoOne, NoOne>> \in Seq(Clients \union {NoOne}) /\ <<>> \in Seq(Clients)
      BY EmptySeq
    <2>2. 0 \in 0..Cardinality(Clients) /\ GcLoopCount \in 0..GcLoopCount
      BY OpenFinite, RequestsAndLimits
    <2> QED
      BY <2>1, <2>2, Zenon DEF Absent, Process
  <1>2. /\ Absent.st = "none" /\ Absent.fds = <<>> /\ Absent.peers = <<>> /\ Absent.open = {}
        /\ Absent.fdArray = <<NoOne, NoOne, NoOne>> /\ Absent.index = 0
        /\ Absent.loopCount = GcLoopCount /\ Absent.by = NoOne
    BY DEF Absent
  <1> HIDE DEF Absent
  <1>3. /\ z \in Process /\ z.st = "preload" /\ z.fds = <<>> /\ z.peers = <<>>
        /\ z.open = {} /\ z.fdArray = <<NoOne, NoOne, NoOne>> /\ z.index = 0
        /\ z.loopCount = GcLoopCount /\ z.by = NoOne
    BY <1>1, <1>2, ZenonT(30) DEF Process
  <1> HIDE DEF z
  <1>4. ASSUME NEW p \in Procs PROVE proc[p] = IF p = Z THEN z ELSE Absent
    BY DEF Init, z
  <1>5. proc \in [Procs -> Process]
    BY <1>1, <1>3, <1>4 DEF Init, z
  <1>6. Kids \subseteq Procs /\ Z \in Procs /\ Z \notin Kids
    BY FiniteAndApart DEF Procs
  <1>7. ASSUME NEW p \in Procs PROVE Sound(p, proc[p])
    <2>1. CASE p = Z
      <3>1. Tables(z)
        BY <1>3, EmptyTables
      <3> QED
        BY <1>3, <1>4, <2>1, <3>1 DEF Sound
    <2>2. CASE p # Z
      BY <1>2, <1>4, <2>2 DEF Sound, Working
    <2> QED
      BY <2>1, <2>2
  <1>8. ASSUME NEW c \in Clients
        PROVE  /\ cli[c] \in Client /\ cli[c].st = "idle" /\ cli[c].sent = "no"
               /\ cli[c].asked = 0 /\ cli[c].answers = 0
    BY RequestsAndLimits DEF Init, Client
  <1>9. TypeOK
    <2>1. cli \in [Clients -> Client]
      BY <1>8 DEF Init
    <2> QED
      BY <1>5, <2>1, EmptySeq DEF Init, TypeOK
  <1>10. BacklogSound
    <2>1. Range(<<>>) = {} /\ IsInjective(<<>>)
      BY DEF Range, IsInjective
    <2>2. backlog = <<>> /\ proc[Z].fds = <<>> /\ proc[Z].st = "preload"
      BY <1>3, <1>4, <1>6, ZenonT(30) DEF Init
    <2> QED
      BY <2>1, <2>2 DEF BacklogSound
  <1>11. \A k \in Kids : proc[k].by = NoOne
    BY <1>2, <1>4, <1>6
  <1>12. Accounts
    <2>1. ASSUME NEW c \in Clients PROVE Cardinality(Spawned(c)) = 0
      <3>1. Spawned(c) = {}
        BY <1>11, FiniteAndApart DEF Spawned
      <3> QED
        BY <3>1, FS_EmptySet
    <2>2. ASSUME NEW c \in Clients, NEW p \in Procs PROVE ~Waits(p, c)
      BY <1>2, <1>3, <1>4 DEF Waits
    <2> QED
      BY <1>8, <2>1, <2>2 DEF Accounts
  <1>13. SpawnsWithinPolicy
    BY <1>11 DEF SpawnsWithinPolicy
  <1> QED
    BY <1>7, <1>9, <1>10, <1>12, <1>13 DEF ZInv

LEMMA ZNext ==
    ASSUME ZInv, Next
    PROVE  ZInv' /\ AnswersItsOwn
  <1>1. CASE startSystemServer
    BY <1>1, StartKeeps
  <1>2. CASE handleSystemServerProcess
    BY <1>2, ServerKeeps
  <1>3. ASSUME NEW p \in Procs, LoopStep(p) \/ Die(p) PROVE ZInv' /\ AnswersItsOwn
    BY <1>3, TurnKeeps, AcceptKeeps, FailsKeeps, RefuseKeeps, ForkKeeps, ParentKeeps, DieKeeps
       DEF LoopStep
  <1>4. ASSUME NEW k \in Kids, handleChildProc(k) PROVE ZInv' /\ AnswersItsOwn
    BY <1>4, ChildKeeps
  <1>5. ASSUME NEW c \in Clients, ClientStep(c) PROVE ZInv' /\ AnswersItsOwn
    BY <1>5, ConnectKeeps, SendKeeps, RestKeeps DEF ClientStep
  <1> QED
    BY <1>1, <1>2, <1>3, <1>4, <1>5 DEF Next

LEMMA ZStutter ==
    ASSUME ZInv, UNCHANGED vars
    PROVE  ZInv'
  <1>1. proc' = proc /\ cred' = cred /\ cli' = cli /\ backlog' = backlog
    BY DEF vars
  <1>2. TypeOK' /\ BacklogSound' /\ SpawnsWithinPolicy' /\ \A p \in Procs : Sound(p, proc'[p])
    BY <1>1, Zenon DEF ZInv, TypeOK, BacklogSound, SpawnsWithinPolicy
  <1>3. Accounts'
    <2>1. OriginsKept /\ NoneWaits /\ \A c \in Clients : SameRequests(c)
      BY <1>1 DEF OriginsKept, NoneWaits, SameRequests
    <2> QED
      BY <2>1, AccountsQuiet DEF ZInv
  <1> QED
    BY <1>2, <1>3 DEF ZInv

LEMMA ZAlways == Spec => []ZInv
  BY ZInit, ZNext, ZStutter, PTL DEF Spec

(* In runSelectLoop the index that selectReadable gives is always one of   *)
(* fds and of peers, fdArray has nothing behind the elements of fds, each  *)
(* connection in fds is open, and the gc of the next turns closes those    *)
(* that are in no list: whoever connects, sends or goes away, for any      *)
(* number of connections and processes.                                    *)
THEOREM ConnectionsKeptSound == Spec => []ConnectionsSound
  <1>1. ZInv => ConnectionsSound
    <2> SUFFICES ASSUME ZInv PROVE ConnectionsSound
      OBVIOUS
    <2>1. TypeOK /\ \A p \in Procs : proc[p] \in Process /\ Sound(p, proc[p])
      BY DEF ZInv, TypeOK
    <2>2. ASSUME NEW p \in Procs, InLoop(p)
          PROVE  /\ proc[p].fds = proc[p].peers
                 /\ proc[p].st # "select" =>
                      /\ Len(proc[p].fds) <= Len(proc[p].fdArray)
                      /\ \A i \in DOMAIN proc[p].fdArray :
                           proc[p].fdArray[i] =
                             IF i <= Len(proc[p].fds) THEN proc[p].fds[i] ELSE NoOne
                      /\ proc[p].index <= Len(proc[p].peers)
                 /\ Range(proc[p].fds) \subseteq proc[p].open
                 /\ Cardinality(proc[p].open \ Range(proc[p].fds)) <= GcLoopCount + 1
      <3> DEFINE me == proc[p]
      <3>1. me \in Process /\ Sound(p, me) /\ me.st \in {"select", "dispatch", "pipe"}
        BY <2>1, <2>2 DEF InLoop
      <3> HIDE DEF me
      <3>2. Tables(me)
        BY <3>1 DEF Sound, Working
      <3>3. /\ me.fds = me.peers
            /\ me.st # "select" =>
                 /\ Len(me.fds) <= Len(me.fdArray)
                 /\ \A i \in DOMAIN me.fdArray :
                      me.fdArray[i] = IF i <= Len(me.fds) THEN me.fds[i] ELSE NoOne
                 /\ me.index <= Len(me.peers)
            /\ Range(me.fds) \subseteq me.open
            /\ Cardinality(me.open \ Range(me.fds)) <= GcLoopCount + 1
        BY ONLY <3>1, <3>2, InLoopTables
      <3> QED
        BY ONLY <3>3 DEF me
    <2>3. IndexesAgree
      BY <2>2, Zenon DEF IndexesAgree
    <2>4. DescriptorsAccounted
      BY <2>2 DEF DescriptorsAccounted
    <2> QED
      BY <2>1, <2>3, <2>4 DEF ConnectionsSound
  <1> QED
    BY <1>1, ZAlways, PTL

(* What runOnce makes of a request, for any clients, requests and          *)
(* processes: one answer and one process at most, the process within the   *)
(* policies, and the pid that is answered that of the process forked for   *)
(* this very request, also where a wrapped child wrote another pid to the  *)
(* pipe or a stray child serves the connection too.                        *)
THEOREM RequestsAreHonoured == Spec => RequestsHonoured
  <1>1. ZInv => OncePerRequest /\ SpawnsWithinPolicy
    BY DEF ZInv, Accounts, Spawned, OncePerRequest
  <1>2. ASSUME ZInv, Next PROVE AnswersItsOwn
    BY <1>2, ZNext
  <1> QED
    BY <1>1, <1>2, ZAlways, PTL DEF Spec, RequestsHonoured
=============================================================================
