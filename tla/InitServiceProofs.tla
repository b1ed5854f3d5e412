-------------------------- MODULE InitServiceProofs --------------------------
(***************************************************************************)
(* Proofs about InitService, for any number of services, processes and     *)
(* classes and any delays: its type invariant; init keeps track of every   *)
(* child it forks; the handler of SIGCHLD leaves no zombie behind; and a   *)
(* service that was asked to stop is not started again by itself.  Then    *)
(* about InitCritical, for any window and any threshold: init reboots into *)
(* recovery only after a burst of crashes.                                 *)
(***************************************************************************)
EXTENDS InitCritical, SequenceTheorems, TLAPS

(* What is tried, and for how long, for a leaf that names no prover.       *)
USE SMTT(15), ZenonT(30), SMTT(60)

(* A service on its own: SVC_RUNNING exactly when it has a pid, and fewer  *)
(* crashes counted than would have rebooted the device.                    *)
GoodService(r) ==
    /\ r \in Service
    /\ ("RUNNING" \in r.flags) <=> (r.pid # NoPid)
    /\ r.nrCrashed <= CrashThreshold

(* The count of crashes passes the threshold only in the step that reboots.*)
CountBelowThreshold ==
    ~rebooted => \A s \in Svc : sv[s].nrCrashed <= CrashThreshold

IInv == TypeOK /\ ChildrenTracked /\ CountBelowThreshold

-----------------------------------------------------------------------------
(* r1 is a good service with the pid of r, or with the new pid o.          *)
Forked(r, r1, o) ==
    /\ GoodService(r1)
    /\ \/ r1.pid = r.pid
       \/ r.pid = NoPid /\ r1.pid = o /\ o \in Pid /\ proc[o] = FreeProcess

(* What one call of service_start does to the pid of the service: nothing, *)
(* or it is the pid the fork returned.                                     *)
LEMMA StartOne ==
    ASSUME TypeOK, NEW s \in Svc, NEW r, GoodService(r), NEW d \in BOOLEAN,
           NEW o \in Outcomes(s)
    PROVE  Forked(r, service_start(r, s, d, o), o)
  <1> DEFINE c == [r EXCEPT
                     !.flags = @ \ {"DISABLED", "RESTARTING", "RESET", "RESTART"},
                     !.age = up]
  <1>1. /\ c \in Service /\ c.pid = r.pid /\ c.nrCrashed = r.nrCrashed
        /\ "RUNNING" \in c.flags <=> "RUNNING" \in r.flags
    BY Zenon DEF GoodService, Service, TypeOK, Flags
  <1> HIDE DEF c
  <1>2. CASE "RUNNING" \in r.flags
    <2>1. service_start(r, s, d, o) = c
      BY <1>2 DEF service_start, c
    <2> QED
      BY <1>1, <2>1 DEF GoodService, Forked
  <1>3. CASE "RUNNING" \notin r.flags
    <2>0. r.pid = NoPid
      BY <1>3 DEF GoodService
    <2>1. CASE o \in {"nofile", "noconsole"} \/ (d /\ s \notin Oneshot)
      <3>1. service_start(r, s, d, o) = [c EXCEPT !.flags = @ \union {"DISABLED"}]
        BY <1>3, <2>1 DEF service_start, c
      <3> QED
        BY <1>1, <3>1 DEF GoodService, Forked, Service, Flags
    <2>2. CASE /\ ~(o \in {"nofile", "noconsole"} \/ (d /\ s \notin Oneshot))
               /\ o = "nocontext"
      <3>1. service_start(r, s, d, o) = c
        BY <1>3, <2>2 DEF service_start, c
      <3> QED
        BY <1>1, <3>1 DEF GoodService, Forked
    <2>3. CASE /\ ~(o \in {"nofile", "noconsole"} \/ (d /\ s \notin Oneshot))
               /\ o = "forkfail"
      <3>1. service_start(r, s, d, o) = [c EXCEPT !.pid = NoPid]
        BY <1>3, <2>3 DEF service_start, c
      <3> QED
        BY <1>1, <1>3, <2>0, <3>1 DEF GoodService, Forked, Service
    <2>4. CASE /\ ~(o \in {"nofile", "noconsole"} \/ (d /\ s \notin Oneshot))
               /\ o # "nocontext" /\ o # "forkfail"
      <3>1. service_start(r, s, d, o) =
              [c EXCEPT !.flags = @ \union {"RUNNING"}, !.pid = o, !.age = 0,
                        !.state = "running"]
        BY <1>3, <2>4 DEF service_start, c
      <3>2. o \in Pid /\ proc[o] = FreeProcess
        BY <2>4 DEF Outcomes
      <3>3. o # NoPid
        BY <3>2, PidsArePositive
      <3>4. 0 \in 0..RestartDelay
        BY TimeConstants
      <3>5. service_start(r, s, d, o) \in Service
        <4>1. c.flags \union {"RUNNING"} \in SUBSET Flags /\ "running" \in SvcStates
          BY Zenon, <1>1 DEF Service, Flags, SvcStates
        <4>2. o \in Pid \union {NoPid}
          BY <3>2
        <4> QED
          BY ZenonT(30), <1>1, <3>1, <3>4, <4>1, <4>2 DEF Service
      <3>6. /\ service_start(r, s, d, o).pid = o
            /\ service_start(r, s, d, o).flags = c.flags \union {"RUNNING"}
            /\ service_start(r, s, d, o).nrCrashed = c.nrCrashed
        BY <1>1, <3>1 DEF Service
      <3> QED
        BY <1>1, <2>0, <3>2, <3>3, <3>5, <3>6 DEF GoodService, Forked
    <2> QED
      BY <2>1, <2>2, <2>3, <2>4
  <1> QED
    BY <1>2, <1>3

(* A stop, a reset or the stop of a restart leaves the pid alone: the      *)
(* service keeps its process until that is reaped.                         *)
LEMMA StopOne ==
    ASSUME NEW s \in Svc, NEW r, GoodService(r),
           NEW how \in {"DISABLED", "RESET", "RESTART"}
    PROVE  /\ GoodService(service_stop_or_reset(r, s, how))
           /\ service_stop_or_reset(r, s, how).pid = r.pid
  BY ZenonT(30) DEF GoodService, Service, service_stop_or_reset, Flags, SvcStates

(* The same for service_restart.                                           *)
LEMMA RestartOne ==
    ASSUME TypeOK, NEW s \in Svc, NEW r, GoodService(r), NEW o \in Outcomes(s)
    PROVE  Forked(r, service_restart(r, s, o), o)
  <1>1. CASE "RUNNING" \in r.flags
    BY <1>1, StopOne DEF service_restart, Forked
  <1>2. CASE "RUNNING" \notin r.flags /\ "RESTARTING" \in r.flags
    BY <1>2 DEF service_restart, Forked
  <1>3. CASE "RUNNING" \notin r.flags /\ "RESTARTING" \notin r.flags
    BY Zenon, <1>3, StartOne DEF service_restart
  <1> QED
    BY <1>1, <1>2, <1>3

(* The request that is noted with it changes none of this.                 *)
LEMMA Noted ==
    ASSUME NEW r, NEW r1, NEW o, NEW q \in Requests, Forked(r, r1, o)
    PROVE  Forked(r, [r1 EXCEPT !.req = q], o)
  <1>1. r1 \in Service
    BY DEF Forked, GoodService
  <1>2. [r1 EXCEPT !.req = q] \in Service
    BY <1>1 DEF Service
  <1>3. /\ [r1 EXCEPT !.req = q].pid = r1.pid
        /\ [r1 EXCEPT !.req = q].flags = r1.flags
        /\ [r1 EXCEPT !.req = q].nrCrashed = r1.nrCrashed
    BY <1>1 DEF Service
  <1> QED
    BY <1>2, <1>3 DEF Forked, GoodService

-----------------------------------------------------------------------------
(* What a handler does to all services: from v0 to v1 a service keeps its  *)
(* pid or gets one that was free, and no two get the same.                 *)
Handled(v0, v1) ==
    /\ v1 = [s \in Svc |-> v1[s]]
    /\ \A s \in Svc : GoodService(v1[s])
    /\ \A s \in Svc : \/ v1[s].pid = v0[s].pid
                      \/ /\ v0[s].pid = NoPid /\ v1[s].pid \in Pid
                         /\ proc[v1[s].pid] = FreeProcess
    /\ \A s, t \in Svc :
         s # t /\ v1[s].pid # v0[s].pid /\ v1[t].pid # v0[t].pid
           => v1[s].pid # v1[t].pid

LEMMA Handling ==
    ASSUME NEW v0, \A s \in Svc : GoodService(v0[s]),
           NEW v1, v1 = [s \in Svc |-> v1[s]],
           NEW S \in SUBSET Svc, NEW f \in Forks(S),
           \A s \in S : Forked(v0[s], v1[s], f[s]),
           \A s \in Svc \ S : v1[s] = v0[s]
    PROVE  Handled(v0, v1)
  <1>1. \A s, t \in S : s # t /\ f[s] \in Pid => f[s] # f[t]
    BY Zenon DEF Forks
  <1>2. \A s \in Svc : v1[s].pid # v0[s].pid => s \in S /\ v1[s].pid = f[s] /\ f[s] \in Pid
    BY Zenon DEF Forked
  <1>3. \A s \in Svc : GoodService(v1[s])
    BY Zenon DEF Forked
  <1>4. \A s \in Svc : \/ v1[s].pid = v0[s].pid
                      \/ /\ v0[s].pid = NoPid /\ v1[s].pid \in Pid
                         /\ proc[v1[s].pid] = FreeProcess
    BY Zenon DEF Forked
  <1>5. ASSUME NEW s \in Svc, NEW t \in Svc,
               s # t, v1[s].pid # v0[s].pid, v1[t].pid # v0[t].pid
        PROVE  v1[s].pid # v1[t].pid
    BY ZenonT(30), <1>1, <1>2, <1>5
  <1> QED
    BY Zenon, <1>3, <1>4, <1>5 DEF Handled

(* A handler that starts from services v0 and processes q0 that know each  *)
(* other leaves services and processes that do: the heart of the proof.    *)
LEMMA TrackedByHandler ==
    ASSUME TypeOK, ChildrenTracked,
           NEW v0, NEW q0 \in [Pid -> Process], Tracked(v0, q0),
           \A s \in Svc : v0[s].pid = sv[s].pid \/ v0[s].pid = NoPid,
           \A p \in Pid : proc[p] = FreeProcess => q0[p].st = "free",
           NEW v1, Handled(v0, v1), NEW killed
    PROVE  /\ Processes(q0, killed, v1) \in [Pid -> Process]
           /\ Tracked(v1, Processes(q0, killed, v1))
  <1> DEFINE q1 == Processes(q0, killed, v1)
             new(p) == {s \in Svc : v1[s].pid = p /\ sv[s].pid # p}
  <1>0. \A p \in Pid : p # NoPid
    BY PidsArePositive
  <1>1. ASSUME NEW p \in Pid, NEW s \in new(p)
        PROVE  /\ proc[p] = FreeProcess
               /\ v0[s].pid # p
               /\ \A t \in Svc : v0[t].pid # p
               /\ new(p) = {s}
    <2>1. v1[s].pid = p /\ v0[s].pid # p /\ proc[p] = FreeProcess
      BY <1>0, <1>1 DEF Handled
    <2>2. \A t \in Svc : v0[t].pid # p
      BY <1>0, <2>1 DEF Tracked
    <2>3. \A t \in new(p) : t = s
      BY ZenonT(30), <2>1, <2>2 DEF Handled
    <2> QED
      BY <1>1, <2>1, <2>2, <2>3
  <1>2. ASSUME NEW p \in Pid, NEW s \in new(p)
        PROVE  q1[p] = [svc |-> s, st |-> "forked", kids |-> FALSE]
    <2>1. new(p) # {} /\ (CHOOSE t \in new(p) : TRUE) = s
      BY <1>1, <1>2
    <2> QED
      BY Zenon, <2>1 DEF Processes
  <1>3. ASSUME NEW p \in Pid, new(p) = {}
        PROVE  /\ q1[p] \in Process /\ q1[p].svc = q0[p].svc
               /\ q1[p].st = "free" <=> q0[p].st = "free"
    BY ZenonT(30), <1>3 DEF Processes, Kill, Process
  <1>4. q1 \in [Pid -> Process]
    <2>1. ASSUME NEW p \in Pid
          PROVE  q1[p] \in Process
      <3>1. CASE new(p) = {}
        BY <1>3, <3>1
      <3>2. CASE new(p) # {}
        <4>1. PICK s \in new(p) : TRUE
          BY <3>2
        <4>2. q1[p] = [svc |-> s, st |-> "forked", kids |-> FALSE]
          BY <1>2, <4>1
        <4> QED
          BY <4>1, <4>2 DEF Process
      <3> QED
        BY <3>1, <3>2
    <2> QED
      BY Zenon, <2>1 DEF Processes
  <1>5. Tracked(v1, q1)
    <2>1. \A s \in Svc : ("RUNNING" \in v1[s].flags) <=> (v1[s].pid # NoPid)
      BY Zenon DEF Handled, GoodService
    <2>2. ASSUME NEW s \in Svc, v1[s].pid # NoPid
          PROVE  q1[v1[s].pid].svc = s /\ q1[v1[s].pid].st # "free"
      <3> DEFINE p == v1[s].pid
      <3>0. p \in Pid
        BY <2>2 DEF Handled, GoodService, Service
      <3> HIDE DEF p
      <3>1. CASE sv[s].pid # p
        <4>1. s \in new(p)
          BY <3>1 DEF p
        <4>2. q1[p] = [svc |-> s, st |-> "forked", kids |-> FALSE]
          BY <1>2, <3>0, <4>1
        <4> QED
          BY <4>2 DEF p
      <3>2. CASE sv[s].pid = p
        <4>1. proc[p] # FreeProcess
          BY <1>0, <3>0, <3>2 DEF ChildrenTracked, Tracked, FreeProcess
        <4>2. v0[s].pid = p
          BY <4>1 DEF Handled, p
        <4>3. q0[p].svc = s /\ q0[p].st # "free"
          BY <1>0, <3>0, <4>2 DEF Tracked
        <4>4. new(p) = {}
          BY <1>1, <3>0, <4>2
        <4> QED
          BY <1>3, <3>0, <4>3, <4>4 DEF p
      <3> QED
        BY <3>1, <3>2
    <2>3. ASSUME NEW p \in Pid, q1[p].st # "free"
          PROVE  q1[p].svc \in Svc /\ v1[q1[p].svc].pid = p
      <3>1. CASE new(p) # {}
        <4>1. PICK s \in new(p) : TRUE
          BY <3>1
        <4>2. q1[p] = [svc |-> s, st |-> "forked", kids |-> FALSE]
          BY <1>2, <4>1
        <4> QED
          BY <4>1, <4>2
      <3>2. CASE new(p) = {}
        <4>1. q1[p].svc = q0[p].svc /\ q0[p].st # "free"
          BY <1>3, <2>3, <3>2
        <4>2. q0[p].svc \in Svc /\ v0[q0[p].svc].pid = p
          BY <4>1 DEF Tracked
        <4>3. v1[q0[p].svc].pid = p
          BY <1>0, <4>2 DEF Handled
        <4> QED
          BY <4>1, <4>2, <4>3
      <3> QED
        BY <3>1, <3>2
    <2> QED
      BY <2>1, <2>2, <2>3 DEF Tracked
  <1> QED
    BY <1>4, <1>5

-----------------------------------------------------------------------------
(* What each handler keeps.                                                *)
Kept ==
    /\ sv' \in [Svc -> Service] /\ proc' \in [Pid -> Process]
    /\ ChildrenTracked'
    /\ \A s \in Svc : sv'[s].nrCrashed <= CrashThreshold

LEMMA AllGood ==
    ASSUME IInv, ~rebooted
    PROVE  \A s \in Svc : GoodService(sv[s])
  BY Zenon DEF IInv, TypeOK, ChildrenTracked, Tracked, CountBelowThreshold, GoodService

LEMMA HandlerKeeps ==
    ASSUME IInv, NEW v0, NEW q0 \in [Pid -> Process], Tracked(v0, q0),
           \A s \in Svc : v0[s].pid = sv[s].pid \/ v0[s].pid = NoPid,
           \A p \in Pid : proc[p] = FreeProcess => q0[p].st = "free",
           NEW v1, Handled(v0, v1), NEW killed,
           sv' = v1, proc' = Processes(q0, killed, v1)
    PROVE  Kept
  <1>1. /\ Processes(q0, killed, v1) \in [Pid -> Process]
        /\ Tracked(v1, Processes(q0, killed, v1))
    BY TrackedByHandler DEF IInv
  <1>2. v1 \in [Svc -> Service] /\ \A s \in Svc : v1[s].nrCrashed <= CrashThreshold
    BY DEF Handled, GoodService
  <1> QED
    BY <1>1, <1>2 DEF Kept, ChildrenTracked, Tracked

(* The handlers that start from the services and processes as they are.    *)
LEMMA PlainHandlerKeeps ==
    ASSUME IInv, NEW v1, Handled(sv, v1), NEW killed,
           sv' = v1, proc' = Processes(proc, killed, v1)
    PROVE  Kept
  <1>1. proc \in [Pid -> Process] /\ Tracked(sv, proc)
    BY DEF IInv, TypeOK, ChildrenTracked
  <1>2. \A p \in Pid : proc[p] = FreeProcess => proc[p].st = "free"
    BY DEF FreeProcess
  <1> QED
    BY <1>1, <1>2, HandlerKeeps

LEMMA StartAllKeeps ==
    ASSUME IInv, ~rebooted, NEW S \in SUBSET Svc, NEW d \in BOOLEAN, StartAll(S, d)
    PROVE  Kept
  <1> DEFINE v(f) == [s \in Svc |->
                        IF s \in S
                        THEN [service_start(sv[s], s, d, f[s]) EXCEPT !.req = "start"]
                        ELSE sv[s]]
  <1>1. PICK f \in Forks(S) : sv' = v(f) /\ proc' = Processes(proc, {}, v(f))
    BY Zenon DEF StartAll
  <1>2. \A s \in Svc : GoodService(sv[s])
    BY Zenon, AllGood
  <1>3. ASSUME NEW s \in S
        PROVE  Forked(sv[s], v(f)[s], f[s])
    <2>1. f[s] \in Outcomes(s)
      BY DEF Forks
    <2>2. Forked(sv[s], service_start(sv[s], s, d, f[s]), f[s])
      BY <1>2, <2>1, StartOne DEF IInv
    <2>3. "start" \in Requests
      BY DEF Requests
    <2> QED
      BY <2>2, <2>3, Noted
  <1>4. Handled(sv, v(f))
    <2>1. \A s \in Svc \ S : v(f)[s] = sv[s]
      OBVIOUS
    <2>2. v(f) = [s \in Svc |-> v(f)[s]]
      OBVIOUS
    <2> HIDE DEF v
    <2> QED
      BY Zenon, <1>2, <1>3, <2>1, <2>2, Handling
  <1> HIDE DEF v
  <1> QED
    BY <1>1, <1>4, PlainHandlerKeeps

LEMMA StopAllKeeps ==
    ASSUME IInv, ~rebooted, NEW S \in SUBSET Svc,
           NEW how \in {"DISABLED", "RESET", "RESTART"}, StopAll(S, how)
    PROVE  Kept
  <1> DEFINE v == [s \in Svc |->
                     IF s \in S
                     THEN [service_stop_or_reset(sv[s], s, how) EXCEPT !.req = "stop"]
                     ELSE sv[s]]
  <1>1. sv' = v /\ proc' = Processes(proc, {sv[s].pid : s \in S}, v)
    BY DEF StopAll
  <1>2. \A s \in Svc : GoodService(sv[s])
    BY Zenon, AllGood
  <1>3. ASSUME NEW s \in Svc
        PROVE  GoodService(v[s]) /\ v[s].pid = sv[s].pid
    <2>1. CASE s \in S
      <3>1. /\ GoodService(service_stop_or_reset(sv[s], s, how))
            /\ service_stop_or_reset(sv[s], s, how).pid = sv[s].pid
        BY <1>2, StopOne
      <3>2. Forked(sv[s], service_stop_or_reset(sv[s], s, how), NoPid)
        BY <3>1 DEF Forked
      <3>3. Forked(sv[s], v[s], NoPid)
        BY Zenon, <2>1, <3>2, Noted DEF Requests
      <3> QED
        BY <3>3, PidsArePositive DEF Forked
    <2>2. CASE s \notin S
      BY <1>2, <2>2
    <2> QED
      BY <2>1, <2>2
  <1>4. v = [s \in Svc |-> v[s]]
    OBVIOUS
  <1> HIDE DEF v
  <1>5. Handled(sv, v)
    BY <1>3, <1>4 DEF Handled
  <1> QED
    BY <1>1, <1>5, PlainHandlerKeeps

LEMMA RestartAllKeeps ==
    ASSUME IInv, NEW S \in SUBSET Svc,
           NEW v0, \A s \in Svc : GoodService(v0[s]),
           NEW q0 \in [Pid -> Process], Tracked(v0, q0),
           \A s \in Svc : v0[s].pid = sv[s].pid \/ v0[s].pid = NoPid,
           \A p \in Pid : proc[p] = FreeProcess => q0[p].st = "free",
           RestartAll(S, v0, q0)
    PROVE  Kept
  <1> DEFINE v(f) == [s \in Svc |->
                        IF s \in S
                        THEN [service_restart(v0[s], s, f[s]) EXCEPT !.req = "restart"]
                        ELSE v0[s]]
             killed == {v0[s].pid : s \in {t \in S : "RUNNING" \in v0[t].flags}}
  <1>1. PICK f \in Forks(S) : sv' = v(f) /\ proc' = Processes(q0, killed, v(f))
    BY Zenon DEF RestartAll
  <1>2. ASSUME NEW s \in S
        PROVE  Forked(v0[s], v(f)[s], f[s])
    <2>1. f[s] \in Outcomes(s)
      BY DEF Forks
    <2>2. Forked(v0[s], service_restart(v0[s], s, f[s]), f[s])
      BY <2>1, RestartOne DEF IInv
    <2>3. "restart" \in Requests
      BY DEF Requests
    <2> QED
      BY <2>2, <2>3, Noted
  <1>3. Handled(v0, v(f))
    <2>1. \A s \in Svc \ S : v(f)[s] = v0[s]
      BY Zenon
    <2>2. v(f) = [s \in Svc |-> v(f)[s]]
      OBVIOUS
    <2> HIDE DEF v
    <2> QED
      BY Zenon, <1>2, <2>1, <2>2, Handling
  <1> HIDE DEF v, killed
  <1> QED
    BY <1>1, <1>3, HandlerKeeps

LEMMA RestartKeeps ==
    ASSUME IInv, ~rebooted, NEW S \in SUBSET Svc, RestartAll(S, sv, proc)
    PROVE  Kept
  <1>1. proc \in [Pid -> Process] /\ Tracked(sv, proc)
    BY DEF IInv, TypeOK, ChildrenTracked
  <1>2. \A p \in Pid : proc[p] = FreeProcess => proc[p].st = "free"
    BY DEF FreeProcess
  <1>3. \A s \in Svc : GoodService(sv[s])
    BY Zenon, AllGood
  <1> QED
    BY <1>1, <1>2, <1>3, RestartAllKeeps

(* restart_processes starts the services that are due.                     *)
LEMMA RestartProcessesKeeps ==
    ASSUME IInv, restart_processes
    PROVE  Kept /\ timeout' \in -1..RestartDelay
  <1> DEFINE v(f) == [s \in Svc |->
                        IF s \in Due THEN service_start(sv[s], s, FALSE, f[s])
                        ELSE sv[s]]
  <1>0. Due \in SUBSET Svc
    BY DEF Due, Restarting
  <1>1. PICK f \in Forks(Due) : sv' = v(f) /\ proc' = Processes(proc, {}, v(f))
    BY Zenon DEF restart_processes
  <1>2. \A s \in Svc : GoodService(sv[s])
    BY AllGood DEF restart_processes
  <1>3. ASSUME NEW s \in Due
        PROVE  Forked(sv[s], v(f)[s], f[s])
    <2>1. f[s] \in Outcomes(s)
      BY DEF Forks
    <2> QED
      BY Zenon, <1>0, <1>2, <2>1, StartOne DEF IInv
  <1>4. Handled(sv, v(f))
    <2>1. \A s \in Svc \ Due : v(f)[s] = sv[s]
      OBVIOUS
    <2>2. v(f) = [s \in Svc |-> v(f)[s]]
      OBVIOUS
    <2> HIDE DEF v
    <2> QED
      BY Zenon, <1>0, <1>2, <1>3, <2>1, <2>2, Handling
  <1>5. timeout' \in -1..RestartDelay
    <2>1. \A s \in Svc : RestartDelay - sv[s].age \in 0..RestartDelay
      BY TimeConstants DEF IInv, TypeOK, Service
    <2>2. NextRestart \in SUBSET (-1..RestartDelay)
      BY <2>1, TimeConstants DEF NextRestart, Restarting
    <2> QED
      BY <2>2, TimeConstants DEF restart_processes
  <1> HIDE DEF v
  <1> QED
    BY <1>1, <1>4, <1>5, PlainHandlerKeeps

-----------------------------------------------------------------------------
(* A zombie is the process of a service, and taking it from both leaves    *)
(* services and processes that know each other.                            *)
LEMMA ReapedTracked ==
    ASSUME IInv, NEW p \in Pid, proc[p].st = "zombie",
           NEW x \in Service, x.pid = NoPid, "RUNNING" \notin x.flags
    PROVE  LET s == proc[p].svc
               v0 == [sv EXCEPT ![s] = x]
               q0 == Reaped(p, s)
           IN  /\ s \in Svc
               /\ v0 \in [Svc -> Service] /\ q0 \in [Pid -> Process]
               /\ Tracked(v0, q0)
               /\ \A t \in Svc : v0[t].pid = sv[t].pid \/ v0[t].pid = NoPid
               /\ \A r \in Pid : proc[r] = FreeProcess => q0[r].st = "free"
  <1> DEFINE s == proc[p].svc
             v0 == [sv EXCEPT ![s] = x]
             q0 == Reaped(p, s)
  <1>1. /\ sv \in [Svc -> Service] /\ proc \in [Pid -> Process]
        /\ Tracked(sv, proc)
    BY DEF IInv, TypeOK, ChildrenTracked
  <1>2. s \in Svc /\ sv[s].pid = p
    BY <1>1 DEF Tracked
  <1>3. /\ q0 \in [Pid -> Process] /\ q0[p].st = "free"
        /\ \A r \in Pid \ {p} : q0[r] = proc[r]
    BY <1>1 DEF Reaped, FreeProcess, Process
  <1>4. v0 \in [Svc -> Service] /\ v0[s] = x /\ \A t \in Svc \ {s} : v0[t] = sv[t]
    BY <1>1, <1>2
  <1>5. \A t \in Svc \ {s} : sv[t].pid # p
    BY <1>1, PidsArePositive DEF Tracked
  <1> HIDE DEF s, v0, q0
  <1>6. ASSUME NEW t \in Svc
        PROVE  ("RUNNING" \in v0[t].flags) <=> (v0[t].pid # NoPid)
    <2>1. CASE t = s
      BY <1>4, <2>1
    <2>2. CASE t # s
      BY <1>1, <1>4, <2>2 DEF Tracked
    <2> QED
      BY <2>1, <2>2
  <1>7. ASSUME NEW t \in Svc, v0[t].pid # NoPid
        PROVE  q0[v0[t].pid].svc = t /\ q0[v0[t].pid].st # "free"
    <2>1. t # s /\ v0[t] = sv[t] /\ sv[t].pid \in Pid \ {p}
      BY <1>1, <1>4, <1>5, <1>7 DEF Service
    <2> QED
      BY <1>1, <1>3, <1>7, <2>1 DEF Tracked
  <1>8. ASSUME NEW r \in Pid, q0[r].st # "free"
        PROVE  q0[r].svc \in Svc /\ v0[q0[r].svc].pid = r
    <2>1. r # p /\ q0[r] = proc[r]
      BY <1>3, <1>8
    <2>2. proc[r].svc \in Svc /\ sv[proc[r].svc].pid = r
      BY <1>1, <1>8, <2>1 DEF Tracked
    <2> QED
      BY <1>2, <1>4, <2>1, <2>2
  <1>9. Tracked(v0, q0)
    BY <1>6, <1>7, <1>8 DEF Tracked
  <1>10. \A r \in Pid : proc[r] = FreeProcess => q0[r].st = "free"
    BY <1>3 DEF FreeProcess
  <1> QED
    BY <1>2, <1>3, <1>4, <1>9, <1>10 DEF s, v0, q0

(* The service record after the exit of its process, and after the crash   *)
(* was counted.                                                            *)
LEMMA ExitedOne ==
    ASSUME NEW s \in Svc, NEW r, GoodService(r)
    PROVE  /\ Exited(r, s) \in Service
           /\ Exited(r, s).pid = NoPid /\ "RUNNING" \notin Exited(r, s).flags
           /\ Exited(r, s).nrCrashed <= CrashThreshold
  BY ZenonT(30) DEF Exited, GoodService, Service, Flags

LEMMA CrashedOne ==
    ASSUME NEW s \in Svc, NEW e \in Service, e.pid = NoPid,
           "RUNNING" \notin e.flags, e.nrCrashed <= CrashThreshold
    PROVE  /\ Crashed(e, s) \in Service
           /\ Crashed(e, s).pid = NoPid /\ "RUNNING" \notin Crashed(e, s).flags
  <1>1. CASE s \notin Critical \/ "RESTART" \in e.flags
    BY <1>1 DEF Crashed
  <1>2. CASE ~(s \notin Critical \/ "RESTART" \in e.flags) /\ e.crashAge <= CrashWindow
    <2>1. Crashed(e, s) = [e EXCEPT !.nrCrashed = @ + 1]
      BY <1>2 DEF Crashed
    <2>2. e.nrCrashed + 1 \in 0..(CrashThreshold + 1)
      BY TimeConstants DEF Service
    <2> QED
      BY <2>1, <2>2 DEF Service
  <1>3. CASE ~(s \notin Critical \/ "RESTART" \in e.flags) /\ ~(e.crashAge <= CrashWindow)
    <2>1. Crashed(e, s) = [e EXCEPT !.crashAge = 0, !.nrCrashed = 1]
      BY <1>3 DEF Crashed
    <2>2. 0 \in 0..(CrashWindow + 1) /\ 1 \in 0..(CrashThreshold + 1)
      BY TimeConstants
    <2> QED
      BY ZenonT(30), <2>1, <2>2 DEF Service
  <1> QED
    BY <1>1, <1>2, <1>3

LEMMA WaitKeeps ==
    ASSUME IInv, NEW p \in Pid, wait_for_one_process(p)
    PROVE  /\ sv' \in [Svc -> Service] /\ proc' \in [Pid -> Process]
           /\ ChildrenTracked' /\ CountBelowThreshold'
  <1> DEFINE s == proc[p].svc
             e == Exited(sv[s], s)
             c == Crashed(e, s)
             x == [c EXCEPT !.flags = (@ \ {"RESTART"}) \union {"RESTARTING"},
                            !.state = "restarting"]
  <1>1. ~rebooted /\ proc[p].st = "zombie"
    BY Zenon DEF wait_for_one_process
  <1>2. s \in Svc
    BY <1>1 DEF IInv, ChildrenTracked, Tracked
  <1>3. \A t \in Svc : GoodService(sv[t])
    BY <1>1, AllGood
  <1>4. /\ e \in Service /\ e.pid = NoPid /\ "RUNNING" \notin e.flags
        /\ e.nrCrashed <= CrashThreshold
    BY <1>2, <1>3, ExitedOne
  <1>5. c \in Service /\ c.pid = NoPid /\ "RUNNING" \notin c.flags
    BY <1>2, <1>4, CrashedOne
  <1>6. CASE /\ sv' = [sv EXCEPT ![s] = [e EXCEPT !.state = "stopped"]]
             /\ proc' = Reaped(p, s) /\ UNCHANGED rebooted
    <2>1. /\ [e EXCEPT !.state = "stopped"] \in Service
          /\ [e EXCEPT !.state = "stopped"].pid = NoPid
          /\ "RUNNING" \notin [e EXCEPT !.state = "stopped"].flags
          /\ [e EXCEPT !.state = "stopped"].nrCrashed <= CrashThreshold
      BY Zenon, <1>4 DEF Service, SvcStates
    <2> HIDE DEF e
    <2>2. /\ sv' \in [Svc -> Service] /\ proc' \in [Pid -> Process]
          /\ Tracked(sv', proc')
      BY Zenon, <1>1, <1>6, <2>1, ReapedTracked
    <2>3. \A t \in Svc : sv'[t].nrCrashed <= CrashThreshold
      BY <1>2, <1>3, <1>6, <2>1 DEF GoodService, IInv, TypeOK
    <2> QED
      BY <2>2, <2>3 DEF ChildrenTracked, Tracked, CountBelowThreshold
  <1>7. CASE sv' = [sv EXCEPT ![s] = c] /\ proc' = Reaped(p, s) /\ rebooted' = TRUE
    <2> HIDE DEF c
    <2>1. /\ sv' \in [Svc -> Service] /\ proc' \in [Pid -> Process]
          /\ Tracked(sv', proc')
      BY Zenon, <1>1, <1>5, <1>7, ReapedTracked
    <2> QED
      BY Zenon, <1>7, <2>1 DEF ChildrenTracked, Tracked, CountBelowThreshold
  <1>8. CASE /\ c.nrCrashed <= CrashThreshold
             /\ RestartAll(OnRestart[s], [sv EXCEPT ![s] = x], Reaped(p, s))
             /\ UNCHANGED rebooted
    <2> HIDE DEF c
    <2>1. x \in Service /\ x.pid = NoPid /\ "RUNNING" \notin x.flags
          /\ x.nrCrashed <= CrashThreshold
      BY Zenon, <1>5, <1>8 DEF Service, Flags, SvcStates
    <2> HIDE DEF x
    <2> DEFINE v0 == [sv EXCEPT ![s] = x]
    <2>2. /\ v0 \in [Svc -> Service] /\ Reaped(p, s) \in [Pid -> Process]
          /\ Tracked(v0, Reaped(p, s))
          /\ \A t \in Svc : v0[t].pid = sv[t].pid \/ v0[t].pid = NoPid
          /\ \A r \in Pid : proc[r] = FreeProcess => Reaped(p, s)[r].st = "free"
      BY <1>1, <2>1, ReapedTracked
    <2>3. \A t \in Svc : GoodService(v0[t])
      BY Zenon, <1>2, <1>3, <2>1 DEF GoodService, IInv, TypeOK
    <2>4. OnRestart[s] \in SUBSET Svc
      BY <1>2, ServiceSets
    <2>5. RestartAll(OnRestart[s], v0, Reaped(p, s))
      BY <1>8
    <2> HIDE DEF v0, s
    <2>6. Kept
      BY <2>2, <2>3, <2>4, <2>5, RestartAllKeeps
    <2> QED
      BY <2>6 DEF Kept, CountBelowThreshold
  <1> QED
    BY Zenon, <1>6, <1>7, <1>8 DEF wait_for_one_process

-----------------------------------------------------------------------------
(* The steps of the processes: a process that is there stays there.        *)
LEMMA BecomeKeeps ==
    ASSUME IInv, NEW p \in Pid, NEW from, NEW pr \in Process, Become(p, from, pr),
           pr.svc = proc[p].svc \/ pr.st = "free",
           pr.st = "free" <=> proc[p].st = "free"
    PROVE  /\ sv' \in [Svc -> Service] /\ proc' \in [Pid -> Process]
           /\ ChildrenTracked' /\ CountBelowThreshold'
  <1>1. /\ sv' = sv /\ rebooted' = rebooted /\ proc' = [proc EXCEPT ![p] = pr]
        /\ sv \in [Svc -> Service] /\ proc \in [Pid -> Process]
        /\ Tracked(sv, proc)
    BY DEF Become, IInv, TypeOK, ChildrenTracked
  <1>2. /\ proc' \in [Pid -> Process]
        /\ \A r \in Pid : proc'[r].st = "free" <=> proc[r].st = "free"
        /\ \A r \in Pid : proc[r].st # "free" => proc'[r].svc = proc[r].svc
    BY <1>1
  <1>3. \A s \in Svc : sv[s].pid # NoPid => sv[s].pid \in Pid
    BY <1>1 DEF Service
  <1>4. Tracked(sv, proc')
    BY <1>1, <1>2, <1>3 DEF Tracked
  <1>5. ChildrenTracked'
    BY <1>1, <1>4 DEF ChildrenTracked, Tracked
  <1>6. CountBelowThreshold'
    BY <1>1 DEF CountBelowThreshold, IInv
  <1> QED
    BY <1>1, <1>2, <1>5, <1>6

LEMMA ProcessStepKeeps ==
    ASSUME IInv, NEW p \in Pid,
           \/ SetPgid(p) \/ Spawn(p) \/ KidsExit(p)
           \/ Exit(p, {"forked", "grouped", "killed"})
    PROVE  IInv'
  <1>1. proc[p] \in Process
    BY DEF IInv, TypeOK
  <1>2. CASE SetPgid(p)
    <2>1. /\ [proc[p] EXCEPT !.st = "grouped"] \in Process
          /\ [proc[p] EXCEPT !.st = "grouped"].svc = proc[p].svc
          /\ [proc[p] EXCEPT !.st = "grouped"].st = "grouped"
      BY <1>1 DEF Process
    <2>2. Become(p, {"forked"}, [proc[p] EXCEPT !.st = "grouped"])
          /\ proc[p].st # "free" /\ UNCHANGED sig
      BY <1>2 DEF SetPgid, Become
    <2>3. /\ sv' \in [Svc -> Service] /\ proc' \in [Pid -> Process]
          /\ ChildrenTracked' /\ CountBelowThreshold'
      BY Zenon, <2>1, <2>2, BecomeKeeps
    <2> QED
      BY <2>2, <2>3 DEF IInv, TypeOK, Become
  <1>3. CASE Spawn(p)
    <2>1. /\ [proc[p] EXCEPT !.kids = TRUE] \in Process
          /\ [proc[p] EXCEPT !.kids = TRUE].svc = proc[p].svc
          /\ [proc[p] EXCEPT !.kids = TRUE].st = proc[p].st
      BY Zenon, <1>1 DEF Process
    <2>2. Become(p, {"grouped"}, [proc[p] EXCEPT !.kids = TRUE]) /\ UNCHANGED sig
      BY <1>3 DEF Spawn
    <2>3. /\ sv' \in [Svc -> Service] /\ proc' \in [Pid -> Process]
          /\ ChildrenTracked' /\ CountBelowThreshold'
      BY Zenon, <2>1, <2>2, BecomeKeeps
    <2> QED
      BY <2>2, <2>3 DEF IInv, TypeOK, Become
  <1>4. CASE KidsExit(p)
    <2> DEFINE pr == IF proc[p].st = "free" THEN FreeProcess
                     ELSE [proc[p] EXCEPT !.kids = FALSE]
    <2>1. /\ pr \in Process
          /\ pr.svc = proc[p].svc \/ pr.st = "free"
          /\ pr.st = "free" <=> proc[p].st = "free"
      BY Zenon, <1>1 DEF Process, FreeProcess
    <2>2. /\ Become(p, {"free", "forked", "grouped", "killed", "zombie"}, pr)
          /\ sig' \in {sig, sig \/ sigInit}
      BY <1>4 DEF KidsExit
    <2> HIDE DEF pr
    <2>3. /\ sv' \in [Svc -> Service] /\ proc' \in [Pid -> Process]
          /\ ChildrenTracked' /\ CountBelowThreshold'
      BY <2>1, <2>2, BecomeKeeps
    <2> QED
      BY <2>2, <2>3 DEF IInv, TypeOK, Become
  <1>5. CASE Exit(p, {"forked", "grouped", "killed"})
    <2>1. /\ [proc[p] EXCEPT !.st = "zombie"] \in Process
          /\ [proc[p] EXCEPT !.st = "zombie"].svc = proc[p].svc
          /\ [proc[p] EXCEPT !.st = "zombie"].st = "zombie"
      BY <1>1 DEF Process
    <2>2. /\ Become(p, {"forked", "grouped", "killed"},
                    [proc[p] EXCEPT !.st = "zombie"])
          /\ proc[p].st # "free" /\ sig' = (sig \/ sigInit)
      BY <1>5 DEF Exit, Become
    <2>3. /\ sv' \in [Svc -> Service] /\ proc' \in [Pid -> Process]
          /\ ChildrenTracked' /\ CountBelowThreshold'
      BY Zenon, <2>1, <2>2, BecomeKeeps
    <2> QED
      BY <2>2, <2>3 DEF IInv, TypeOK, Become
  <1> QED
    BY <1>2, <1>3, <1>4, <1>5

LEMMA TickKeeps ==
    ASSUME IInv, Tick
    PROVE  IInv'
  <1> DEFINE older(s) == [sv[s] EXCEPT !.age = Older(@, RestartDelay),
                                       !.crashAge = Older(@, CrashWindow + 1)]
  <1>1. /\ sv \in [Svc -> Service] /\ sv' = [s \in Svc |-> older(s)]
        /\ Tracked(sv, proc) /\ proc' = proc /\ rebooted' = rebooted
    BY Zenon DEF IInv, TypeOK, ChildrenTracked, Tick
  <1>2. ASSUME NEW s \in Svc
        PROVE  /\ older(s) \in Service /\ older(s).pid = sv[s].pid
               /\ older(s).flags = sv[s].flags
               /\ older(s).nrCrashed = sv[s].nrCrashed
    <2>1. sv[s] \in Service
      BY Zenon, <1>1
    <2>2. /\ Older(sv[s].age, RestartDelay) \in 0..RestartDelay
          /\ Older(sv[s].crashAge, CrashWindow + 1) \in 0..(CrashWindow + 1)
      BY <2>1, TimeConstants DEF Older, Service
    <2> QED
      BY Zenon, <2>1, <2>2 DEF Service
  <1> HIDE DEF older
  <1>3. sv' \in [Svc -> Service]
    BY <1>1, <1>2
  <1>4. Tracked(sv', proc')
    BY <1>1, <1>2 DEF Tracked
  <1>5. CountBelowThreshold'
    BY <1>1, <1>2 DEF CountBelowThreshold, IInv
  <1>6. up' \in 0..RestartDelay /\ timeout' \in -1..RestartDelay
    <2>1. up \in 0..RestartDelay /\ timeout \in -1..RestartDelay
      BY DEF IInv, TypeOK
    <2>2. /\ up' = Older(up, RestartDelay)
          /\ timeout' = IF timeout > 0 THEN timeout - 1 ELSE timeout
      BY ZenonT(30) DEF Tick
    <2> QED
      BY <2>1, <2>2, TimeConstants DEF Older
  <1>7. TypeOK'
    BY Zenon, <1>3, <1>6 DEF IInv, TypeOK, Tick
  <1>8. ChildrenTracked'
    BY <1>4 DEF ChildrenTracked, Tracked
  <1> QED
    BY <1>5, <1>7, <1>8 DEF IInv

-----------------------------------------------------------------------------
(* The invariant is inductive: a step for each action.                     *)
LEMMA InitEstablishes == Init => IInv
  <1> SUFFICES ASSUME Init PROVE IInv
    OBVIOUS
  <1> DEFINE r(s) == [flags |-> IF s \in RcDisabled THEN {"DISABLED"} ELSE {},
                      pid |-> NoPid, age |-> 0, crashAge |-> 0, nrCrashed |-> 0,
                      state |-> "", req |-> "stop"]
  <1>1. sv = [s \in Svc |-> r(s)] /\ proc = [p \in Pid |-> FreeProcess]
    BY Zenon DEF Init
  <1>2. \A s \in Svc : r(s) \in Service
    <2>1. 0 \in 0..RestartDelay /\ 0 \in 0..(CrashWindow + 1)
            /\ 0 \in 0..(CrashThreshold + 1)
      BY TimeConstants
    <2> QED
      BY <2>1 DEF Service, Flags, SvcStates, Requests
  <1>3. \A s \in Svc : /\ r(s).pid = NoPid /\ "RUNNING" \notin r(s).flags
                      /\ r(s).nrCrashed = 0
    OBVIOUS
  <1> HIDE DEF r
  <1>4. TypeOK
    <2>1. sv \in [Svc -> Service]
      BY <1>1, <1>2
    <2>2. proc \in [Pid -> Process]
      BY <1>1 DEF FreeProcess, Process
    <2>3. up \in 0..RestartDelay /\ timeout \in -1..RestartDelay
      <3>1. up = 0 /\ timeout = -1
        BY Zenon DEF Init
      <3> QED
        BY <3>1, TimeConstants
    <2>5. pc \in Pcs /\ ready \subseteq {"keychord", "prop", "sig"}
      BY Zenon DEF Init, Pcs
    <2>4. sig \in BOOLEAN /\ sigInit \in BOOLEAN /\ rebooted \in BOOLEAN
      BY Zenon DEF Init
    <2> QED
      BY <2>1, <2>2, <2>3, <2>4, <2>5 DEF TypeOK
  <1>5. ChildrenTracked
    BY Zenon, <1>1, <1>3 DEF ChildrenTracked, Tracked, FreeProcess
  <1>6. CountBelowThreshold
    <2>1. \A s \in Svc : sv[s].nrCrashed = 0
      BY Zenon, <1>1, <1>3
    <2>2. 0 <= CrashThreshold
      BY TimeConstants
    <2> QED
      BY Zenon, <2>1, <2>2 DEF CountBelowThreshold
  <1> QED
    BY <1>4, <1>5, <1>6 DEF IInv

LEMMA NextKeeps == IInv /\ [Next]_vars => IInv'
  <1> SUFFICES ASSUME IInv, [Next]_vars PROVE IInv'
    OBVIOUS
  <1>0. CASE UNCHANGED vars
    BY <1>0 DEF vars, IInv, TypeOK, ChildrenTracked, Tracked, CountBelowThreshold
  <1>1. ASSUME Kept, UNCHANGED rebooted
        PROVE  /\ sv' \in [Svc -> Service] /\ proc' \in [Pid -> Process]
               /\ ChildrenTracked' /\ CountBelowThreshold'
    BY <1>1 DEF Kept, CountBelowThreshold
  <1>2. ASSUME ~rebooted, do_start \/ do_stop \/ do_restart \/ msg_start
        PROVE  Kept
    <2>1. CASE do_start
      BY Zenon, <1>2, <2>1, StartAllKeeps DEF do_start
    <2>2. CASE do_stop
      BY <1>2, <2>2, StopAllKeeps DEF do_stop
    <2>3. CASE do_restart
      BY <1>2, <2>3, RestartKeeps DEF do_restart
    <2>4. CASE msg_start
      BY <1>2, <2>4, StartAllKeeps DEF msg_start
    <2> QED
      BY <1>2, <2>1, <2>2, <2>3, <2>4
  <1>3. ASSUME ~rebooted, UNCHANGED <<sv, proc>>
        PROVE  Kept
    BY <1>3 DEF Kept, IInv, TypeOK, ChildrenTracked, Tracked, CountBelowThreshold
  <1>4. CASE execute_one_command
    <2>0. ~rebooted /\ pc' = "restart" /\ UNCHANGED <<up, loop, rebooted>>
      BY <1>4 DEF execute_one_command
    <2>1. ASSUME do_class_start PROVE Kept
      <3>1. PICK k \in Classes :
              StartAll({s \in Svc : Class[s] = k /\ "DISABLED" \notin sv[s].flags}, FALSE)
        BY Zenon, <2>1 DEF do_class_start
      <3> QED
        BY Zenon, <2>0, <3>1, StartAllKeeps
    <2>2. ASSUME do_class_stop PROVE Kept
      <3>1. PICK k \in Classes : StopAll({s \in Svc : Class[s] = k}, "DISABLED")
        BY <2>2 DEF do_class_stop
      <3> QED
        BY <2>0, <3>1, StopAllKeeps
    <2>3. ASSUME do_class_reset PROVE Kept
      <3>1. PICK k \in Classes : StopAll({s \in Svc : Class[s] = k}, "RESET")
        BY <2>3 DEF do_class_reset
      <3> QED
        BY <2>0, <3>1, StopAllKeeps
    <2>4. Kept
      BY <1>2, <1>3, <1>4, <2>0, <2>1, <2>2, <2>3 DEF execute_one_command
    <2> QED
      BY <1>1, <2>0, <2>4 DEF IInv, TypeOK, Pcs, loop
  <1>5. CASE signal_init
    BY <1>5 DEF signal_init, IInv, TypeOK, Pcs, ChildrenTracked, Tracked,
               CountBelowThreshold
  <1>6. CASE restart_processes
    BY Zenon, <1>1, <1>6, RestartProcessesKeeps DEF restart_processes, IInv, TypeOK, Pcs
  <1>7. CASE handle_keychord
    <2>1. ASSUME NEW s \in Keychord, StartAll({s}, FALSE) PROVE Kept
      BY Zenon, <1>7, <2>1, StartAllKeeps, ServiceSets DEF handle_keychord
    <2>2. Kept
      BY Zenon, <1>3, <1>7, <2>1 DEF handle_keychord
    <2> QED
      BY <1>1, <1>7, <2>2 DEF handle_keychord, IInv, TypeOK
  <1>8. CASE handle_control_message
    BY <1>1, <1>2, <1>8 DEF handle_control_message, IInv, TypeOK
  <1>9. CASE handle_signal
    BY ZenonT(30), <1>9 DEF handle_signal, IInv, TypeOK, Pcs, ChildrenTracked, Tracked,
               CountBelowThreshold
  <1>10. CASE DispatchDone
    BY <1>10 DEF DispatchDone, loop, IInv, TypeOK, Pcs, ChildrenTracked, Tracked,
               CountBelowThreshold
  <1>11. CASE ReapDone
    BY <1>11 DEF ReapDone, loop, IInv, TypeOK, Pcs, ChildrenTracked, Tracked,
               CountBelowThreshold
  <1>12. ASSUME NEW p \in Pid, wait_for_one_process(p)
         PROVE  IInv'
    <2>1. /\ sv' \in [Svc -> Service] /\ proc' \in [Pid -> Process]
          /\ ChildrenTracked' /\ CountBelowThreshold'
      BY <1>12, WaitKeeps
    <2>2. UNCHANGED <<up, pc, loop>> /\ rebooted' \in BOOLEAN
      BY ZenonT(30), <1>12 DEF wait_for_one_process, IInv, TypeOK
    <2> QED
      BY <2>1, <2>2 DEF IInv, TypeOK, loop
  <1>13. ASSUME NEW requests \in SUBSET RequestFds, Poll(requests)
         PROVE  IInv'
    BY <1>13 DEF Poll, RequestFds, IInv, TypeOK, Pcs, ChildrenTracked, Tracked,
               CountBelowThreshold
  <1>14. ASSUME NEW p \in Pid,
                \/ SetPgid(p) \/ Spawn(p) \/ KidsExit(p)
                \/ Exit(p, {"forked", "grouped", "killed"})
         PROVE  IInv'
    BY <1>14, ProcessStepKeeps
  <1>15. CASE Tick
    BY <1>15, TickKeeps
  <1> QED
    BY <1>0, <1>4, <1>5, <1>6, <1>7, <1>8, <1>9, <1>10, <1>11, <1>12, <1>13,
       <1>14, <1>15 DEF Next, Act, InitLoop

(* Every variable of init keeps its type, whatever the number of services: *)
(* in particular the poll timeout never exceeds the restart delay, and the *)
(* crash count stops at the threshold because the device reboots.          *)
THEOREM TypeCorrect == Spec => []TypeOK
  <1>1. IInv => TypeOK
    BY DEF IInv
  <1> QED
    BY <1>1, InitEstablishes, NextKeeps, PTL DEF Spec

(* init never loses a child: whatever starts, stops, resets, restarts and  *)
(* deaths interleave, every process that is not reaped is the pid of       *)
(* exactly one service, which is SVC_RUNNING, and no service has two.      *)
THEOREM NoChildLost == Spec => []ChildrenTracked
  <1>1. IInv => ChildrenTracked
    BY DEF IInv
  <1> QED
    BY <1>1, InitEstablishes, NextKeeps, PTL DEF Spec

-----------------------------------------------------------------------------
(* What is left of a process when its service is reaped: a handler makes   *)
(* no zombie, and it leaves other processes in a group without a leader    *)
(* only where they were in base.                                           *)
Swept(base) ==
    \A p \in Pid :
        /\ proc'[p].st = "zombie" => base[p].st = "zombie"
        /\ proc'[p].st = "free" /\ proc'[p].kids =>
             /\ base[p].st = "free" /\ base[p].kids
             /\ proc'[p].svc = base[p].svc

LEMMA ProcessesSweep ==
    ASSUME NEW base \in [Pid -> Process], NEW killed, NEW v,
           proc' = Processes(base, killed, v)
    PROVE  Swept(base)
  <1> SUFFICES ASSUME NEW p \in Pid
               PROVE  /\ proc'[p].st = "zombie" => base[p].st = "zombie"
                      /\ proc'[p].st = "free" /\ proc'[p].kids =>
                           /\ base[p].st = "free" /\ base[p].kids
                           /\ proc'[p].svc = base[p].svc
    BY DEF Swept
  <1> DEFINE new == {s \in Svc : v[s].pid = p /\ sv[s].pid # p}
  <1>0. base[p] \in Process
    OBVIOUS
  <1>1. CASE new # {}
    <2>1. proc'[p] = [svc |-> CHOOSE s \in new : TRUE, st |-> "forked", kids |-> FALSE]
      BY <1>1 DEF Processes
    <2> QED
      BY <2>1
  <1>2. CASE new = {} /\ p \in killed
    <2>1. proc'[p] = Kill(base[p])
      BY <1>2 DEF Processes
    <2> QED
      BY <1>0, <2>1 DEF Kill, Process
  <1>3. CASE new = {} /\ p \notin killed
    <2>1. proc'[p] = base[p]
      BY <1>3 DEF Processes
    <2> QED
      BY <2>1
  <1> QED
    BY <1>1, <1>2, <1>3

(* The requests, from the commands of init.rc, the control messages and    *)
(* the keychords, to the services of some set.                             *)
Request ==
    \/ UNCHANGED <<sv, proc>>
    \/ \E S \in SUBSET Svc, d \in BOOLEAN : StartAll(S, d)
    \/ \E S \in SUBSET Svc, how \in {"DISABLED", "RESET"} : StopAll(S, how)
    \/ \E S \in SUBSET Svc : RestartAll(S, sv, proc)

LEMMA HandlersRequest ==
    ASSUME execute_one_command \/ handle_keychord \/ handle_control_message
    PROVE  /\ Request /\ ~rebooted
           /\ UNCHANGED <<up, sig, sigInit, rebooted>>
           /\ pc \notin {"reap", "reapInit"} /\ pc' \notin {"reap", "reapInit"}
  <1>1. ASSUME do_start \/ do_stop \/ do_restart \/ msg_start
        PROVE  Request
    <2>1. \A s \in Svc : {s} \in SUBSET Svc
      OBVIOUS
    <2> QED
      BY Zenon, <1>1, <2>1 DEF Request, do_start, do_stop, do_restart, msg_start
  <1>2. CASE execute_one_command
    <2>1. ASSUME do_class_start PROVE Request
      <3>1. PICK k \in Classes :
              StartAll({s \in Svc : Class[s] = k /\ "DISABLED" \notin sv[s].flags}, FALSE)
        BY Zenon, <2>1 DEF do_class_start
      <3> QED
        BY Zenon, <3>1 DEF Request
    <2>2. ASSUME do_class_stop \/ do_class_reset PROVE Request
      <3>1. PICK k \in Classes, how \in {"DISABLED", "RESET"} :
              StopAll({s \in Svc : Class[s] = k}, how)
        BY Zenon, <2>2 DEF do_class_stop, do_class_reset
      <3> QED
        BY <3>1 DEF Request
    <2>3. ASSUME UNCHANGED <<sv, proc>> PROVE Request
      BY <2>3 DEF Request
    <2> QED
      BY <1>1, <1>2, <2>1, <2>2, <2>3 DEF execute_one_command, loop
  <1>3. CASE handle_keychord
    <2>1. ASSUME NEW s \in Keychord, StartAll({s}, FALSE) PROVE Request
      <3>1. {s} \in SUBSET Svc
        BY ServiceSets
      <3> QED
        BY Zenon, <2>1, <3>1 DEF Request
    <2>2. Request
      BY Zenon, <1>3, <2>1 DEF handle_keychord, Request
    <2> QED
      BY <1>3, <2>2 DEF handle_keychord
  <1>4. CASE handle_control_message
    BY <1>1, <1>4 DEF handle_control_message
  <1> QED
    BY <1>2, <1>3, <1>4

LEMMA RequestSweeps ==
    ASSUME TypeOK, Request
    PROVE  Swept(proc)
  <1>1. proc \in [Pid -> Process]
    BY DEF TypeOK
  <1>2. CASE UNCHANGED <<sv, proc>>
    BY <1>2 DEF Swept
  <1>3. ASSUME NEW killed, NEW v, proc' = Processes(proc, killed, v)
        PROVE  Swept(proc)
    BY <1>1, <1>3, ProcessesSweep
  <1> QED
    BY Zenon, <1>2, <1>3 DEF Request, StartAll, StopAll, RestartAll

(* A group without its leader is that of a oneshot service.                *)
OrphansOfOneshots ==
    \A p \in Pid : proc[p].st = "free" /\ proc[p].kids => proc[p].svc \in Oneshot

(* Outside the reaping every zombie has its byte in the socket.            *)
ZombiesSignalled ==
    sigInit /\ pc \notin {"reap", "reapInit"} =>
        sig \/ \A p \in Pid : proc[p].st # "zombie"

SweepInv == OrphansOfOneshots /\ ZombiesSignalled

LEMMA InitSweep == Init => SweepInv
  <1> SUFFICES ASSUME Init PROVE SweepInv
    OBVIOUS
  <1>1. proc = [p \in Pid |-> FreeProcess] /\ sigInit = FALSE
    BY Zenon DEF Init
  <1>2. OrphansOfOneshots
    BY <1>1 DEF OrphansOfOneshots, FreeProcess
  <1>3. ZombiesSignalled
    BY <1>1 DEF ZombiesSignalled
  <1> QED
    BY <1>2, <1>3 DEF SweepInv

(* A handler that is not reaping, and loses no byte.                       *)
LEMMA SweptKeeps ==
    ASSUME SweepInv, Swept(proc), sig' = sig, sigInit' = sigInit,
           pc \notin {"reap", "reapInit"}
    PROVE  SweepInv'
  BY DEF SweepInv, OrphansOfOneshots, ZombiesSignalled, Swept

(* The reaping leaves a group to a oneshot service only.                   *)
LEMMA WaitSweeps ==
    ASSUME IInv, SweepInv, NEW p \in Pid, wait_for_one_process(p)
    PROVE  SweepInv'
  <1> DEFINE s == proc[p].svc
             q0 == Reaped(p, s)
  <1>1. /\ proc \in [Pid -> Process] /\ proc[p] \in Process
        /\ pc \in {"reap", "reapInit"} /\ pc' = pc
    BY DEF wait_for_one_process, IInv, TypeOK
  <1>2. /\ q0 \in [Pid -> Process]
        /\ \A r \in Pid : q0[r].st = "free" /\ q0[r].kids => q0[r].svc \in Oneshot
    <2> DEFINE kids == proc[p].kids /\ s \in Oneshot /\ "RESTART" \notin sv[s].flags
    <2>1. CASE kids
      <3>1. q0 = [proc EXCEPT ![p] = [proc[p] EXCEPT !.st = "free"]]
        BY <2>1 DEF Reaped
      <3>2. /\ [proc[p] EXCEPT !.st = "free"] \in Process
            /\ [proc[p] EXCEPT !.st = "free"].svc = s
        BY <1>1 DEF Process
      <3> QED
        BY <1>1, <2>1, <3>1, <3>2 DEF SweepInv, OrphansOfOneshots
    <2>2. CASE ~kids
      <3>1. q0 = [proc EXCEPT ![p] = FreeProcess]
        BY Zenon, <2>2 DEF Reaped
      <3>2. FreeProcess \in Process /\ FreeProcess.kids = FALSE
        BY DEF Process, FreeProcess
      <3> QED
        BY <1>1, <3>1, <3>2 DEF SweepInv, OrphansOfOneshots
    <2> QED
      BY <2>1, <2>2
  <1>3. proc' = q0 \/ \E S, v0 : RestartAll(S, v0, q0)
    BY Zenon DEF wait_for_one_process
  <1> HIDE DEF q0
  <1>4. Swept(q0)
    <2>1. ASSUME NEW S, NEW v0, RestartAll(S, v0, q0)
          PROVE  \E killed, v : proc' = Processes(q0, killed, v)
      BY Zenon, <2>1 DEF RestartAll
    <2>2. CASE proc' = q0
      BY <2>2 DEF Swept
    <2> QED
      BY <1>2, <1>3, <2>1, <2>2, ProcessesSweep
  <1>5. OrphansOfOneshots'
    BY <1>2, <1>4 DEF Swept, OrphansOfOneshots
  <1> QED
    BY <1>1, <1>5 DEF SweepInv, ZombiesSignalled

(* What the processes do of themselves: a child that exits after           *)
(* signal_init writes its byte.                                            *)
LEMMA ProcessStepSweeps ==
    ASSUME IInv, SweepInv, NEW p \in Pid,
           \/ SetPgid(p) \/ Spawn(p) \/ KidsExit(p)
           \/ Exit(p, {"forked", "grouped", "killed"})
    PROVE  SweepInv'
  <1>1. /\ proc \in [Pid -> Process] /\ proc[p] \in Process
        /\ sig \in BOOLEAN /\ sigInit \in BOOLEAN
    BY DEF IInv, TypeOK
  <1>2. CASE SetPgid(p)
    <2>1. /\ proc' = [proc EXCEPT ![p] = [proc[p] EXCEPT !.st = "grouped"]]
          /\ UNCHANGED <<sig, sigInit, pc>>
      BY <1>2 DEF SetPgid, Become
    <2>2. [proc[p] EXCEPT !.st = "grouped"].st = "grouped"
      BY <1>1 DEF Process
    <2> QED
      BY <1>1, <2>1, <2>2 DEF SweepInv, OrphansOfOneshots, ZombiesSignalled
  <1>3. CASE Spawn(p)
    <2>1. /\ proc' = [proc EXCEPT ![p] = [proc[p] EXCEPT !.kids = TRUE]]
          /\ UNCHANGED <<sig, sigInit, pc>> /\ proc[p].st = "grouped"
      BY <1>3 DEF Spawn, Become
    <2>2. [proc[p] EXCEPT !.kids = TRUE].st = "grouped"
      BY <1>1, <2>1 DEF Process
    <2> QED
      BY <1>1, <2>1, <2>2 DEF SweepInv, OrphansOfOneshots, ZombiesSignalled
  <1>4. CASE KidsExit(p)
    <2> DEFINE pr == IF proc[p].st = "free" THEN FreeProcess
                     ELSE [proc[p] EXCEPT !.kids = FALSE]
    <2>1. /\ proc' = [proc EXCEPT ![p] = pr] /\ UNCHANGED <<sigInit, pc>>
          /\ sig' \in {sig, sig \/ sigInit}
      BY <1>4 DEF KidsExit, Become
    <2>2. pr.kids = FALSE /\ pr.st = proc[p].st
      BY <1>1 DEF Process, FreeProcess
    <2> HIDE DEF pr
    <2>3. /\ \A r \in Pid : proc'[r].st = proc[r].st
          /\ \A r \in Pid : proc'[r].kids => proc'[r] = proc[r]
      BY <1>1, <2>1, <2>2
    <2>4. sig => sig'
      BY Zenon, <2>1
    <2> QED
      BY <2>1, <2>3, <2>4 DEF SweepInv, OrphansOfOneshots, ZombiesSignalled
  <1>5. CASE Exit(p, {"forked", "grouped", "killed"})
    <2>1. /\ proc' = [proc EXCEPT ![p] = [proc[p] EXCEPT !.st = "zombie"]]
          /\ sig' = (sig \/ sigInit) /\ UNCHANGED <<sigInit, pc>>
      BY <1>5 DEF Exit, Become
    <2>2. [proc[p] EXCEPT !.st = "zombie"].st = "zombie"
      BY <1>1 DEF Process
    <2> QED
      BY <1>1, <2>1, <2>2 DEF SweepInv, OrphansOfOneshots, ZombiesSignalled
  <1> QED
    BY <1>2, <1>3, <1>4, <1>5

LEMMA NextSweeps == IInv /\ SweepInv /\ [Next]_vars => SweepInv'
  <1> SUFFICES ASSUME IInv, SweepInv, [Next]_vars PROVE SweepInv'
    OBVIOUS
  <1>0. TypeOK
    BY DEF IInv
  <1>1. CASE UNCHANGED vars
    BY <1>1 DEF vars, SweepInv, OrphansOfOneshots, ZombiesSignalled
  <1>2. CASE execute_one_command \/ handle_keychord \/ handle_control_message
    <2>1. /\ Request /\ sig' = sig /\ sigInit' = sigInit
          /\ pc \notin {"reap", "reapInit"}
      BY <1>2, HandlersRequest
    <2>2. Swept(proc)
      BY <1>0, <2>1, RequestSweeps
    <2> QED
      BY <2>1, <2>2, SweptKeeps
  <1>3. CASE restart_processes
    <2>1. /\ \E killed, v : proc' = Processes(proc, killed, v)
          /\ sig' = sig /\ sigInit' = sigInit /\ pc = "restart"
      BY Zenon, <1>3 DEF restart_processes
    <2>2. Swept(proc)
      BY <1>0, <2>1, ProcessesSweep DEF TypeOK
    <2> QED
      BY <2>1, <2>2, SweptKeeps
  <1>4. CASE signal_init \/ handle_signal
    <2>1. proc' = proc /\ pc' \in {"reap", "reapInit"}
      BY <1>4 DEF signal_init, handle_signal
    <2> QED
      BY <2>1 DEF SweepInv, OrphansOfOneshots, ZombiesSignalled
  <1>5. CASE ReapDone
    <2>1. proc' = proc /\ \A p \in Pid : proc[p].st # "zombie"
      BY <1>5 DEF ReapDone
    <2> QED
      BY <2>1 DEF SweepInv, OrphansOfOneshots, ZombiesSignalled
  <1>6. ASSUME NEW requests \in SUBSET RequestFds,
               DispatchDone \/ Poll(requests) \/ Tick
        PROVE  SweepInv'
    <2>1. /\ proc' = proc /\ sig' = sig /\ sigInit' = sigInit
          /\ pc \in {"reap", "reapInit"} => pc' = pc
      BY Zenon, <1>6 DEF DispatchDone, Poll, Tick, loop
    <2> QED
      BY <2>1 DEF SweepInv, OrphansOfOneshots, ZombiesSignalled
  <1>7. {} \in SUBSET RequestFds
    OBVIOUS
  <1> QED
    BY <1>1, <1>2, <1>3, <1>4, <1>5, <1>6, <1>7, WaitSweeps, ProcessStepSweeps
       DEF Next, Act, InitLoop

(* Reaping is complete: whenever init is about to wait, every zombie has   *)
(* its byte in the socket, and no process that a non-oneshot service       *)
(* forked into its group outlives that instance of the service.            *)
THEOREM ReapingComplete == Spec => []NothingLeftBehind
  <1>1. IInv /\ SweepInv => NothingLeftBehind
    <2> SUFFICES ASSUME IInv, SweepInv PROVE NothingLeftBehind
      OBVIOUS
    <2>1. NoForgottenZombie
      BY DEF SweepInv, ZombiesSignalled, NoForgottenZombie
    <2>2. NoOverlap
      BY DEF IInv, ChildrenTracked, Tracked, SweepInv, OrphansOfOneshots, NoOverlap
    <2> QED
      BY <2>1, <2>2 DEF NothingLeftBehind
  <1> QED
    BY <1>1, InitEstablishes, NextKeeps, InitSweep, NextSweeps, PTL DEF Spec

-----------------------------------------------------------------------------
(* A stopped service has no restart pending, and the one that is still     *)
(* dying is marked so that its exit schedules none.                        *)
Obeys(r) ==
    r.req = "stop" => /\ "RESTARTING" \notin r.flags
                      /\ r.pid # NoPid => r.flags \intersect {"DISABLED", "RESET"} # {}

StopHeld == \A s \in Svc : Obeys(sv[s])

(* A fork that this step makes was asked for after the last stop.          *)
ForkAsked ==
    \A s \in Svc : sv[s].pid = NoPid /\ sv'[s].pid # NoPid => sv'[s].req # "stop"

LEMMA InitStopHeld == Init => StopHeld
  <1> SUFFICES ASSUME Init, NEW s \in Svc
               PROVE  "RESTARTING" \notin sv[s].flags /\ sv[s].pid = NoPid
    BY DEF StopHeld, Obeys
  <1> DEFINE r == [flags |-> IF s \in RcDisabled THEN {"DISABLED"} ELSE {},
                   pid |-> NoPid, age |-> 0, crashAge |-> 0, nrCrashed |-> 0,
                   state |-> "", req |-> "stop"]
  <1>1. sv[s] = r
    BY Zenon DEF Init
  <1>2. r.pid = NoPid /\ "RESTARTING" \notin r.flags
    OBVIOUS
  <1> QED
    BY <1>1, <1>2, Zenon

(* service_restart makes a record of the fields it was given.              *)
LEMMA RestartDomain ==
    ASSUME NEW r, NEW s, NEW o
    PROVE  DOMAIN service_restart(r, s, o) = DOMAIN r
  BY DEF service_restart, service_start, service_stop_or_reset

(* service_start and a stop leave the request alone.                       *)
LEMMA StartKeepsRequest ==
    ASSUME NEW r \in Service, NEW s, NEW d \in BOOLEAN, NEW o
    PROVE  /\ service_start(r, s, d, o).req = r.req
           /\ DOMAIN service_start(r, s, d, o) = DOMAIN r
  <1> DEFINE c == [r EXCEPT
                     !.flags = @ \ {"DISABLED", "RESTARTING", "RESET", "RESTART"},
                     !.age = up]
  <1>1. c.req = r.req /\ DOMAIN c = DOMAIN r /\ "req" \in DOMAIN r
    BY DEF Service
  <1>2. \/ service_start(r, s, d, o) = c
        \/ service_start(r, s, d, o) = [c EXCEPT !.flags = @ \union {"DISABLED"}]
        \/ service_start(r, s, d, o) = [c EXCEPT !.pid = NoPid]
        \/ service_start(r, s, d, o) =
             [c EXCEPT !.flags = @ \union {"RUNNING"}, !.pid = o, !.age = 0,
                       !.state = "running"]
    BY DEF service_start
  <1> QED
    BY ZenonT(30), <1>1, <1>2

LEMMA StopKeepsRequest ==
    ASSUME NEW r \in Service, NEW s, NEW how
    PROVE  /\ service_stop_or_reset(r, s, how).req = r.req
           /\ DOMAIN service_stop_or_reset(r, s, how) = DOMAIN r
  BY DEF service_stop_or_reset, Service

LEMMA RequestObeys ==
    ASSUME IInv, StopHeld, Request
    PROVE  StopHeld' /\ ForkAsked
  <1> SUFFICES ASSUME NEW s \in Svc
               PROVE  /\ Obeys(sv'[s])
                      /\ sv[s].pid = NoPid /\ sv'[s].pid # NoPid => sv'[s].req # "stop"
    BY DEF StopHeld, Obeys, ForkAsked
  <1>0. sv[s] \in Service /\ Obeys(sv[s])
    BY DEF IInv, TypeOK, StopHeld
  <1>1. CASE sv'[s] = sv[s]
    BY <1>0, <1>1
  <1>2. CASE sv'[s].req # "stop"
    BY <1>2 DEF Obeys
  <1>3. ASSUME NEW S \in SUBSET Svc, NEW d \in BOOLEAN, StartAll(S, d)
        PROVE  sv'[s] = sv[s] \/ sv'[s].req # "stop"
    <2>1. CASE s \in S
      <3>1. PICK o : sv'[s] = [service_start(sv[s], s, d, o) EXCEPT !.req = "start"]
        BY <1>3, <2>1 DEF StartAll
      <3>2. "req" \in DOMAIN service_start(sv[s], s, d, o)
        <4>1. DOMAIN service_start(sv[s], s, d, o) = DOMAIN sv[s]
          BY <1>0, StartKeepsRequest
        <4>2. "req" \in DOMAIN sv[s]
          BY <1>0 DEF Service
        <4> QED BY <4>1, <4>2, Zenon
      <3> QED
        BY <3>1, <3>2
    <2>2. CASE s \notin S
      BY <1>3, <2>2 DEF StartAll
    <2> QED
      BY <2>1, <2>2
  <1>4. ASSUME NEW S \in SUBSET Svc, RestartAll(S, sv, proc)
        PROVE  sv'[s] = sv[s] \/ sv'[s].req # "stop"
    <2>1. CASE s \in S
      <3>1. PICK o : sv'[s] = [service_restart(sv[s], s, o) EXCEPT !.req = "restart"]
        BY <1>4, <2>1 DEF RestartAll
      <3>2. "req" \in DOMAIN service_restart(sv[s], s, o)
        BY <1>0, RestartDomain DEF Service
      <3> QED
        BY <3>1, <3>2
    <2>2. CASE s \notin S
      BY <1>4, <2>2 DEF RestartAll
    <2> QED
      BY <2>1, <2>2
  <1>5. ASSUME NEW S \in SUBSET Svc, NEW how \in {"DISABLED", "RESET"}, StopAll(S, how)
        PROVE  Obeys(sv'[s]) /\ sv'[s].pid = sv[s].pid
    <2>1. CASE s \in S
      <3> DEFINE r == service_stop_or_reset(sv[s], s, how)
      <3>1. sv'[s] = [r EXCEPT !.req = "stop"]
        BY <1>5, <2>1 DEF StopAll
      <3>2. /\ r.pid = sv[s].pid /\ "RESTARTING" \notin r.flags
            /\ r.flags \intersect {"DISABLED", "RESET"} # {}
        BY <1>0 DEF service_stop_or_reset, Service
      <3>3. DOMAIN r = DOMAIN sv[s]
        BY <1>0, StopKeepsRequest
      <3> HIDE DEF r
      <3>4. sv'[s].pid = r.pid /\ sv'[s].flags = r.flags
        BY <1>0, <3>1, <3>3 DEF Service
      <3> QED
        BY <3>2, <3>4 DEF Obeys
    <2>2. CASE s \notin S
      BY <1>0, <1>5, <2>2 DEF StopAll
    <2> QED
      BY <2>1, <2>2
  <1>6. CASE UNCHANGED <<sv, proc>>
    BY <1>1, <1>6
  <1> QED
    BY <1>1, <1>2, <1>3, <1>4, <1>5, <1>6 DEF Request

(* The exit of a service that was stopped schedules no restart: its flags  *)
(* make wait_for_one_process leave early.                                  *)
LEMMA WaitObeys ==
    ASSUME IInv, StopHeld, NEW p \in Pid, wait_for_one_process(p)
    PROVE  StopHeld' /\ ForkAsked
  <1> DEFINE s == proc[p].svc
             e == Exited(sv[s], s)
             c == Crashed(e, s)
             again == [c EXCEPT !.flags = (@ \ {"RESTART"}) \union {"RESTARTING"},
                                !.state = "restarting"]
  <1>1. /\ sv \in [Svc -> Service] /\ s \in Svc /\ sv[s].pid = p /\ p # NoPid
        /\ \A t \in Svc : Obeys(sv[t])
    BY ZenonT(30), PidsArePositive DEF wait_for_one_process, IInv, TypeOK, ChildrenTracked,
                           Tracked, StopHeld
  <1>2. sv[s] \in Service
    BY <1>1
  <1>3. /\ DOMAIN e = DOMAIN sv[s] /\ e.pid = NoPid /\ e.req = sv[s].req
        /\ "RESTARTING" \in e.flags => "RESTARTING" \in sv[s].flags
        /\ sv[s].flags \intersect {"DISABLED", "RESET"} \subseteq e.flags
    BY <1>2 DEF Exited, Service
  <1> HIDE DEF e
  <1>4. /\ DOMAIN c = DOMAIN sv[s] /\ c.pid = NoPid /\ c.req = sv[s].req
        /\ c.flags = e.flags
    BY <1>2, <1>3 DEF Crashed, Service
  <1> HIDE DEF c
  <1>5. ASSUME NEW r, r.pid = NoPid, r.req = sv[s].req,
               r.req = "stop" => "RESTARTING" \notin r.flags
        PROVE  Obeys(r)
    BY <1>5 DEF Obeys
  <1>6. CASE /\ e.flags \intersect {"DISABLED", "RESET"} # {}
             /\ sv' = [sv EXCEPT ![s] = [e EXCEPT !.state = "stopped"]]
    <2>1. /\ [e EXCEPT !.state = "stopped"].pid = NoPid
          /\ [e EXCEPT !.state = "stopped"].req = sv[s].req
          /\ [e EXCEPT !.state = "stopped"].flags = e.flags
      BY <1>2, <1>3 DEF Service
    <2>2. Obeys([e EXCEPT !.state = "stopped"])
      BY <1>1, <1>3, <1>5, <2>1 DEF Obeys
    <2> QED
      BY <1>1, <1>6, <2>1, <2>2 DEF StopHeld, Obeys, ForkAsked
  <1>7. CASE sv' = [sv EXCEPT ![s] = c]
    <2>1. Obeys(c)
      BY Zenon, <1>1, <1>3, <1>4, <1>5 DEF Obeys
    <2> QED
      BY <1>1, <1>4, <1>7, <2>1 DEF StopHeld, Obeys, ForkAsked
  <1>8. CASE /\ e.flags \intersect {"DISABLED", "RESET"} = {}
             /\ RestartAll(OnRestart[s], [sv EXCEPT ![s] = again], Reaped(p, s))
    <2> DEFINE v0 == [sv EXCEPT ![s] = again]
    <2>1. sv[s].req # "stop"
      BY <1>1, <1>3, <1>8 DEF Obeys
    <2>2. DOMAIN again = DOMAIN sv[s] /\ again.pid = NoPid /\ again.req = sv[s].req
      BY <1>2, <1>4 DEF Service
    <2> HIDE DEF again
    <2>3. Obeys(again)
      BY <2>1, <2>2 DEF Obeys
    <2>4. ASSUME NEW t \in Svc
          PROVE  /\ Obeys(v0[t]) /\ v0[t].pid \in {NoPid, sv[t].pid}
                 /\ DOMAIN v0[t] = DOMAIN sv[t]
      BY <1>1, <2>2, <2>3
    <2>5. ASSUME NEW t \in Svc
          PROVE  sv'[t] = v0[t] \/ sv'[t].req = "restart"
      <3>1. CASE t \in OnRestart[s]
        <4>1. PICK o : sv'[t] = [service_restart(v0[t], t, o) EXCEPT !.req = "restart"]
          BY <1>8, <3>1 DEF RestartAll
        <4>2. "req" \in DOMAIN service_restart(v0[t], t, o)
          <5>1. DOMAIN service_restart(v0[t], t, o) = DOMAIN sv[t]
            BY <2>4, RestartDomain
          <5>2. "req" \in DOMAIN sv[t]
            BY <1>1 DEF Service
          <5> QED BY <5>1, <5>2, Zenon
        <4> QED
          BY <4>1, <4>2
      <3>2. CASE t \notin OnRestart[s]
        BY <1>8, <3>2 DEF RestartAll
      <3> QED
        BY <3>1, <3>2
    <2> HIDE DEF v0
    <2> QED
      BY <2>4, <2>5 DEF StopHeld, Obeys, ForkAsked
  <1> QED
    BY ZenonT(30), <1>6, <1>7, <1>8 DEF wait_for_one_process, e, c

(* restart_processes starts a service only for a restart that is pending,  *)
(* and a stop has cancelled it.                                            *)
LEMMA RestartProcessesObeys ==
    ASSUME IInv, StopHeld, restart_processes
    PROVE  StopHeld' /\ ForkAsked
  <1> SUFFICES ASSUME NEW s \in Svc
               PROVE  Obeys(sv'[s]) /\ (sv'[s] = sv[s] \/ sv'[s].req # "stop")
    BY DEF StopHeld, Obeys, ForkAsked
  <1>0. sv[s] \in Service /\ Obeys(sv[s])
    BY DEF IInv, TypeOK, StopHeld
  <1>1. CASE s \in Due
    <2>1. PICK o : sv'[s] = service_start(sv[s], s, FALSE, o)
      BY Zenon, <1>1 DEF restart_processes
    <2>2. sv[s].req # "stop"
      BY <1>0, <1>1 DEF Due, Restarting, Obeys
    <2>3. service_start(sv[s], s, FALSE, o).req = sv[s].req
      BY ZenonT(30), <1>0, StartKeepsRequest
    <2>4. sv'[s].req # "stop"
      BY ZenonT(30), <2>1, <2>2, <2>3
    <2> QED
      BY <2>4 DEF Obeys
  <1>2. CASE s \notin Due
    <2>1. sv'[s] = sv[s]
      BY <1>2 DEF restart_processes
    <2> QED
      BY <1>0, <2>1
  <1> QED
    BY <1>1, <1>2

LEMMA NextObeys ==
    IInv /\ StopHeld /\ [Next]_vars => StopHeld' /\ ForkAsked
  <1> SUFFICES ASSUME IInv, StopHeld, [Next]_vars PROVE StopHeld' /\ ForkAsked
    OBVIOUS
  <1>1. ASSUME sv' = sv PROVE StopHeld' /\ ForkAsked
    BY <1>1 DEF StopHeld, Obeys, ForkAsked
  <1>2. CASE execute_one_command \/ handle_keychord \/ handle_control_message
    BY <1>2, HandlersRequest, RequestObeys
  <1>3. CASE Tick
    <2>1. ASSUME NEW s \in Svc
          PROVE  /\ sv'[s].pid = sv[s].pid /\ sv'[s].req = sv[s].req
                 /\ sv'[s].flags = sv[s].flags
      <3>1. sv[s] \in Service
        BY DEF IInv, TypeOK
      <3>2. sv'[s] = [sv[s] EXCEPT !.age = Older(@, RestartDelay),
                                   !.crashAge = Older(@, CrashWindow + 1)]
        BY ZenonT(30), <1>3 DEF Tick
      <3> QED
        BY <3>1, <3>2 DEF Service
    <2> QED
      BY <2>1 DEF StopHeld, Obeys, ForkAsked
  <1>4. CASE UNCHANGED vars \/ signal_init \/ handle_signal \/ DispatchDone \/ ReapDone
    <2>1. sv' = sv
      BY <1>4 DEF vars, signal_init, handle_signal, DispatchDone, ReapDone
    <2> QED
      BY <1>1, <2>1
  <1>5. ASSUME NEW requests \in SUBSET RequestFds, Poll(requests)
        PROVE  sv' = sv
    BY <1>5 DEF Poll
  <1>6. ASSUME NEW p \in Pid,
               \/ SetPgid(p) \/ Spawn(p) \/ KidsExit(p)
               \/ Exit(p, {"forked", "grouped", "killed"})
        PROVE  sv' = sv
    BY <1>6 DEF SetPgid, Spawn, KidsExit, Exit, Become
  <1> QED
    BY <1>1, <1>2, <1>3, <1>4, <1>5, <1>6, WaitObeys, RestartProcessesObeys
       DEF Next, Act, InitLoop

(* A stop holds: once a service was stopped or reset, also one that was    *)
(* dying or whose restart was pending, no step forks a process for it but  *)
(* one that a later start or restart asked for.                            *)
THEOREM StopHolds == Spec => StoppedStaysStopped
  <1>1. IInv /\ StopHeld /\ [Next]_vars =>
          [\A s \in Svc : sv[s].pid = NoPid /\ sv'[s].pid # NoPid =>
             sv'[s].req # "stop"]_vars
    BY NextObeys DEF ForkAsked
  <1>2. IInv /\ StopHeld /\ [Next]_vars => StopHeld'
    BY NextObeys
  <1> QED
    BY <1>1, <1>2, InitEstablishes, NextKeeps, InitStopHeld, PTL
       DEF Spec, StoppedStaysStopped

-----------------------------------------------------------------------------
(* Critical services: the count and the window of wait_for_one_process     *)
(* never claim more than the history of the crashes shows.                 *)

Ages == 0..(CrashWindow + 1)

(* The last k of the crashes cs are at most a seconds old.                 *)
LastWithin(cs, k, a) ==
    /\ k <= Len(cs)
    /\ \A i \in 1..Len(cs) : i > Len(cs) - k => cs[i] <= a

CrashesTyped == crashes \in [Critical -> Seq(Ages)]

(* What nr_crashed counts are the last crashes, and none of them is older  *)
(* than time_crashed.                                                      *)
Supported(cs, r) ==
    Len(cs) <= Burst /\ LastWithin(cs, r.nrCrashed, r.crashAge)

CountSupported ==
    ~rebooted => \A s \in Critical : Supported(crashes[s], sv[s])

CInv == IInv /\ CrashesTyped /\ CountSupported /\ RecoveryOnlyAfterBurst

-----------------------------------------------------------------------------
(* One more crash counted, in the same window or as the first of a new one.*)
LEMMA CountOne ==
    ASSUME NEW cs \in Seq(Ages), Len(cs) <= Burst,
           NEW k \in 0..CrashThreshold, NEW a \in Ages, LastWithin(cs, k, a)
    PROVE  LET ds == Latest(Append(cs, 0))
           IN  /\ ds \in Seq(Ages) /\ Len(ds) <= Burst
               /\ LastWithin(ds, k + 1, a) /\ LastWithin(ds, 1, 0)
  <1> DEFINE es == Append(cs, 0)
             ds == Latest(es)
  <1>0. CrashWindow \in Nat /\ CrashThreshold \in Nat /\ 0 \in Ages
    BY TimeConstants DEF Ages
  <1>1. /\ es \in Seq(Ages) /\ Len(es) = Len(cs) + 1 /\ Len(cs) \in Nat
        /\ \A i \in 1..Len(cs) : es[i] = cs[i]
        /\ es[Len(cs) + 1] = 0
    BY <1>0, AppendProperties, LenProperties
  <1> HIDE DEF es
  <1>2. \A i \in 1..Len(es) : es[i] \in Ages /\ (i > Len(es) - (k + 1) => es[i] <= a)
    <2> SUFFICES ASSUME NEW i \in 1..Len(es)
                 PROVE  es[i] \in Ages /\ (i > Len(es) - (k + 1) => es[i] <= a)
      OBVIOUS
    <2>1. es[i] \in Ages
      BY <1>1, ElementOfSeq
    <2>2. CASE i = Len(cs) + 1
      BY <1>0, <1>1, <2>1, <2>2 DEF Ages
    <2>3. CASE i # Len(cs) + 1
      <3>1. i \in 1..Len(cs) /\ es[i] = cs[i]
        BY <1>1, <2>3
      <3> QED
        BY <1>1, <2>1, <3>1 DEF LastWithin
    <2> QED
      BY <2>2, <2>3
  <1>3. k + 1 <= Len(es) /\ k + 1 <= Burst /\ Burst \in Nat
    BY <1>0, <1>1 DEF LastWithin, Burst
  <1>4. CASE Len(es) > Burst
    <2>1. ds = Tail(es) /\ Len(es) = Burst + 1
      BY <1>1, <1>3, <1>4 DEF Latest
    <2>2. es # <<>>
      BY <1>1, <1>3, <2>1, LenProperties
    <2>3. /\ ds \in Seq(Ages) /\ Len(ds) = Len(es) - 1
          /\ \A i \in 1..Len(ds) : ds[i] = es[i + 1]
      BY <1>1, <2>1, <2>2, HeadTailProperties
    <2> HIDE DEF ds
    <2>4. \A i \in 1..Len(ds) : i + 1 \in 1..Len(es) /\ ds[i] = es[i + 1]
      BY <1>1, <2>3
    <2>5. LastWithin(ds, k + 1, a)
      <3>1. ASSUME NEW i \in 1..Len(ds), i > Len(ds) - (k + 1)
            PROVE  ds[i] <= a
        <4>1. i + 1 \in 1..Len(es) /\ i + 1 > Len(es) - (k + 1)
          BY <1>1, <2>3, <2>4, <3>1
        <4> QED
          BY <1>2, <2>4, <4>1
      <3> QED
        BY <1>3, <2>1, <2>3, <3>1 DEF LastWithin
    <2>6. LastWithin(ds, 1, 0)
      BY <1>0, <1>1, <1>3, <2>1, <2>3, <2>4 DEF LastWithin
    <2> QED
      BY <1>3, <2>1, <2>3, <2>5, <2>6 DEF ds, es
  <1>5. CASE ~(Len(es) > Burst)
    <2>1. ds = es
      BY <1>5 DEF Latest
    <2> HIDE DEF ds
    <2>2. LastWithin(ds, k + 1, a)
      BY <1>1, <1>2, <1>3, <2>1 DEF LastWithin
    <2>3. LastWithin(ds, 1, 0)
      BY <1>1, <1>3, <2>1 DEF LastWithin
    <2> QED
      BY <1>1, <1>3, <1>5, <2>1, <2>2, <2>3 DEF ds, es
  <1> QED
    BY <1>4, <1>5

(* From services v0 to v1 nothing was counted and no process taken away.   *)
Uncounted(v0, v1) ==
    \A t \in Svc : /\ v1[t].nrCrashed = v0[t].nrCrashed
                   /\ v1[t].crashAge = v0[t].crashAge
                   /\ v0[t].pid # NoPid => v1[t].pid = v0[t].pid

LEMMA StartCountsNothing ==
    ASSUME TypeOK, NEW r, GoodService(r), NEW s, NEW d \in BOOLEAN, NEW o
    PROVE  /\ service_start(r, s, d, o).nrCrashed = r.nrCrashed
           /\ service_start(r, s, d, o).crashAge = r.crashAge
           /\ r.pid # NoPid => service_start(r, s, d, o).pid = r.pid
  <1> DEFINE c == [r EXCEPT
                     !.flags = @ \ {"DISABLED", "RESTARTING", "RESET", "RESTART"},
                     !.age = up]
  <1>1. /\ c.nrCrashed = r.nrCrashed /\ c.crashAge = r.crashAge /\ c.pid = r.pid
        /\ c \in Service
    BY ZenonT(30) DEF GoodService, Service, TypeOK, Flags
  <1>2. r.pid # NoPid => "RUNNING" \in r.flags
    BY DEF GoodService
  <1>3. \/ service_start(r, s, d, o) = c
        \/ r.pid = NoPid /\
             \/ service_start(r, s, d, o) = [c EXCEPT !.flags = @ \union {"DISABLED"}]
             \/ service_start(r, s, d, o) = [c EXCEPT !.pid = NoPid]
             \/ service_start(r, s, d, o) =
                  [c EXCEPT !.flags = @ \union {"RUNNING"}, !.pid = o, !.age = 0,
                            !.state = "running"]
    BY <1>2 DEF service_start
  <1> HIDE DEF c
  <1>4. /\ [c EXCEPT !.flags = @ \union {"DISABLED"}].nrCrashed = c.nrCrashed
        /\ [c EXCEPT !.flags = @ \union {"DISABLED"}].crashAge = c.crashAge
        /\ [c EXCEPT !.pid = NoPid].nrCrashed = c.nrCrashed
        /\ [c EXCEPT !.pid = NoPid].crashAge = c.crashAge
    BY <1>1 DEF Service
  <1>5. /\ [c EXCEPT !.flags = @ \union {"RUNNING"}, !.pid = o, !.age = 0,
                     !.state = "running"].nrCrashed = c.nrCrashed
        /\ [c EXCEPT !.flags = @ \union {"RUNNING"}, !.pid = o, !.age = 0,
                     !.state = "running"].crashAge = c.crashAge
    BY <1>1 DEF Service
  <1> QED
    BY <1>1, <1>3, <1>4, <1>5, Zenon

LEMMA StopCountsNothing ==
    ASSUME NEW r, GoodService(r), NEW s, NEW how
    PROVE  /\ service_stop_or_reset(r, s, how).nrCrashed = r.nrCrashed
           /\ service_stop_or_reset(r, s, how).crashAge = r.crashAge
           /\ service_stop_or_reset(r, s, how).pid = r.pid
  BY DEF service_stop_or_reset, GoodService, Service

LEMMA RestartCountsNothing ==
    ASSUME TypeOK, NEW r, GoodService(r), NEW s, NEW o
    PROVE  /\ service_restart(r, s, o).nrCrashed = r.nrCrashed
           /\ service_restart(r, s, o).crashAge = r.crashAge
           /\ r.pid # NoPid => service_restart(r, s, o).pid = r.pid
  <1>1. CASE "RUNNING" \in r.flags
    BY <1>1, StopCountsNothing DEF service_restart
  <1>2. CASE "RUNNING" \notin r.flags /\ "RESTARTING" \in r.flags
    BY <1>2 DEF service_restart
  <1>3. CASE "RUNNING" \notin r.flags /\ "RESTARTING" \notin r.flags
    <2>1. service_restart(r, s, o) = service_start(r, s, FALSE, o)
      BY <1>3 DEF service_restart
    <2>2. ASSUME NEW d \in BOOLEAN
          PROVE  /\ service_start(r, s, d, o).nrCrashed = r.nrCrashed
                 /\ service_start(r, s, d, o).crashAge = r.crashAge
                 /\ r.pid # NoPid => service_start(r, s, d, o).pid = r.pid
      BY StartCountsNothing
    <2> QED
      BY ZenonT(30), <2>1, <2>2
  <1> QED
    BY <1>1, <1>2, <1>3

(* The requests and restart_processes count nothing.                       *)
LEMMA RestartAllCountsNothing ==
    ASSUME TypeOK, NEW v0, \A t \in Svc : GoodService(v0[t]),
           NEW S \in SUBSET Svc, NEW q0, RestartAll(S, v0, q0)
    PROVE  Uncounted(v0, sv')
  <1> SUFFICES ASSUME NEW t \in Svc
               PROVE  /\ sv'[t].nrCrashed = v0[t].nrCrashed
                      /\ sv'[t].crashAge = v0[t].crashAge
                      /\ v0[t].pid # NoPid => sv'[t].pid = v0[t].pid
    BY DEF Uncounted
  <1>1. CASE t \in S
    <2>1. PICK o \in Outcomes(t) :
            sv'[t] = [service_restart(v0[t], t, o) EXCEPT !.req = "restart"]
      BY <1>1 DEF RestartAll, Forks
    <2> DEFINE r == service_restart(v0[t], t, o)
    <2>2. r \in Service
      BY <2>1, RestartOne DEF Forked, GoodService
    <2>3. /\ r.nrCrashed = v0[t].nrCrashed /\ r.crashAge = v0[t].crashAge
          /\ v0[t].pid # NoPid => r.pid = v0[t].pid
      BY RestartCountsNothing
    <2> HIDE DEF r
    <2>4. /\ sv'[t].nrCrashed = r.nrCrashed /\ sv'[t].crashAge = r.crashAge
          /\ sv'[t].pid = r.pid
      BY <2>1, <2>2 DEF r, Service
    <2> QED
      BY <2>3, <2>4
  <1>2. CASE t \notin S
    BY <1>2 DEF RestartAll
  <1> QED
    BY <1>1, <1>2

LEMMA StartAllCountsNothing ==
    ASSUME TypeOK, \A t \in Svc : GoodService(sv[t]),
           NEW S \in SUBSET Svc, NEW d \in BOOLEAN, StartAll(S, d)
    PROVE  Uncounted(sv, sv')
  <1> SUFFICES ASSUME NEW t \in Svc
               PROVE  /\ sv'[t].nrCrashed = sv[t].nrCrashed
                      /\ sv'[t].crashAge = sv[t].crashAge
                      /\ sv[t].pid # NoPid => sv'[t].pid = sv[t].pid
    BY DEF Uncounted
  <1>1. CASE t \in S
    <2>1. PICK o \in Outcomes(t) :
            sv'[t] = [service_start(sv[t], t, d, o) EXCEPT !.req = "start"]
      BY <1>1 DEF StartAll, Forks
    <2> DEFINE r == service_start(sv[t], t, d, o)
    <2>2. r \in Service
      BY <2>1, StartOne DEF Forked, GoodService
    <2>3. /\ r.nrCrashed = sv[t].nrCrashed /\ r.crashAge = sv[t].crashAge
          /\ sv[t].pid # NoPid => r.pid = sv[t].pid
      BY StartCountsNothing
    <2> HIDE DEF r
    <2>4. /\ sv'[t].nrCrashed = r.nrCrashed /\ sv'[t].crashAge = r.crashAge
          /\ sv'[t].pid = r.pid
      BY <2>1, <2>2 DEF r, Service
    <2> QED
      BY <2>3, <2>4
  <1>2. CASE t \notin S
    BY <1>2 DEF StartAll
  <1> QED
    BY <1>1, <1>2

LEMMA RequestCountsNothing ==
    ASSUME IInv, ~rebooted, Request
    PROVE  Uncounted(sv, sv')
  <1>0. TypeOK /\ \A t \in Svc : GoodService(sv[t])
    BY AllGood DEF IInv
  <1>1. CASE UNCHANGED <<sv, proc>>
    BY <1>1 DEF Uncounted
  <1>2. ASSUME NEW S \in SUBSET Svc, NEW how \in {"DISABLED", "RESET"}, StopAll(S, how)
        PROVE  Uncounted(sv, sv')
    <2> SUFFICES ASSUME NEW t \in Svc
                 PROVE  /\ sv'[t].nrCrashed = sv[t].nrCrashed
                        /\ sv'[t].crashAge = sv[t].crashAge
                        /\ sv[t].pid # NoPid => sv'[t].pid = sv[t].pid
      BY DEF Uncounted
    <2>1. CASE t \in S
      <3> DEFINE r == service_stop_or_reset(sv[t], t, how)
      <3>1. sv'[t] = [r EXCEPT !.req = "stop"]
        BY <1>2, <2>1 DEF StopAll
      <3>2. r \in Service
        BY <1>0, StopOne DEF GoodService
      <3>3. /\ r.nrCrashed = sv[t].nrCrashed /\ r.crashAge = sv[t].crashAge
            /\ r.pid = sv[t].pid
        BY <1>0, StopCountsNothing
      <3> HIDE DEF r
      <3> QED
        BY <3>1, <3>2, <3>3 DEF Service
    <2>2. CASE t \notin S
      BY <1>2, <2>2 DEF StopAll
    <2> QED
      BY <2>1, <2>2
  <1> QED
    BY <1>0, <1>1, <1>2, StartAllCountsNothing, RestartAllCountsNothing DEF Request

LEMMA RestartProcessesCountsNothing ==
    ASSUME IInv, restart_processes
    PROVE  Uncounted(sv, sv')
  <1>0. TypeOK /\ \A t \in Svc : GoodService(sv[t])
    BY AllGood DEF IInv, restart_processes
  <1> SUFFICES ASSUME NEW t \in Svc
               PROVE  /\ sv'[t].nrCrashed = sv[t].nrCrashed
                      /\ sv'[t].crashAge = sv[t].crashAge
                      /\ sv[t].pid # NoPid => sv'[t].pid = sv[t].pid
    BY DEF Uncounted
  <1>1. CASE t \in Due
    <2>1. PICK o : sv'[t] = service_start(sv[t], t, FALSE, o)
      BY Zenon, <1>1 DEF restart_processes
    <2>2. ASSUME NEW d \in BOOLEAN
          PROVE  /\ service_start(sv[t], t, d, o).nrCrashed = sv[t].nrCrashed
                 /\ service_start(sv[t], t, d, o).crashAge = sv[t].crashAge
                 /\ sv[t].pid # NoPid => service_start(sv[t], t, d, o).pid = sv[t].pid
      BY <1>0, StartCountsNothing
    <2> QED
      BY Zenon, <2>1, <2>2
  <1>2. CASE t \notin Due
    BY <1>2 DEF restart_processes
  <1> QED
    BY <1>1, <1>2

-----------------------------------------------------------------------------
(* A crash that is counted: the count stays supported, and when it passes  *)
(* the threshold the history is a burst.                                   *)
LEMMA CrashSupported ==
    ASSUME NEW s \in Critical, NEW e \in Service, "RESTART" \notin e.flags,
           e.nrCrashed <= CrashThreshold,
           NEW cs \in Seq(Ages), Supported(cs, e)
    PROVE  LET c == Crashed(e, s)
               ds == Latest(Append(cs, 0))
           IN  /\ ds \in Seq(Ages) /\ Supported(ds, c)
               /\ c.nrCrashed > CrashThreshold =>
                    Len(ds) = Burst /\ Head(ds) <= CrashWindow
  <1> DEFINE c == Crashed(e, s)
             ds == Latest(Append(cs, 0))
  <1>0. /\ e.nrCrashed \in 0..CrashThreshold /\ e.crashAge \in Ages
        /\ CrashWindow \in Nat /\ CrashThreshold \in Nat /\ Burst = CrashThreshold + 1
    BY TimeConstants DEF Service, Ages, Burst
  <1>1. /\ ds \in Seq(Ages) /\ Len(ds) <= Burst /\ Len(ds) \in Nat
        /\ LastWithin(ds, e.nrCrashed + 1, e.crashAge) /\ LastWithin(ds, 1, 0)
    BY <1>0, CountOne, LenProperties DEF Supported
  <1> HIDE DEF ds
  <1>2. ASSUME NEW k \in Nat, NEW a \in 0..CrashWindow, LastWithin(ds, k, a),
               k > CrashThreshold
        PROVE  Len(ds) = Burst /\ Head(ds) <= CrashWindow
    <2>1. Len(ds) = Burst /\ k = Len(ds) /\ 1 \in 1..Len(ds)
      BY <1>0, <1>1, <1>2 DEF LastWithin
    <2>2. ds[1] <= a /\ ds[1] \in Ages
      BY <1>1, <1>2, <2>1, ElementOfSeq DEF LastWithin
    <2>3. Head(ds) = ds[1]
      BY <1>1, <2>1, HeadTailProperties, EmptySeq
    <2> QED
      BY <1>0, <2>1, <2>2, <2>3 DEF Ages
  <1>3. CASE e.crashAge <= CrashWindow
    <2>1. c = [e EXCEPT !.nrCrashed = @ + 1]
      BY <1>3 DEF Crashed
    <2>2. c.nrCrashed = e.nrCrashed + 1 /\ c.crashAge = e.crashAge
      BY <2>1 DEF Service
    <2> HIDE DEF c
    <2>3. c.nrCrashed \in Nat /\ c.crashAge \in 0..CrashWindow
      BY <1>0, <1>3, <2>2 DEF Ages
    <2>4. LastWithin(ds, c.nrCrashed, c.crashAge)
      BY <1>1, <2>2
    <2> QED
      BY <1>1, <1>2, <2>3, <2>4 DEF Supported, c, ds
  <1>4. CASE ~(e.crashAge <= CrashWindow)
    <2>1. c = [e EXCEPT !.crashAge = 0, !.nrCrashed = 1]
      BY <1>4 DEF Crashed
    <2>2. c.nrCrashed = 1 /\ c.crashAge = 0
      BY <2>1 DEF Service
    <2> HIDE DEF c
    <2>3. 1 \in Nat /\ 0 \in 0..CrashWindow
      BY <1>0
    <2> QED
      BY <1>1, <1>2, <2>2, <2>3 DEF Supported, c, ds
  <1> QED
    BY <1>3, <1>4

(* The part of a step of CNext that keeps the history.                     *)
Recorded ==
    crashes' = [s \in Critical |->
                  IF Crash(s) THEN Latest(Append(crashes[s], 0)) ELSE crashes[s]]

LEMMA QuietStep ==
    ASSUME CInv, IInv', Uncounted(sv, sv'), rebooted' = rebooted, Recorded
    PROVE  CInv'
  <1>1. \A s \in Critical : ~Crash(s)
    BY ServiceSets DEF Uncounted, Crash
  <1>2. crashes \in [Critical -> Seq(Ages)]
    BY DEF CInv, CrashesTyped
  <1>3. crashes' = crashes
    BY <1>1, <1>2 DEF Recorded
  <1>4. CountSupported'
    BY <1>3, ServiceSets DEF CInv, CountSupported, Supported, Uncounted
  <1>5. RecoveryOnlyAfterBurst'
    BY <1>3 DEF CInv, RecoveryOnlyAfterBurst, Bursting
  <1> QED
    BY <1>2, <1>3, <1>4, <1>5 DEF CInv, CrashesTyped

(* The reaping of a process of s: what it counts is what Crash records.    *)
LEMMA WaitStep ==
    ASSUME CInv, IInv', NEW p \in Pid, wait_for_one_process(p), Recorded
    PROVE  CInv'
  <1> DEFINE s == proc[p].svc
             e == Exited(sv[s], s)
             c == Crashed(e, s)
             x == [c EXCEPT !.flags = (@ \ {"RESTART"}) \union {"RESTARTING"},
                            !.state = "restarting"]
             ds(t) == Latest(Append(crashes[t], 0))
  <1>1. /\ ~rebooted /\ proc[p].st = "zombie" /\ TypeOK /\ ChildrenTracked
        /\ sv \in [Svc -> Service] /\ crashes \in [Critical -> Seq(Ages)]
        /\ \A t \in Critical : Supported(crashes[t], sv[t])
    BY DEF wait_for_one_process, CInv, IInv, TypeOK, CrashesTyped, CountSupported
  <1>2. s \in Svc /\ sv[s].pid # NoPid /\ \A t \in Svc : GoodService(sv[t])
    BY <1>1, AllGood, PidsArePositive DEF CInv, ChildrenTracked, Tracked
  <1>3. /\ e \in Service /\ e.pid = NoPid /\ "RUNNING" \notin e.flags
        /\ e.nrCrashed <= CrashThreshold
    BY <1>2, ExitedOne
  <1>4. /\ e.nrCrashed = sv[s].nrCrashed /\ e.crashAge = sv[s].crashAge
        /\ "RESTART" \in e.flags <=> "RESTART" \in sv[s].flags
        /\ sv[s].flags \intersect {"DISABLED", "RESET"} \subseteq e.flags
        /\ e.flags \intersect {"DISABLED", "RESET"} # {} =>
             \/ s \in Oneshot
             \/ sv[s].flags \intersect {"DISABLED", "RESET"} # {}
        /\ s \in Oneshot /\ "RESTART" \notin sv[s].flags => "DISABLED" \in e.flags
    BY <1>1, <1>2 DEF Exited, Service
  <1> HIDE DEF e
  <1>5. c \in Service /\ c.pid = NoPid /\ "RUNNING" \notin c.flags
    BY <1>2, <1>3, CrashedOne
  <1>6. s \in Critical => Supported(crashes[s], e)
    BY <1>1, <1>4 DEF Supported
  <1>7. ASSUME s \in Critical, "RESTART" \notin e.flags
        PROVE  /\ ds(s) \in Seq(Ages) /\ Supported(ds(s), c)
               /\ c.nrCrashed > CrashThreshold =>
                    Len(ds(s)) = Burst /\ Head(ds(s)) <= CrashWindow
    <2>1. crashes[s] \in Seq(Ages)
      BY <1>1, <1>7
    <2> QED
      BY <1>3, <1>6, <1>7, <2>1, CrashSupported
  <1>8. ASSUME s \notin Critical \/ "RESTART" \in e.flags
        PROVE  c = e
    BY <1>8 DEF Crashed
  <1> HIDE DEF c, ds
  (* For every other service the step is quiet.                            *)
  <1>9. ASSUME \A t \in Svc \ {s} : /\ sv'[t].nrCrashed = sv[t].nrCrashed
                                    /\ sv'[t].crashAge = sv[t].crashAge
                                    /\ sv[t].pid # NoPid => sv'[t].pid = sv[t].pid,
               s \in Critical => /\ crashes'[s] \in Seq(Ages)
                                 /\ ~rebooted' => Supported(crashes'[s], sv'[s]),
               rebooted' => s \in Critical /\ Len(crashes'[s]) = Burst
                              /\ Head(crashes'[s]) <= CrashWindow
        PROVE  CInv'
    <2>1. ASSUME NEW t \in Critical, t # s
          PROVE  crashes'[t] = crashes[t] /\ Supported(crashes'[t], sv'[t])
      <3>1. t \in Svc /\ ~Crash(t)
        BY <1>9, <2>1, ServiceSets DEF Crash
      <3>2. crashes'[t] = crashes[t]
        BY <3>1 DEF Recorded
      <3> QED
        BY ZenonT(30), <1>1, <1>9, <2>1, <3>1, <3>2 DEF Supported
    <2>2. CrashesTyped'
      <3>1. \A t \in Critical : crashes'[t] \in Seq(Ages)
        BY ZenonT(30), <1>1, <1>9, <2>1
      <3>2. crashes' = [t \in Critical |-> crashes'[t]]
        BY DEF Recorded
      <3> QED
        BY <3>1, <3>2 DEF CrashesTyped
    <2>3. CountSupported'
      BY <1>9, <2>1 DEF CountSupported
    <2>4. RecoveryOnlyAfterBurst'
      BY <1>9 DEF RecoveryOnlyAfterBurst, Bursting
    <2> QED
      BY <2>2, <2>3, <2>4 DEF CInv
  <1>10. CASE /\ e.flags \intersect {"DISABLED", "RESET"} # {}
              /\ sv' = [sv EXCEPT ![s] = [e EXCEPT !.state = "stopped"]]
              /\ UNCHANGED rebooted
    <2>1. /\ sv'[s].nrCrashed = sv[s].nrCrashed /\ sv'[s].crashAge = sv[s].crashAge
      BY <1>1, <1>2, <1>3, <1>4, <1>10 DEF Service
    <2>2. ~Crash(s)
      BY <1>4, <1>10 DEF Crash
    <2>3. s \in Critical => crashes'[s] = crashes[s]
      BY <2>2 DEF Recorded
    <2>4. s \in Critical => /\ crashes'[s] \in Seq(Ages)
                            /\ Supported(crashes'[s], sv'[s])
      BY ZenonT(30), <1>1, <2>1, <2>3 DEF Supported
    <2> QED
      BY <1>1, <1>9, <1>10, <2>4
  (* Where it was not stopped, Crash(s) holds exactly when it was counted. *)
  <1>11. ASSUME e.flags \intersect {"DISABLED", "RESET"} = {}, sv'[s].pid = NoPid,
                s \in Critical
         PROVE  /\ "RESTART" \notin e.flags => crashes'[s] = ds(s)
                /\ "RESTART" \in e.flags => crashes'[s] = crashes[s]
    <2>1. Crash(s) <=> "RESTART" \notin e.flags
      BY <1>2, <1>4, <1>11 DEF Crash
    <2> QED
      BY ZenonT(30), <1>11, <2>1 DEF Recorded, ds
  <1>12. CASE /\ e.flags \intersect {"DISABLED", "RESET"} = {}
              /\ c.nrCrashed > CrashThreshold
              /\ sv' = [sv EXCEPT ![s] = c] /\ rebooted' = TRUE
    <2>1. sv'[s] = c
      BY ZenonT(30), <1>1, <1>2, <1>12
    <2>2. s \in Critical /\ "RESTART" \notin e.flags
      <3>1. c # e
        BY <1>3, <1>5, <1>12, TimeConstants DEF Service
      <3> QED
        BY <1>8, <3>1
    <2>3. crashes'[s] = ds(s)
      BY <1>5, <1>11, <1>12, <2>1, <2>2
    <2> QED
      BY ZenonT(30), <1>1, <1>7, <1>9, <1>12, <2>2, <2>3
  <1>13. CASE /\ e.flags \intersect {"DISABLED", "RESET"} = {}
              /\ c.nrCrashed <= CrashThreshold
              /\ RestartAll(OnRestart[s], [sv EXCEPT ![s] = x], Reaped(p, s))
              /\ UNCHANGED rebooted
    <2> DEFINE v0 == [sv EXCEPT ![s] = x]
    <2>1. /\ x \in Service /\ x.pid = NoPid /\ "RUNNING" \notin x.flags
          /\ x.nrCrashed = c.nrCrashed /\ x.crashAge = c.crashAge
      BY ZenonT(30), <1>5 DEF Service, Flags, SvcStates
    <2> HIDE DEF x
    <2>2. v0[s] = x /\ \A t \in Svc \ {s} : v0[t] = sv[t]
      BY ZenonT(30), <1>1, <1>2
    <2>3. \A t \in Svc : GoodService(v0[t])
      BY ZenonT(30), <1>2, <1>13, <2>1, <2>2 DEF GoodService
    <2>4. OnRestart[s] \in SUBSET Svc /\ s \notin OnRestart[s]
      BY <1>2, ServiceSets
    <2>5. RestartAll(OnRestart[s], v0, Reaped(p, s))
      BY <1>13
    <2> HIDE DEF v0
    <2>6. Uncounted(v0, sv')
      BY ZenonT(30), <1>1, <2>3, <2>4, <2>5, RestartAllCountsNothing
    <2>7. sv'[s] = x
      BY <1>2, <2>2, <2>4, <2>5 DEF RestartAll
    <2>8. s \in Critical => /\ crashes'[s] \in Seq(Ages)
                            /\ Supported(crashes'[s], c)
      BY ZenonT(30), <1>1, <1>6, <1>7, <1>8, <1>11, <1>13, <2>1, <2>7
    <2>9. s \in Critical => Supported(crashes'[s], sv'[s])
      BY <2>1, <2>7, <2>8 DEF Supported
    <2>10. \A t \in Svc \ {s} : /\ sv'[t].nrCrashed = sv[t].nrCrashed
                                /\ sv'[t].crashAge = sv[t].crashAge
                                /\ sv[t].pid # NoPid => sv'[t].pid = sv[t].pid
      BY <2>2, <2>6 DEF Uncounted
    <2> QED
      BY ZenonT(30), <1>1, <1>9, <1>13, <2>8, <2>9, <2>10
  <1> QED
    BY ZenonT(30), <1>10, <1>12, <1>13 DEF wait_for_one_process, e, c

(* A second makes the crashes and the start of the window older alike.     *)
LEMMA TickStep ==
    ASSUME CInv, IInv', Tick,
           crashes' = [s \in Critical |->
                         [i \in DOMAIN crashes[s] |->
                            Older(crashes[s][i], CrashWindow + 1)]]
    PROVE  CInv'
  <1> DEFINE old(a) == Older(a, CrashWindow + 1)
             cs(s) == [i \in DOMAIN crashes[s] |-> old(crashes[s][i])]
  <1>0. CrashWindow \in Nat /\ ~rebooted /\ rebooted' = rebooted
    BY ZenonT(30), TimeConstants DEF Tick
  <1>1. \A a \in Ages : old(a) \in Ages
    BY <1>0 DEF Older, Ages
  <1>2. \A a, b \in Ages : a <= b => old(a) <= old(b)
    BY <1>0 DEF Older, Ages
  <1> HIDE DEF old
  <1>3. ASSUME NEW s \in Critical
        PROVE  /\ crashes[s] \in Seq(Ages) /\ cs(s) \in Seq(Ages)
               /\ Len(cs(s)) = Len(crashes[s]) /\ Len(crashes[s]) \in Nat
               /\ \A i \in 1..Len(crashes[s]) : /\ crashes[s][i] \in Ages
                                                /\ cs(s)[i] = old(crashes[s][i])
    <2>1. crashes[s] \in Seq(Ages)
      BY DEF CInv, CrashesTyped
    <2>2. /\ Len(crashes[s]) \in Nat /\ DOMAIN crashes[s] = 1..Len(crashes[s])
          /\ \A i \in 1..Len(crashes[s]) : crashes[s][i] \in Ages
      BY <2>1, LenProperties, ElementOfSeq
    <2>3. cs(s) = [i \in 1..Len(crashes[s]) |-> old(crashes[s][i])]
      BY <2>2
    <2> HIDE DEF cs
    <2>4. cs(s) \in Seq(Ages) /\ Len(cs(s)) = Len(crashes[s])
      BY <1>1, <2>2, <2>3
    <2> QED
      BY <2>1, <2>2, <2>3, <2>4
  <1>4. \A s \in Critical : crashes'[s] = cs(s)
    BY DEF old
  <1> HIDE DEF cs
  <1>5. ASSUME NEW s \in Critical
        PROVE  /\ sv[s].crashAge \in Ages /\ sv'[s].crashAge = old(sv[s].crashAge)
               /\ sv'[s].nrCrashed = sv[s].nrCrashed /\ sv[s].nrCrashed \in Nat
    <2>1. s \in Svc
      BY ServiceSets
    <2>2. sv[s] \in Service
      BY <2>1 DEF CInv, IInv, TypeOK
    <2>3. sv'[s] = [sv[s] EXCEPT !.age = Older(@, RestartDelay),
                                 !.crashAge = Older(@, CrashWindow + 1)]
      BY ZenonT(30), <2>1 DEF Tick
    <2>4. sv[s].nrCrashed \in Nat
      BY <2>2, TimeConstants DEF Service
    <2> QED
      BY <2>2, <2>3, <2>4 DEF Service, Ages, old
  <1>6. ASSUME NEW s \in Critical
        PROVE  Supported(crashes'[s], sv'[s])
    <2>1. Supported(crashes[s], sv[s])
      BY <1>0 DEF CInv, CountSupported
    <2>2. ASSUME NEW i \in 1..Len(cs(s)), i > Len(cs(s)) - sv'[s].nrCrashed
          PROVE  cs(s)[i] <= sv'[s].crashAge
      <3>1. crashes[s][i] <= sv[s].crashAge
        BY <1>3, <1>5, <2>1, <2>2 DEF Supported, LastWithin
      <3> QED
        BY <1>2, <1>3, <1>5, <2>2, <3>1
    <2> QED
      BY <1>3, <1>4, <1>5, <2>1, <2>2 DEF Supported, LastWithin
  <1>7. CrashesTyped'
    <2>1. crashes' = [s \in Critical |-> crashes'[s]]
      OBVIOUS
    <2> QED
      BY <1>3, <1>4, <2>1 DEF CrashesTyped
  <1> QED
    BY <1>0, <1>6, <1>7 DEF CInv, CountSupported, RecoveryOnlyAfterBurst

-----------------------------------------------------------------------------
LEMMA CInitEstablishes == CInit => CInv
  <1> SUFFICES ASSUME CInit PROVE CInv
    OBVIOUS
  <1>1. Init /\ crashes = [s \in Critical |-> <<>>]
    BY DEF CInit
  <1>2. IInv
    BY <1>1, InitEstablishes
  <1>3. CrashesTyped
    BY <1>1 DEF CrashesTyped
  <1>4. rebooted = FALSE
    BY Zenon, <1>1 DEF Init
  <1>5. ASSUME NEW s \in Critical
        PROVE  Supported(crashes[s], sv[s])
    <2>1. crashes[s] = <<>> /\ Len(<<>>) = 0
      BY <1>1
    <2> DEFINE r == [flags |-> IF s \in RcDisabled THEN {"DISABLED"} ELSE {},
                     pid |-> NoPid, age |-> 0, crashAge |-> 0, nrCrashed |-> 0,
                     state |-> "", req |-> "stop"]
    <2>2. sv[s] = r
      BY ZenonT(30), <1>1, ServiceSets DEF Init
    <2>3. r.nrCrashed = 0
      OBVIOUS
    <2> HIDE DEF r
    <2> QED
      BY <2>1, <2>2, <2>3, TimeConstants DEF Supported, LastWithin, Burst
  <1> QED
    BY <1>2, <1>3, <1>4, <1>5 DEF CInv, CountSupported, RecoveryOnlyAfterBurst

LEMMA CNextKeeps == CInv /\ [CNext]_<<vars, crashes>> => CInv'
  <1> SUFFICES ASSUME CInv, [CNext]_<<vars, crashes>> PROVE CInv'
    OBVIOUS
  <1>0. IInv'
    BY NextKeeps DEF CInv, CNext, Next
  <1>1. CASE UNCHANGED <<vars, crashes>>
    <2>1. UNCHANGED <<sv, rebooted, crashes>>
      BY <1>1 DEF vars
    <2> QED
      BY <1>0, <2>1 DEF CInv, CrashesTyped, CountSupported, Supported,
                        RecoveryOnlyAfterBurst, Bursting
  <1>2. CASE Act /\ Recorded
    <2>0. IInv /\ Recorded
      BY <1>2 DEF CInv
    <2>1. CASE execute_one_command \/ handle_keychord \/ handle_control_message
      <3>1. Request /\ ~rebooted /\ rebooted' = rebooted
        BY <2>1, HandlersRequest
      <3> QED
        BY <1>0, <2>0, <3>1, RequestCountsNothing, QuietStep
    <2>2. CASE restart_processes
      <3>1. rebooted' = rebooted
        BY <2>2 DEF restart_processes
      <3> QED
        BY <1>0, <2>0, <2>2, <3>1, RestartProcessesCountsNothing, QuietStep
    <2>3. ASSUME NEW p \in Pid, wait_for_one_process(p) PROVE CInv'
      BY <1>0, <2>0, <2>3, WaitStep
    <2>4. ASSUME sv' = sv, rebooted' = rebooted PROVE CInv'
      <3>1. Uncounted(sv, sv')
        BY <2>4 DEF Uncounted
      <3> QED
        BY <1>0, <2>0, <2>4, <3>1, QuietStep
    <2>5. CASE signal_init \/ handle_signal \/ DispatchDone \/ ReapDone
      <3>1. sv' = sv /\ rebooted' = rebooted
        BY <2>5 DEF signal_init, handle_signal, DispatchDone, ReapDone
      <3> QED
        BY <2>4, <3>1
    <2>6. ASSUME NEW requests \in SUBSET RequestFds, Poll(requests) PROVE CInv'
      <3>1. sv' = sv /\ rebooted' = rebooted
        BY <2>6 DEF Poll
      <3> QED
        BY <2>4, <3>1
    <2>7. ASSUME NEW p \in Pid,
                 \/ SetPgid(p) \/ Spawn(p) \/ KidsExit(p)
                 \/ Exit(p, {"forked", "grouped", "killed"})
          PROVE  CInv'
      <3>1. sv' = sv /\ rebooted' = rebooted
        BY <2>7 DEF SetPgid, Spawn, KidsExit, Exit, Become
      <3> QED
        BY <2>4, <3>1
    <2> QED
      BY <1>2, <2>1, <2>2, <2>3, <2>5, <2>6, <2>7 DEF Act, InitLoop
  <1> QED
    BY <1>0, <1>1, <1>2, TickStep DEF CNext, Recorded

(* No false alarm: init reboots into recovery only when some critical      *)
(* service has crashed more than CRITICAL_CRASH_THRESHOLD times within     *)
(* CRITICAL_CRASH_WINDOW, although wait_for_one_process keeps no more than *)
(* a count and the start of a window.                                      *)
THEOREM NoFalseAlarm == CSpec => []RecoveryOnlyAfterBurst
  <1>1. CInv => RecoveryOnlyAfterBurst
    BY DEF CInv
  <1> QED
    BY <1>1, CInitEstablishes, CNextKeeps, PTL DEF CSpec
=============================================================================
