----------------------------- MODULE InitService -----------------------------
(***************************************************************************)
(* The life of the services of Android init: service_start, _stop, _reset  *)
(* and _restart (init.c), the class and single-service builtins and the    *)
(* control messages that call them, keychords, the SIGCHLD self-pipe and   *)
(* the reaping of children (signal_handler.c), and the loop of main() that *)
(* ties them together.                                                     *)
(*                                                                         *)
(* init is one thread, so each handler is atomic with respect to init, but *)
(* the processes it forks run, move to their own process group, fork and   *)
(* die between any two of its steps, and waitpid() is called in a loop     *)
(* that such deaths interleave with.                                       *)
(*                                                                         *)
(* The clock gettime() is in seconds and is only ever compared with        *)
(* time_started + 5, time_crashed + 240 and process_needs_restart, so the  *)
(* model keeps the ages now - time_started and now - time_crashed and the  *)
(* time that is left to the poll timeout instead, each saturating just     *)
(* past the comparison that reads it.                                      *)
(***************************************************************************)
EXTENDS Integers

CONSTANTS
    Svc,            \* the services of init.rc
    Pid,            \* process ids
    Oneshot,        \* services with the option oneshot
    Critical,       \* services with the option critical
    RcDisabled,     \* services with the option disabled
    NeedsConsole,   \* services with the option console
    Classes,        \* the names of the service classes
    Class,          \* the class of each service
    OnRestart,      \* the services that the onrestart commands restart
    Keychord,       \* services with the option keycodes
    Adbd,           \* the service named adbd
    RestartDelay,   \* 5 s between a start and the next automatic start
    CrashWindow,    \* CRITICAL_CRASH_WINDOW, 240 s
    CrashThreshold  \* CRITICAL_CRASH_THRESHOLD, 4

ASSUME ServiceSets ==
    /\ Oneshot \subseteq Svc /\ Critical \subseteq Svc
    /\ RcDisabled \subseteq Svc /\ NeedsConsole \subseteq Svc
    /\ Keychord \subseteq Svc /\ Adbd \in Svc
    /\ Class \in [Svc -> Classes]
    /\ OnRestart \in [Svc -> SUBSET Svc]
    /\ \A s \in Svc : s \notin OnRestart[s]

ASSUME TimeConstants ==
    RestartDelay \in Nat \ {0} /\ CrashWindow \in Nat /\ CrashThreshold \in Nat

(* pid 0 is no child of init's, and "" names no service.                  *)
NoPid == 0

ASSUME PidsArePositive == NoPid \notin Pid

NoSvc == ""

ASSUME NamesAreNotEmpty == NoSvc \notin Svc

VARIABLES
    sv,         \* struct service of every service
    proc,       \* the process table, as far as it holds services
    up,         \* seconds since boot, up to RestartDelay
    pc,         \* where the loop of main() is
    ready,      \* what poll() reported and is not yet dispatched
    sig,        \* a byte is in the SIGCHLD socket pair
    sigInit,    \* signal_init() has run
    timeout,    \* what is left of the poll timeout, -1 for none
    rebooted    \* android_reboot(ANDROID_RB_RESTART2, 0, "recovery")

vars == <<sv, proc, up, pc, ready, sig, sigInit, timeout, rebooted>>

Flags == {"DISABLED", "RUNNING", "RESTARTING", "RESET", "RESTART"}

(* What the notifications init.svc.<name> say; "" before the first one.    *)
SvcStates == {"", "running", "stopping", "stopped", "restarting"}

(* The last request made for a service, a stop (or reset) if there was     *)
(* none: a history variable, read by no action.                            *)
Requests == {"start", "stop", "restart"}

Service == [flags : SUBSET Flags, pid : Pid \union {NoPid},
            age : 0..RestartDelay, crashAge : 0..(CrashWindow + 1),
            nrCrashed : 0..(CrashThreshold + 1), state : SvcStates,
            req : Requests]

(* A process is forked, then leads its own group after setpgid(0,getpid()),*)
(* may be sent SIGKILL and is a zombie until waitpid() returns it.  kids:  *)
(* other processes are in its group.                                       *)
Process == [svc : Svc \union {NoSvc},
            st : {"free", "forked", "grouped", "killed", "zombie"},
            kids : BOOLEAN]

FreeProcess == [svc |-> NoSvc, st |-> "free", kids |-> FALSE]

Pcs == {"command", "restart", "poll", "dispatch", "reap", "reapInit"}

TypeOK ==
    /\ sv \in [Svc -> Service]
    /\ proc \in [Pid -> Process]
    /\ up \in 0..RestartDelay
    /\ pc \in Pcs
    /\ ready \subseteq {"keychord", "prop", "sig"}
    /\ sig \in BOOLEAN /\ sigInit \in BOOLEAN /\ rebooted \in BOOLEAN
    /\ timeout \in -1..RestartDelay

Init ==
    /\ sv = [s \in Svc |->
              [flags |-> IF s \in RcDisabled THEN {"DISABLED"} ELSE {},
               pid |-> NoPid, age |-> 0, crashAge |-> 0, nrCrashed |-> 0,
               state |-> "", req |-> "stop"]]
    /\ proc = [p \in Pid |-> FreeProcess]
    /\ up = 0
    /\ pc = "command"
    /\ ready = {}
    /\ sig = FALSE /\ sigInit = FALSE /\ rebooted = FALSE
    /\ timeout = -1

-----------------------------------------------------------------------------
(* What service_start can meet once it gets there: no console, no binary,  *)
(* no SELinux context, a fork() that fails, or one that returns a pid.     *)
Outcomes(s) ==
    {"nofile", "nocontext", "forkfail"}
        \union (IF s \in NeedsConsole THEN {"noconsole"} ELSE {})
        \union {p \in Pid : proc[p] = FreeProcess}

(* The outcomes of the starts that one handler makes, in distinct pids.    *)
Forks(S) ==
    {f \in [S -> UNION {Outcomes(s) : s \in S}] :
       /\ \A s \in S : f[s] \in Outcomes(s)
       /\ \A s, t \in S : s # t /\ f[s] \in Pid => f[s] # f[t]}

(* A mutant: service_start without its test of SVC_RUNNING.                *)
service_start_again(r, s, dynamic_args, o) ==
    LET c == [r EXCEPT
                !.flags = @ \ {"DISABLED", "RESTARTING", "RESET", "RESTART"},
                !.age = up]
    IN  IF o \in {"nofile", "noconsole"} \/ (dynamic_args /\ s \notin Oneshot)
        THEN [c EXCEPT !.flags = @ \union {"DISABLED"}]
        ELSE IF o = "nocontext" THEN c
        ELSE IF o = "forkfail" THEN [c EXCEPT !.pid = NoPid]
        ELSE [c EXCEPT !.flags = @ \union {"RUNNING"}, !.pid = o, !.age = 0,
                       !.state = "running"]

(* service_start on the service r = sv[s], which meets o.  time_started =  *)
(* 0 makes the age the uptime.                                             *)
service_start(r, s, dynamic_args, o) ==
    LET c == [r EXCEPT
                !.flags = @ \ {"DISABLED", "RESTARTING", "RESET", "RESTART"},
                !.age = up]
    IN  IF "RUNNING" \in r.flags
        THEN c
        ELSE IF o \in {"nofile", "noconsole"} \/ (dynamic_args /\ s \notin Oneshot)
        THEN [c EXCEPT !.flags = @ \union {"DISABLED"}]
        ELSE IF o = "nocontext" THEN c
        ELSE IF o = "forkfail" THEN [c EXCEPT !.pid = NoPid]
        ELSE [c EXCEPT !.flags = @ \union {"RUNNING"}, !.pid = o, !.age = 0,
                       !.state = "running"]

(* Mutant: a stop that leaves SVC_RESTARTING.                              *)
service_stop_keeps_restarting(r, s, how) ==
    [r EXCEPT
       !.flags = @ \union
                   {IF how = "RESET" /\ s \in RcDisabled THEN "DISABLED" ELSE how},
       !.state = IF r.pid # NoPid THEN "stopping" ELSE "stopped"]

(* service_stop_or_reset; its kill is in Processes below.                  *)
service_stop_or_reset(r, s, how) ==
    [r EXCEPT
       !.flags = (@ \ {"RESTARTING"}) \union
                   {IF how = "RESET" /\ s \in RcDisabled THEN "DISABLED" ELSE how},
       !.state = IF r.pid # NoPid THEN "stopping" ELSE "stopped"]

service_restart(r, s, o) ==
    IF "RUNNING" \in r.flags
    THEN service_stop_or_reset(r, s, "RESTART")
    ELSE IF "RESTARTING" \in r.flags THEN r ELSE service_start(r, s, FALSE, o)

(* kill(-pid, SIGKILL) reaches the members of the group pid, if there is   *)
(* such a group: it does nothing to a child that has not called setpgid.   *)
Kill(pr) ==
    [pr EXCEPT !.st = IF @ = "grouped" THEN "killed" ELSE @, !.kids = FALSE]

(* The process table after a handler that turned sv into sv1 and sent      *)
(* SIGKILL to the groups killed, from the table base.                      *)
Processes(base, killed, sv1) ==
    [p \in Pid |->
       LET new == {s \in Svc : sv1[s].pid = p /\ sv[s].pid # p}
       IN  IF new # {}
           THEN [svc |-> CHOOSE s \in new : TRUE, st |-> "forked", kids |-> FALSE]
           ELSE IF p \in killed THEN Kill(base[p]) ELSE base[p]]

-----------------------------------------------------------------------------
(* The requests: each changes sv and proc, and leaves the state of the     *)
(* loop to its caller.                                                     *)

StartAll(S, dynamic_args) ==
    \E f \in Forks(S) :
      LET sv1 == [s \in Svc |->
                    IF s \in S
                    THEN [service_start(sv[s], s, dynamic_args, f[s])
                            EXCEPT !.req = "start"]
                    ELSE sv[s]]
      IN  sv' = sv1 /\ proc' = Processes(proc, {}, sv1)

StopAll(S, how) ==
    LET sv1 == [s \in Svc |->
                  IF s \in S
                  THEN [service_stop_or_reset(sv[s], s, how) EXCEPT !.req = "stop"]
                  ELSE sv[s]]
    IN  sv' = sv1 /\ proc' = Processes(proc, {sv[s].pid : s \in S}, sv1)

(* service_restart of the services S, from services as in sv0 and          *)
(* processes as in proc0.                                                  *)
RestartAll(S, sv0, proc0) ==
    \E f \in Forks(S) :
      LET sv1 == [s \in Svc |->
                    IF s \in S
                    THEN [service_restart(sv0[s], s, f[s]) EXCEPT !.req = "restart"]
                    ELSE sv0[s]]
          killed == {sv0[s].pid : s \in {t \in S : "RUNNING" \in sv0[t].flags}}
      IN  sv' = sv1 /\ proc' = Processes(proc0, killed, sv1)

(* Starting a class leaves out the services that are disabled.             *)
do_class_start ==
    \E c \in Classes :
      StartAll({s \in Svc : Class[s] = c /\ "DISABLED" \notin sv[s].flags}, FALSE)

do_class_stop ==
    \E c \in Classes : StopAll({s \in Svc : Class[s] = c}, "DISABLED")

do_class_reset ==
    \E c \in Classes : StopAll({s \in Svc : Class[s] = c}, "RESET")

do_start == \E s \in Svc : StartAll({s}, FALSE)

do_stop == \E s \in Svc : StopAll({s}, "DISABLED")

do_restart == \E s \in Svc : RestartAll({s}, sv, proc)

(* ctl.start may carry arguments after a colon.                            *)
msg_start == \E s \in Svc, args \in BOOLEAN : StartAll({s}, args)

-----------------------------------------------------------------------------
(* The loop of main().                                                     *)

loop == <<ready, sig, sigInit, timeout>>

(* execute_one_command, for the commands that concern services; any other  *)
(* command, and an empty queue, changes nothing here.                      *)
execute_one_command ==
    /\ pc = "command" /\ ~rebooted
    /\ pc' = "restart"
    /\ \/ UNCHANGED <<sv, proc>>
       \/ do_class_start \/ do_class_stop \/ do_class_reset
       \/ do_start \/ do_stop \/ do_restart
    /\ UNCHANGED <<up, loop, rebooted>>

(* The builtin action signal_init: it reaps what died before it.           *)
signal_init ==
    /\ pc = "command" /\ ~rebooted /\ ~sigInit
    /\ sigInit' = TRUE
    /\ pc' = "reapInit"
    /\ UNCHANGED <<sv, proc, up, ready, sig, timeout, rebooted>>

(* The services restart_processes starts, and the time left to the first   *)
(* of the others, as a set of one value.                                   *)
Restarting == {s \in Svc : "RESTARTING" \in sv[s].flags}

Due == {s \in Restarting : sv[s].age >= RestartDelay}

(* A mutant: a timeout that forgets the restarts.                          *)
NextRestartNever == {-1}

NextRestart ==
    LET left == {RestartDelay - sv[s].age : s \in Restarting \ Due}
    IN  IF left = {} THEN {-1} ELSE {t \in left : \A u \in left : t <= u}

(* restart_processes, and the poll timeout: 0 while actions are queued, as *)
(* signal_init is until it runs.                                           *)
restart_processes ==
    /\ pc = "restart" /\ ~rebooted
    /\ \E f \in Forks(Due) :
         LET sv1 == [s \in Svc |->
                       IF s \in Due THEN service_start(sv[s], s, FALSE, f[s])
                       ELSE sv[s]]
         IN  sv' = sv1 /\ proc' = Processes(proc, {}, sv1)
    /\ timeout' \in IF sigInit THEN NextRestart \union {0} ELSE {0}
    /\ pc' = "poll"
    /\ UNCHANGED <<up, ready, sig, sigInit, rebooted>>

(* The descriptors requests come in on; /dev/keychord is opened only when  *)
(* some service has keycodes.                                              *)
RequestFds == {"prop"} \union (IF Keychord = {} THEN {} ELSE {"keychord"})

(* poll() returns when a descriptor is readable or its time is over;       *)
(* requests says on which a request has come in.                           *)
Poll(requests) ==
    /\ pc = "poll" /\ ~rebooted
    /\ ready' = requests \union (IF sig /\ sigInit THEN {"sig"} ELSE {})
    /\ ready' # {} \/ timeout = 0
    /\ pc' = "dispatch"
    /\ UNCHANGED <<sv, proc, up, sig, sigInit, timeout, rebooted>>

(* handle_keychord: only while adbd is running.                            *)
handle_keychord ==
    /\ pc = "dispatch" /\ ~rebooted /\ "keychord" \in ready
    /\ ready' = ready \ {"keychord"}
    /\ IF sv[Adbd].state = "running"
       THEN \E s \in Keychord : StartAll({s}, FALSE)
       ELSE UNCHANGED <<sv, proc>>
    /\ UNCHANGED <<up, pc, sig, sigInit, timeout, rebooted>>

(* handle_property_set_fd with a ctl. message.                             *)
handle_control_message ==
    /\ pc = "dispatch" /\ ~rebooted
    /\ "prop" \in ready /\ "keychord" \notin ready
    /\ ready' = ready \ {"prop"}
    /\ msg_start \/ do_stop \/ do_restart
    /\ UNCHANGED <<up, pc, sig, sigInit, timeout, rebooted>>

(* handle_signal empties the socket and then starts to reap.               *)
handle_signal ==
    /\ pc = "dispatch" /\ ~rebooted /\ ready = {"sig"}
    /\ ready' = {}
    /\ sig' = FALSE
    /\ pc' = "reap"
    /\ UNCHANGED <<sv, proc, up, sigInit, timeout, rebooted>>

DispatchDone ==
    /\ pc = "dispatch" /\ ~rebooted /\ ready = {}
    /\ pc' = "command"
    /\ UNCHANGED <<sv, proc, up, loop, rebooted>>

(* wait_for_one_process, when waitpid() returns p.                         *)

(* The service after the exit of its process.                              *)
Exited(r, s) ==
    [r EXCEPT !.pid = NoPid,
              !.flags = (@ \ {"RUNNING"}) \union
                          (IF s \in Oneshot /\ "RESTART" \notin r.flags
                           THEN {"DISABLED"} ELSE {})]

(* A mutant: a new window keeps the count of the last one.                 *)
CrashedForever(r, s) ==
    IF s \notin Critical \/ "RESTART" \in r.flags
    THEN r
    ELSE IF r.crashAge <= CrashWindow
         THEN [r EXCEPT !.nrCrashed = @ + 1]
         ELSE [r EXCEPT !.crashAge = 0, !.nrCrashed = @ + 1]

(* The count of the crashes of a critical service within the window.       *)
Crashed(r, s) ==
    IF s \notin Critical \/ "RESTART" \in r.flags
    THEN r
    ELSE IF r.crashAge <= CrashWindow
         THEN [r EXCEPT !.nrCrashed = @ + 1]
         ELSE [r EXCEPT !.crashAge = 0, !.nrCrashed = 1]

(* The process table without p; its group survives it, unless it is killed *)
(* with it: a oneshot service that is not being restarted keeps it.        *)
Reaped(p, s) ==
    LET kids == proc[p].kids /\ s \in Oneshot /\ "RESTART" \notin sv[s].flags
    IN  [proc EXCEPT ![p] = IF kids THEN [@ EXCEPT !.st = "free"] ELSE FreeProcess]

wait_for_one_process(p) ==
    LET s == proc[p].svc
        e == Exited(sv[s], s)
        c == Crashed(e, s)
    IN  /\ pc \in {"reap", "reapInit"} /\ ~rebooted
        /\ proc[p].st = "zombie"
        /\ \/ /\ e.flags \intersect {"DISABLED", "RESET"} # {}
              /\ sv' = [sv EXCEPT ![s] = [e EXCEPT !.state = "stopped"]]
              /\ proc' = Reaped(p, s)
              /\ UNCHANGED rebooted
           \/ /\ e.flags \intersect {"DISABLED", "RESET"} = {}
              /\ c.nrCrashed > CrashThreshold
              /\ sv' = [sv EXCEPT ![s] = c]
              /\ proc' = Reaped(p, s)
              /\ rebooted' = TRUE
           \/ /\ e.flags \intersect {"DISABLED", "RESET"} = {}
              /\ c.nrCrashed <= CrashThreshold
              /\ RestartAll(OnRestart[s],
                     [sv EXCEPT ![s] = [c EXCEPT
                        !.flags = (@ \ {"RESTART"}) \union {"RESTARTING"},
                        !.state = "restarting"]],
                     Reaped(p, s))
              /\ UNCHANGED rebooted
        /\ UNCHANGED <<up, pc, loop>>

(* A mutant: handle_signal does not loop until waitpid() returns nothing.  *)
ReapDoneEarly ==
    /\ pc \in {"reap", "reapInit"} /\ ~rebooted
    /\ pc' = IF pc = "reap" THEN "command" ELSE "restart"
    /\ UNCHANGED <<sv, proc, up, loop, rebooted>>

(* waitpid() has nothing more to return.                                   *)
ReapDone ==
    /\ pc \in {"reap", "reapInit"} /\ ~rebooted
    /\ \A p \in Pid : proc[p].st # "zombie"
    /\ pc' = IF pc = "reap" THEN "command" ELSE "restart"
    /\ UNCHANGED <<sv, proc, up, loop, rebooted>>

-----------------------------------------------------------------------------
(* The processes and the clock.                                            *)

Become(p, from, pr) ==
    /\ ~rebooted
    /\ proc[p].st \in from
    /\ proc' = [proc EXCEPT ![p] = pr]
    /\ UNCHANGED <<sv, up, pc, ready, sigInit, timeout, rebooted>>

(* The child's setpgid(0, getpid()), which comes after its sockets, its    *)
(* environment and its console are set up.                                 *)
SetPgid(p) ==
    Become(p, {"forked"}, [proc[p] EXCEPT !.st = "grouped"]) /\ UNCHANGED sig

Spawn(p) ==
    /\ ~proc[p].kids
    /\ Become(p, {"grouped"}, [proc[p] EXCEPT !.kids = TRUE])
    /\ UNCHANGED sig

(* The exit of a child of init: sigchld_handler writes a byte.             *)
Exit(p, from) ==
    Become(p, from, [proc[p] EXCEPT !.st = "zombie"]) /\ sig' = (sig \/ sigInit)

(* The last other member of the group goes; init may be its parent by now. *)
KidsExit(p) ==
    /\ proc[p].kids
    /\ Become(p, {"free", "forked", "grouped", "killed", "zombie"},
              IF proc[p].st = "free" THEN FreeProcess
              ELSE [proc[p] EXCEPT !.kids = FALSE])
    /\ sig' \in {sig, sig \/ sigInit}

Older(age, limit) == IF age < limit THEN age + 1 ELSE age

Tick ==
    /\ ~rebooted
    /\ up' = Older(up, RestartDelay)
    /\ sv' = [s \in Svc |->
               [sv[s] EXCEPT !.age = Older(@, RestartDelay),
                             !.crashAge = Older(@, CrashWindow + 1)]]
    /\ timeout' = IF timeout > 0 THEN timeout - 1 ELSE timeout
    /\ UNCHANGED <<proc, pc, ready, sig, sigInit, rebooted>>

-----------------------------------------------------------------------------
InitLoop ==
    \/ execute_one_command \/ signal_init \/ restart_processes
    \/ handle_keychord \/ handle_control_message \/ handle_signal
    \/ DispatchDone \/ ReapDone
    \/ \E p \in Pid : wait_for_one_process(p)

Act ==
    \/ InitLoop
    \/ \E requests \in SUBSET RequestFds : Poll(requests)
    \/ \E p \in Pid : \/ SetPgid(p) \/ Spawn(p) \/ KidsExit(p)
                      \/ Exit(p, {"forked", "grouped", "killed"})

Next == Act \/ Tick

Spec == Init /\ [][Next]_vars

(* init is always scheduled again, poll() returns when it has a reason of  *)
(* its own to, the queue of the boot actions is worked off as far as       *)
(* signal_init, a child gets to its setpgid, one that was sent SIGKILL     *)
(* dies and time passes.  No request and no voluntary exit has to happen.  *)
Fairness ==
    /\ WF_vars(InitLoop) /\ WF_vars(Poll({})) /\ WF_vars(Tick)
    /\ SF_vars(signal_init)
    /\ \A p \in Pid : WF_vars(SetPgid(p)) /\ WF_vars(Exit(p, {"killed"}))

FairSpec == Spec /\ Fairness

-----------------------------------------------------------------------------
(* The services as in v and the processes as in q know each other.         *)
Tracked(v, q) ==
    /\ \A s \in Svc : ("RUNNING" \in v[s].flags) <=> (v[s].pid # NoPid)
    /\ \A s \in Svc : v[s].pid # NoPid =>
         q[v[s].pid].svc = s /\ q[v[s].pid].st # "free"
    /\ \A p \in Pid : q[p].st # "free" =>
         q[p].svc \in Svc /\ v[q[p].svc].pid = p

(* Every child that is not reaped yet is the pid of exactly one service,   *)
(* that service is SVC_RUNNING, and no service has two of them: whatever   *)
(* starts, stops and restarts come while it is dying, service_start forks  *)
(* no second instance and service_find_by_pid finds each one.              *)
ChildrenTracked == Tracked(sv, proc)

(* No lost SIGCHLD: when init is about to block in poll(), every zombie    *)
(* has left a byte in the socket, also one that died between the read of   *)
(* handle_signal and its last waitpid().                                   *)
NoForgottenZombie ==
    pc = "poll" /\ sigInit =>
        sig \/ \A p \in Pid : proc[p].st # "zombie"

(* What a non-oneshot service forked into its process group does not       *)
(* outlive it: before the service runs again, the group was sent SIGKILL,  *)
(* also when the process had left by itself.                               *)
NoOverlap ==
    \A s \in Svc \ Oneshot : \A p \in Pid :
        proc[p].svc = s /\ proc[p].kids => sv[s].pid = p

(* No fork behind the back of a stop: once a service was stopped or reset, *)
(* it gets a new process only through a later start or restart request,    *)
(* never through a restart that was under way when the stop came.          *)
StoppedStaysStopped ==
    [][\A s \in Svc : sv[s].pid = NoPid /\ sv'[s].pid # NoPid =>
          sv'[s].req # "stop"]_vars

(* Every automatic restart takes place: the poll timeout ends the wait for *)
(* the 5 seconds, and nothing that happens meanwhile makes init forget it, *)
(* but a reboot.                                                           *)
RestartHappens ==
    \A s \in Svc : "RESTARTING" \in sv[s].flags
                    ~> "RESTARTING" \notin sv[s].flags \/ rebooted

(* A service that is sent SIGKILL in its own group is reaped, or init has  *)
(* rebooted before.                                                        *)
KilledIsReaped ==
    \A s \in Svc : sv[s].pid # NoPid /\ proc[sv[s].pid].st = "killed"
                    ~> sv[s].pid = NoPid \/ rebooted

(* Reaping by handle_signal and wait_for_one_process is complete: whenever *)
(* init waits no zombie is without its signal, and no process of an earlier *)
(* instance lives on beside a service's new one.                           *)
NothingLeftBehind == NoForgottenZombie /\ NoOverlap

(* The loop of main() brings every pending restart and every reaping about: *)
(* the timeout that restart_processes leaves for poll misses no service.   *)
ServicesMoveOn == RestartHappens /\ KilledIsReaped
=============================================================================
