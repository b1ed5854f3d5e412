------------------------------- MODULE LkThread -------------------------------
(***************************************************************************)
(* The kernel of the LK bootloader (bootable/lk/kernel): threads, run      *)
(* queues and the scheduler, wait queues, sleeping, mutexes, events and    *)
(* the DPC thread that frees dead threads.                                 *)
(*                                                                         *)
(* There is one CPU.  A critical section disables interrupts, so the code  *)
(* from the beginning of one to its end, or to the context switch inside   *)
(* it, is one step; what a thread still does in the critical section when  *)
(* it is switched to again (its "cont") is the only step possible then.    *)
(* Outside critical sections the timer interrupt may come at any point.    *)
(*                                                                         *)
(* The kernel's own data is the record k, so that its routines, which call *)
(* each other, are operators from records to records.                      *)
(***************************************************************************)
EXTENDS Integers, Sequences, FiniteSetsExt, Functions

CONSTANTS
    User,          \* the threads of applications
    Main,          \* the one of them that kmain creates (bootstrap2)
    Idle, Dpc,     \* the idle and the dpc thread
    Prio,          \* the priority of each thread
    Mutex, Event,  \* mutex_t and event_t objects
    Auto,          \* the events with EVENT_FLAG_AUTOUNSIGNAL
    Quantum,       \* ticks in a new quantum: 5
    Delays,        \* what thread_sleep is called with, in ticks
    Timeouts,      \* finite timeouts of waits, in ticks, 0 among them
    Destroyed,     \* the objects that are destroyed and initialized again
    Resumable      \* the states in which a thread is resumed by another

Thread == User \union {Idle, Dpc}

NoThread == "none"

INFINITE_TIME == -1

DpcEvent == "dpc_event"

WaitObj == Mutex \union Event \union {DpcEvent}

ASSUME Threads ==
    /\ Main \in User /\ Idle \notin User /\ Dpc \notin User /\ Idle # Dpc
    /\ NoThread \notin Thread
    /\ \A t \in Thread : Prio[t] \in Nat
    /\ \A t \in Thread \ {Idle} : Prio[t] > Prio[Idle]

ASSUME Objects ==
    /\ Mutex \intersect Event = {} /\ DpcEvent \notin Mutex \union Event /\ Auto \subseteq Event
    /\ Destroyed \subseteq Mutex \union Event

ASSUME Times == Quantum \in Nat \ {0} /\ Delays \subseteq Nat \ {0} /\ Timeouts \subseteq Nat

VARIABLES
    k,        \* the scheduler: see Kernel
    mutex,    \* the mutexes
    event,    \* the events and the event of the dpc thread
    dpcs,     \* dpc_list: the dead threads to clean up
    dpc,      \* the one that dpc_thread_routine has taken from the list
    has       \* the mutexes each thread was told it has acquired

vars == <<k, mutex, event, dpcs, dpc, has>>

Priorities == {Prio[t] : t \in Thread}

States == {"NONE", "SUSPENDED", "READY", "RUNNING", "BLOCKED", "SLEEPING", "DEATH"}

(* What a thread does when it runs: "run" is code of its own, "acquire"    *)
(* and "timed" the rest of mutex_acquire and of a wait with a timeout, and *)
(* the others are places in dpc_thread_routine.                            *)
Conts == {"run", "acquire", "timed", "dpcWait", "dpcTake", "dpcRun"}

Results == {"NO_ERROR", "ERR_TIMED_OUT", "ERR_OBJECT_DESTROYED"}

(* remaining_quantum is only compared with 0, so it stops there.           *)
ThreadRecord == [st : States, q : 0..Quantum, cont : Conts,
                 obj : WaitObj \union {NoThread}, ret : Results]

(* thread_list, run_queue, run_queue_bitmap, the wait queues with their    *)
(* counts, and timer_queue; leaked: see wait_queue_timeout_handler.        *)
TimerRecord == [t : Thread, kind : {"sleep", "wait"}, left : Nat]

NewThread == [st |-> "NONE", q |-> 0, cont |-> "run", obj |-> NoThread, ret |-> "NO_ERROR"]

-----------------------------------------------------------------------------
(* The run queues (thread.c).                                              *)

insert_in_run_queue_head(kk, t) ==
    [kk EXCEPT !.runq[Prio[t]] = <<t>> \o @, !.bitmap = @ \union {Prio[t]}]

insert_in_run_queue_tail(kk, t) ==
    [kk EXCEPT !.runq[Prio[t]] = Append(@, t), !.bitmap = @ \union {Prio[t]}]

Ready(kk, t) == [kk EXCEPT !.th[t].st = "READY"]

(* thread_resched: the first thread of the highest queue runs.             *)
thread_resched(kk) ==
    LET next_queue == CHOOSE p \in kk.bitmap : \A r \in kk.bitmap : r <= p
        new == Head(kk.runq[next_queue])
    IN  [kk EXCEPT
           !.runq[next_queue] = Tail(@),
           !.bitmap = IF Len(kk.runq[next_queue]) = 1 THEN @ \ {next_queue} ELSE @,
           !.th[new].st = "RUNNING",
           !.th[new].q = IF new # kk.cur /\ @ <= 0 THEN Quantum ELSE @,
           !.cur = new]

thread_yield(kk) ==
    LET y == [Ready(kk, kk.cur) EXCEPT !.th[kk.cur].q = 0]
    IN  thread_resched(insert_in_run_queue_tail(y, kk.cur))

thread_preempt(kk) ==
    LET y == Ready(kk, kk.cur)
    IN  thread_resched(IF kk.th[kk.cur].q > 0
                       THEN insert_in_run_queue_head(y, kk.cur)
                       ELSE insert_in_run_queue_tail(y, kk.cur))

-----------------------------------------------------------------------------
(* Lists: an element is put before element i, or element i taken out.      *)
list_add_before(s, i, x) == SubSeq(s, 1, i - 1) \o <<x>> \o SubSeq(s, i, Len(s))

list_delete(s, i) == SubSeq(s, 1, i - 1) \o SubSeq(s, i + 1, Len(s))

(* Timers, as far as threads use them (timer.c): a new one goes before the *)
(* first of the queue that is later.                                       *)
insert_timer_in_queue(q, timer) ==
    LET later == {i \in DOMAIN q : q[i].left > timer.left}
    IN  IF later = {} THEN Append(q, timer) ELSE list_add_before(q, Min(later), timer)

timer_set_oneshot(kk, kind, delay) ==
    [kk EXCEPT !.timers =
       insert_timer_in_queue(@, [t |-> kk.cur, kind |-> kind, left |-> delay])]

(* Mutant: the timer of a wait that ended early stays in the queue.        *)
timer_cancel_not(kk, t) == kk

(* The timer is a local variable of the wait of thread t, and is in the    *)
(* queue unless it has expired.                                            *)
timer_cancel(kk, t) ==
    LET mine == {i \in DOMAIN kk.timers : kk.timers[i].t = t}
    IN  IF mine = {} THEN kk
        ELSE [kk EXCEPT !.timers = list_delete(@, CHOOSE i \in mine : TRUE)]

-----------------------------------------------------------------------------
(* Wait queues (thread.c).                                                 *)

(* wait_queue_block, up to the context switch; a timeout of 0 returns at   *)
(* once, to what the caller does in the critical section.                  *)
wait_queue_block(kk, w, timeout, cont) ==
    LET t == kk.cur
        timed_out == [kk EXCEPT !.th[t] = [@ EXCEPT !.ret = "ERR_TIMED_OUT",
                                                    !.cont = cont, !.obj = w]]
        b == [kk EXCEPT !.wq[w] = Append(@, t), !.count[w] = @ + 1,
                        !.th[t] = [@ EXCEPT !.st = "BLOCKED", !.ret = "NO_ERROR",
                                            !.cont = cont, !.obj = w]]
    IN  IF timeout = 0 THEN timed_out
        ELSE thread_resched(IF timeout = INFINITE_TIME THEN b
                            ELSE timer_set_oneshot(b, "wait", timeout))

(* The head of wait queue w becomes ready with result ret.                 *)
Wake(kk, w, ret) ==
    LET t == Head(kk.wq[w])
    IN  insert_in_run_queue_head(
          [kk EXCEPT !.wq[w] = Tail(@), !.count[w] = @ - 1,
                     !.th[t].st = "READY", !.th[t].ret = ret], t)

(* Mutant: the state of the running thread is not changed.                 *)
RequeueRunning(kk) == insert_in_run_queue_head(kk, kk.cur)

(* The running thread goes to the head of its run queue.                   *)
Requeue(kk) == insert_in_run_queue_head(Ready(kk, kk.cur), kk.cur)

wait_queue_wake_one(kk, w, reschedule, ret) ==
    IF kk.wq[w] = <<>> THEN kk
    ELSE IF reschedule THEN thread_resched(Wake(Requeue(kk), w, ret))
         ELSE Wake(kk, w, ret)

(* The kernel after n turns of the loop of wait_queue_wake_all.            *)
WakeFirst(kk, w, ret) ==
    LET woken[n \in 0..Len(kk.wq[w])] == IF n = 0 THEN kk ELSE Wake(woken[n - 1], w, ret)
    IN  woken

wait_queue_wake_all(kk, w, reschedule, ret) ==
    LET all(kx) == WakeFirst(kx, w, ret)[Len(kx.wq[w])]
    IN  IF reschedule /\ kk.count[w] > 0 THEN thread_resched(all(Requeue(kk)))
        ELSE all(kk)

(* wait_queue_timeout_handler with thread_unblock_from_wait_queue, which   *)
(* returns with a critical section too many when t is not blocked: leaked. *)
wait_queue_timeout_handler(kk, t) ==
    IF kk.th[t].st # "BLOCKED"
    THEN [kk EXCEPT !.leaked = TRUE]
    ELSE LET w == kk.th[t].obj
             at == CHOOSE i \in DOMAIN kk.wq[w] : kk.wq[w][i] = t
         IN  insert_in_run_queue_head(
               [kk EXCEPT !.wq[w] = list_delete(@, at), !.count[w] = @ - 1,
                          !.th[t].st = "READY", !.th[t].ret = "ERR_TIMED_OUT"], t)

thread_sleep_handler(kk, t) == insert_in_run_queue_head(Ready(kk, t), t)

(* The head of the timer queue is taken off and its callback called.       *)
Expire(kk) ==
    LET x == Head(kk.timers)
        rest == [kk EXCEPT !.timers = Tail(@)]
    IN  IF x.kind = "sleep" THEN thread_sleep_handler(rest, x.t)
        ELSE wait_queue_timeout_handler(rest, x.t)

(* The kernel after n turns of the loop of timer_tick.                     *)
ExpireFirst(kk) ==
    LET fired[n \in 0..Len(kk.timers)] == IF n = 0 THEN kk ELSE Expire(fired[n - 1])
    IN  fired

(* The timers of the queue before the first one that is not due.           *)
Due(q) == CHOOSE n \in 0..Len(q) : /\ \A i \in 1..n : q[i].left <= 0
                                   /\ n < Len(q) => q[n + 1].left > 0

(* timer_tick without the quantum; a tick is the unit of the times.        *)
timer_tick(kk) ==
    LET aged == [i \in DOMAIN kk.timers |-> [kk.timers[i] EXCEPT !.left = @ - 1]]
    IN  ExpireFirst([kk EXCEPT !.timers = aged])[Due(aged)]

thread_timer_tick(kk) ==
    IF kk.cur = Idle THEN kk
    ELSE [kk EXCEPT !.th[kk.cur].q = IF @ > 0 THEN @ - 1 ELSE 0]

-----------------------------------------------------------------------------
(* The state after kmain: bootstrap has become the idle thread, and the    *)
(* dpc thread and bootstrap2 are ready to start.                           *)
Init ==
    /\ k = [cur |-> Idle,
            th |-> [t \in Thread |->
                     IF t = Idle THEN [NewThread EXCEPT !.st = "RUNNING"]
                     ELSE IF t = Dpc THEN [NewThread EXCEPT !.st = "READY", !.cont = "dpcWait"]
                     ELSE IF t = Main THEN [NewThread EXCEPT !.st = "READY"]
                     ELSE NewThread],
            runq |-> [p \in Priorities |->
                       (IF Prio[Dpc] = p THEN <<Dpc>> ELSE <<>>)
                       \o (IF Prio[Main] = p THEN <<Main>> ELSE <<>>)],
            bitmap |-> {Prio[Dpc], Prio[Main]},
            wq |-> [w \in WaitObj |-> <<>>],
            count |-> [w \in WaitObj |-> 0],
            timers |-> <<>>,
            leaked |-> FALSE]
    /\ mutex = [m \in Mutex |-> [magic |-> TRUE, count |-> 0, holder |-> NoThread]]
    /\ event = [e \in Event \union {DpcEvent} |-> [magic |-> TRUE, signalled |-> FALSE]]
    /\ dpcs = <<>>
    /\ dpc = NoThread
    /\ has = [t \in Thread |-> {}]

Cur == k.cur

(* The running thread is in the middle of a wait that has just ended, with *)
(* interrupts disabled.                                                    *)
InCritical == k.th[Cur].cont \in {"acquire", "timed"}

(* The running thread is an application's, outside kernel code.            *)
Running == Cur \in User /\ k.th[Cur].cont = "run" /\ ~k.leaked

-----------------------------------------------------------------------------
(* Threads.                                                                *)

thread_create(t) ==
    /\ Running
    /\ k.th[t].st = "NONE"
    /\ k' = [k EXCEPT !.th[t] = [NewThread EXCEPT !.st = "SUSPENDED"]]
    /\ UNCHANGED <<mutex, event, dpcs, dpc, has>>

(* A caller resumes a thread in one of the states Resumable; the code      *)
(* itself refuses only ready and running ones.                             *)
thread_resume(t) ==
    /\ Running
    /\ k.th[t].st \in Resumable \ {"READY", "RUNNING"}
    /\ k' = thread_yield(insert_in_run_queue_head(Ready(k, t), t))
    /\ UNCHANGED <<mutex, event, dpcs, dpc, has>>

Yield ==
    /\ Running
    /\ k' = thread_yield(k)
    /\ UNCHANGED <<mutex, event, dpcs, dpc, has>>

thread_sleep(delay) ==
    /\ Running
    /\ k' = thread_resched([timer_set_oneshot(k, "sleep", delay) EXCEPT !.th[Cur].st = "SLEEPING"])
    /\ UNCHANGED <<mutex, event, dpcs, dpc, has>>

-----------------------------------------------------------------------------
(* Events (event.c); reschedule is the parameter of event_signal.          *)

Woken(kk, e, reschedule) ==
    IF event[e].signalled THEN kk
    ELSE IF e \in Auto THEN wait_queue_wake_one(kk, e, reschedule, "NO_ERROR")
    ELSE wait_queue_wake_all(kk, e, reschedule, "NO_ERROR")

Signalled(kk, e) ==
    [event EXCEPT ![e].signalled = @ \/ e \notin Auto \/ kk.wq[e] = <<>>]

event_signal(e, reschedule) ==
    /\ Running
    /\ event[e].magic
    /\ k' = Woken(k, e, reschedule)
    /\ event' = Signalled(k, e)
    /\ UNCHANGED <<mutex, dpcs, dpc, has>>

(* event_wait_timeout, and event_wait with INFINITE_TIME.                  *)
event_wait(e, timeout) ==
    /\ Running
    /\ event[e].magic
    /\ \/ /\ event[e].signalled
          /\ event' = [event EXCEPT ![e].signalled = e \notin Auto]
          /\ k' = k
       \/ /\ ~event[e].signalled
          /\ k' = wait_queue_block(k, e, timeout,
                                  IF timeout = INFINITE_TIME THEN "run" ELSE "timed")
          /\ event' = event
    /\ UNCHANGED <<mutex, dpcs, dpc, has>>

event_unsignal(e) ==
    /\ Running
    /\ event[e].magic
    /\ event' = [event EXCEPT ![e].signalled = FALSE]
    /\ UNCHANGED <<k, mutex, dpcs, dpc, has>>

event_destroy(e) ==
    /\ Running
    /\ event[e].magic
    /\ event' = [event EXCEPT ![e] = [magic |-> FALSE, signalled |-> FALSE]]
    /\ k' = wait_queue_wake_all(k, e, TRUE, "ERR_OBJECT_DESTROYED")
    /\ UNCHANGED <<mutex, dpcs, dpc, has>>

event_init(e) ==
    /\ Running
    /\ ~event[e].magic
    /\ event' = [event EXCEPT ![e].magic = TRUE]
    /\ UNCHANGED <<k, mutex, dpcs, dpc, has>>

-----------------------------------------------------------------------------
(* Mutexes (mutex.c).  A caller never acquires a mutex it holds, and never *)
(* releases one it does not hold: the code panics.                         *)

mutex_acquire(m, timeout) ==
    /\ Running
    /\ mutex[m].magic /\ mutex[m].holder # Cur
    /\ \/ /\ mutex[m].count + 1 <= 1
          /\ mutex' = [mutex EXCEPT ![m].count = @ + 1, ![m].holder = Cur]
          /\ has' = [has EXCEPT ![Cur] = @ \union {m}]
          /\ k' = k
       \/ /\ mutex[m].count + 1 > 1
          /\ mutex' = [mutex EXCEPT ![m].count = @ + 1]
          /\ has' = has
          /\ k' = wait_queue_block(k, m, timeout,
                                  IF timeout = INFINITE_TIME THEN "acquire" ELSE "timed")
    /\ UNCHANGED <<event, dpcs, dpc>>

(* Mutant: the releasing thread wakes the thread that came last.           *)
mutex_release_lifo(m) ==
    /\ Running
    /\ mutex[m].magic /\ mutex[m].holder = Cur
    /\ mutex' = [mutex EXCEPT ![m].holder = NoThread, ![m].count = @ - 1]
    /\ has' = [has EXCEPT ![Cur] = @ \ {m}]
    /\ LET last == [i \in DOMAIN k.wq[m] |-> k.wq[m][Len(k.wq[m]) + 1 - i]]
       IN  k' = wait_queue_wake_one([k EXCEPT !.wq[m] = last], m, TRUE, "NO_ERROR")
    /\ UNCHANGED <<event, dpcs, dpc>>

mutex_release(m) ==
    /\ Running
    /\ mutex[m].magic /\ mutex[m].holder = Cur
    /\ mutex' = [mutex EXCEPT ![m].holder = NoThread, ![m].count = @ - 1]
    /\ has' = [has EXCEPT ![Cur] = @ \ {m}]
    /\ k' = IF mutex[m].count - 1 >= 1 THEN wait_queue_wake_one(k, m, TRUE, "NO_ERROR") ELSE k
    /\ UNCHANGED <<event, dpcs, dpc>>

(* As the check that is commented out in the code asks, by the holder if   *)
(* there is one.                                                           *)
mutex_destroy(m) ==
    /\ Running
    /\ mutex[m].magic /\ mutex[m].holder \in {Cur, NoThread}
    /\ mutex' = [mutex EXCEPT ![m].magic = FALSE, ![m].count = 0]
    /\ has' = [has EXCEPT ![Cur] = @ \ {m}]
    /\ k' = wait_queue_wake_all(k, m, TRUE, "ERR_OBJECT_DESTROYED")
    /\ UNCHANGED <<event, dpcs, dpc>>

mutex_init(m) ==
    /\ Running
    /\ ~mutex[m].magic
    /\ mutex' = [mutex EXCEPT ![m] = [magic |-> TRUE, count |-> 0, holder |-> NoThread]]
    /\ UNCHANGED <<k, event, dpcs, dpc, has>>

(* The rest of mutex_acquire, mutex_acquire_timeout or event_wait_timeout, *)
(* after wait_queue_block; the timer is cancelled first.                   *)
Back ==
    /\ InCritical /\ ~k.leaked
    /\ LET me == k.th[Cur]
           m == me.obj
       IN  /\ k' = [timer_cancel(k, Cur) EXCEPT !.th[Cur].cont = "run", !.th[Cur].obj = NoThread]
           /\ mutex' = IF m \notin Mutex \/ (me.cont = "acquire" /\ me.ret # "NO_ERROR") THEN mutex
                       ELSE IF me.ret = "ERR_TIMED_OUT" THEN [mutex EXCEPT ![m].count = @ - 1]
                       ELSE [mutex EXCEPT ![m].holder = Cur]
           /\ has' = IF m \in Mutex /\ me.ret = "NO_ERROR"
                     THEN [has EXCEPT ![Cur] = @ \union {m}] ELSE has
    /\ UNCHANGED <<event, dpcs, dpc>>

-----------------------------------------------------------------------------
(* Dead threads (dpc.c).  A thread exits without holding a mutex.          *)

(* Mutant: the dpc is queued but the dpc thread not told.                  *)
thread_exit_silent ==
    /\ Running
    /\ has[Cur] = {}
    /\ k' = thread_resched([k EXCEPT !.th[Cur].st = "DEATH"])
    /\ dpcs' = Append(dpcs, Cur)
    /\ UNCHANGED <<mutex, event, dpc, has>>

thread_exit ==
    /\ Running
    /\ has[Cur] = {}
    /\ k' = thread_resched(Woken([k EXCEPT !.th[Cur].st = "DEATH"], DpcEvent, FALSE))
    /\ dpcs' = Append(dpcs, Cur)
    /\ event' = Signalled(k, DpcEvent)
    /\ UNCHANGED <<mutex, dpc, has>>

DpcAt(place) == Cur = Dpc /\ k.th[Dpc].cont = place /\ ~k.leaked

DpcWait ==
    /\ DpcAt("dpcWait")
    /\ k' = IF event[DpcEvent].signalled THEN [k EXCEPT !.th[Dpc].cont = "dpcTake"]
            ELSE wait_queue_block(k, DpcEvent, INFINITE_TIME, "dpcTake")
    /\ UNCHANGED <<mutex, event, dpcs, dpc, has>>

DpcTake ==
    /\ DpcAt("dpcTake")
    /\ \/ /\ dpcs = <<>>
          /\ event' = [event EXCEPT ![DpcEvent].signalled = FALSE]
          /\ k' = [k EXCEPT !.th[Dpc].cont = "dpcWait"]
          /\ UNCHANGED <<dpcs, dpc>>
       \/ /\ dpcs # <<>>
          /\ dpc' = Head(dpcs)
          /\ dpcs' = Tail(dpcs)
          /\ k' = [k EXCEPT !.th[Dpc].cont = "dpcRun"]
          /\ event' = event
    /\ UNCHANGED <<mutex, has>>

thread_cleanup_dpc ==
    /\ DpcAt("dpcRun")
    /\ k' = [k EXCEPT !.th[Dpc].cont = "dpcWait", !.th[dpc] = NewThread]
    /\ dpc' = NoThread
    /\ UNCHANGED <<mutex, event, dpcs, has>>

DpcStep == DpcWait \/ DpcTake \/ thread_cleanup_dpc

-----------------------------------------------------------------------------
(* Interrupts; their return path calls thread_preempt when the handler     *)
(* asks for it, as timer_tick always does.                                 *)

Tick ==
    /\ ~InCritical /\ ~k.leaked
    /\ \E fired \in {thread_timer_tick(timer_tick(k))} : k' = thread_preempt(fired)
    /\ UNCHANGED <<mutex, event, dpcs, dpc, has>>

(* A device whose handler signals an event, as the USB controller's does.  *)
DeviceIrq(e, reschedule) ==
    /\ ~InCritical /\ ~k.leaked
    /\ event[e].magic
    /\ k' = LET w == Woken(k, e, FALSE) IN IF reschedule THEN thread_preempt(w) ELSE w
    /\ event' = Signalled(k, e)
    /\ UNCHANGED <<mutex, dpcs, dpc, has>>

-----------------------------------------------------------------------------

ThreadStep ==
    \/ \E t \in User : thread_create(t) \/ thread_resume(t)
    \/ Yield \/ thread_exit
    \/ \E d \in Delays : thread_sleep(d)
    \/ \E e \in Event :
         \/ \E r \in BOOLEAN : event_signal(e, r)
         \/ \E d \in Timeouts \union {INFINITE_TIME} : event_wait(e, d)
         \/ event_unsignal(e)
    \/ \E e \in Event \intersect Destroyed : event_destroy(e) \/ event_init(e)
    \/ \E m \in Mutex :
         \/ \E d \in Timeouts \union {INFINITE_TIME} : mutex_acquire(m, d)
         \/ mutex_release(m)
    \/ \E m \in Mutex \intersect Destroyed : mutex_destroy(m) \/ mutex_init(m)

Next ==
    \/ ThreadStep \/ Back \/ DpcStep \/ Tick
    \/ \E e \in Event, r \in BOOLEAN : DeviceIrq(e, r)

Spec == Init /\ [][Next]_vars

(* The CPU goes on executing, and the timer interrupt is periodic: one     *)
(* that comes in a critical section is pending until its end.              *)
FairSpec == Spec /\ WF_vars(DpcStep) /\ WF_vars(Back) /\ SF_vars(Tick)

-----------------------------------------------------------------------------
(* Every variable has its type; the counts of waiters are not bounded.     *)
TypeOK ==
    /\ k \in [cur : Thread, th : [Thread -> ThreadRecord],
              runq : [Priorities -> Seq(Thread)], bitmap : SUBSET Priorities,
              wq : [WaitObj -> Seq(Thread)], count : [WaitObj -> Int],
              timers : Seq(TimerRecord), leaked : BOOLEAN]
    /\ mutex \in [Mutex -> [magic : BOOLEAN, count : Int, holder : Thread \union {NoThread}]]
    /\ event \in [Event \union {DpcEvent} -> [magic : BOOLEAN, signalled : BOOLEAN]]
    /\ dpcs \in Seq(Thread)
    /\ dpc \in Thread \union {NoThread}
    /\ has \in [Thread -> SUBSET Mutex]

St(t) == k.th[t].st

In(t, s) == \E i \in DOMAIN s : s[i] = t

(* The state of a thread says where it is, and it is nowhere else and not  *)
(* there twice: a thread has one queue_node for all queues.  And what      *)
(* thread.c remembers about the lists is right: run_queue_bitmap, by which *)
(* thread_resched finds a thread, and the count of each wait queue, by     *)
(* which wait_queue_wake_all decides to reschedule.                        *)
OneQueueEach ==
    /\ \A p \in Priorities : IsInjective(k.runq[p])
    /\ \A w \in WaitObj : IsInjective(k.wq[w])
    /\ \A t \in Thread :
         /\ St(t) = "RUNNING" <=> t = Cur
         /\ \A p \in Priorities : In(t, k.runq[p]) <=> St(t) = "READY" /\ p = Prio[t]
         /\ \A w \in WaitObj :
              In(t, k.wq[w]) <=> St(t) = "BLOCKED" /\ w = k.th[t].obj
         /\ (\E i \in DOMAIN k.timers : k.timers[i].t = t /\ k.timers[i].kind = "sleep")
              <=> St(t) = "SLEEPING"
         /\ (In(t, dpcs) \/ t = dpc) <=> St(t) = "DEATH"
    /\ k.bitmap = {p \in Priorities : k.runq[p] # <<>>}
    /\ \A w \in WaitObj : k.count[w] = Len(k.wq[w])

(* A timer in the queue belongs to a call that has not returned: it is a   *)
(* local variable of thread_sleep or of wait_queue_block.                  *)
TimersAlive ==
    \A i \in DOMAIN k.timers :
        LET x == k.timers[i]
        IN  IF x.kind = "sleep" THEN St(x.t) = "SLEEPING" ELSE k.th[x.t].cont = "timed"

Owners(m) == {t \in Thread : m \in has[t]}

(* The threads that mutex_release has woken and that have not run since.   *)
Heirs(m) == {t \in Thread : /\ St(t) \in {"READY", "RUNNING"}
                            /\ k.th[t].cont \in {"acquire", "timed"}
                            /\ k.th[t].obj = m /\ k.th[t].ret = "NO_ERROR"}

(* At most one thread has the mutex or is about to, and holder says which  *)
(* has it, across the handover in mutex_release.                           *)
MutualExclusion ==
    \A m \in Mutex :
        /\ \A t, u \in Owners(m) \union Heirs(m) : t = u
        /\ \A t \in Thread : mutex[m].magic => (mutex[m].holder = t <=> t \in Owners(m))

(* No thread waits for an event that is signalled: neither a signal before *)
(* the wait nor one racing with it is lost.                                *)
NoLostSignal ==
    \A e \in Event \union {DpcEvent} : event[e].signalled => k.wq[e] = <<>>

(* The event of the dpc thread stays signalled while there is a dpc to     *)
(* run, whatever threads exit between its look at the list and its wait.   *)
NoLostDpc == dpcs # <<>> => event[DpcEvent].signalled

(* After a timer interrupt no ready thread has a higher priority than the  *)
(* running one; and a thread that keeps the CPU although another of its    *)
(* priority is ready has used up some of its quantum and has some left.    *)
TickShares ==
    Tick => /\ \A t \in Thread : k'.th[t].st = "READY" => Prio[t] <= Prio[k'.cur]
            /\ (k'.cur = Cur /\ \E t \in Thread : St(t) = "READY" /\ Prio[t] = Prio[Cur])
               => k'.th[Cur].q < k.th[Cur].q /\ k'.th[Cur].q > 0

(* A dead thread is freed.                                                 *)
DeadAreFreed == \A t \in User : St(t) = "DEATH" ~> St(t) = "NONE"

(* The owner of a mutex is the thread that has it or was handed it.        *)
Lock == INSTANCE FifoLock WITH
    Lock <- Mutex, Client <- Thread, NoOwner <- NoThread,
    owner <- [m \in Mutex |->
                IF Owners(m) \union Heirs(m) = {} THEN NoThread
                ELSE CHOOSE t \in Owners(m) \union Heirs(m) : TRUE],
    waiting <- [m \in Mutex |-> k.wq[m]]

(* Every mutex implements a lock that is handed over first come, first     *)
(* served, whatever the priorities and the timer interrupts.               *)
ImplementsFifoLock == Lock!Spec

(* thread_resched, thread_timer_tick and the mutexes: queues, bitmap and   *)
(* counts say what the states say, a mutex has one owner, and after a tick *)
(* no thread of a higher priority, or of the same one whose turn it is,    *)
(* waits.                                                                  *)
SchedulerSound == [][TypeOK' /\ OneQueueEach' /\ MutualExclusion' /\ TickShares]_vars

(* wait_queue_block, event_signal and the dpc thread: no timer outlives    *)
(* the call on whose stack it is, and no waiter misses its signal.         *)
WaitsSound == TimersAlive /\ NoLostSignal /\ NoLostDpc
=============================================================================
