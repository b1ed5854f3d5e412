------------------------------ MODULE LkCritical ------------------------------
(***************************************************************************)
(* Critical sections of LK (include/kernel/thread.h) against the interrupt *)
(* entry and exit of arch/arm/exceptions.S and the context switch of       *)
(* kernel/thread.c, instruction by instruction where interrupts may come.  *)
(*                                                                         *)
(* LkThread takes for granted that a critical section is atomic; here      *)
(* critical_section_count is an ordinary variable, loaded and stored       *)
(* without protection, and saved and restored with each thread.            *)
(***************************************************************************)
EXTENDS Integers

CONSTANTS
    Thread,    \* the threads
    Boot,      \* the one that runs kmain
    MaxDepth   \* how deep critical sections are nested

ASSUME BootAssumption == Boot \in Thread

ASSUME DepthAssumption == MaxDepth \in Nat \ {0}

VARIABLES
    cur,     \* current_thread
    count,   \* critical_section_count
    ints,    \* interrupts are enabled in the CPU
    th       \* the threads

vars == <<cur, count, ints, th>>

(* "enter1" and "enter2" are between the load, the store and the test of   *)
(* enter_critical_section, "exit1" and "exit2" those of                    *)
(* exit_critical_section; at "leaving" the thread has given up its state   *)
(* RUNNING and is about to call thread_resched, and "away" it is inside.   *)
Places == {"run", "enter1", "enter2", "exit1", "exit2", "leaving", "away"}

(* depth counts the critical sections entered, reg is what was loaded, and *)
(* irq says that the thread was preempted by an interrupt.                 *)
ThreadRecord ==
    [pc : Places, depth : 0..MaxDepth, reg : Int, saved : Int, irq : BOOLEAN]

(* A thread that was created starts inside a critical section, as if it    *)
(* had called thread_resched there.                                        *)
Init ==
    /\ cur = Boot
    /\ count = 1
    /\ ints = FALSE
    /\ th = [t \in Thread |->
               [pc |-> IF t = Boot THEN "run" ELSE "away",
                depth |-> 1, reg |-> 0, saved |-> 1, irq |-> FALSE]]

At(place) == th[cur].pc = place /\ ~th[cur].irq

EnterLoad ==
    /\ At("run") /\ th[cur].depth < MaxDepth
    /\ th' = [th EXCEPT ![cur].pc = "enter1", ![cur].reg = count]
    /\ UNCHANGED <<cur, count, ints>>

EnterStore ==
    /\ At("enter1")
    /\ count' = th[cur].reg + 1
    /\ th' = [th EXCEPT ![cur].pc = "enter2"]
    /\ UNCHANGED <<cur, ints>>

EnterTest ==
    /\ At("enter2")
    /\ ints' = (ints /\ count # 1)
    /\ th' = [th EXCEPT ![cur].pc = "run", ![cur].depth = @ + 1]
    /\ UNCHANGED <<cur, count>>

ExitLoad ==
    /\ At("run") /\ th[cur].depth > 0
    /\ th' = [th EXCEPT ![cur].pc = "exit1", ![cur].reg = count]
    /\ UNCHANGED <<cur, count, ints>>

ExitStore ==
    /\ At("exit1")
    /\ count' = th[cur].reg - 1
    /\ th' = [th EXCEPT ![cur].pc = "exit2"]
    /\ UNCHANGED <<cur, ints>>

ExitTest ==
    /\ At("exit2")
    /\ ints' = (ints \/ count = 0)
    /\ th' = [th EXCEPT ![cur].pc = "run", ![cur].depth = @ - 1]
    /\ UNCHANGED <<cur, count>>

(* thread_yield, thread_sleep, wait_queue_block and the others: the state  *)
(* and the queues of the running thread are changed inside a critical      *)
(* section, before thread_resched.                                         *)
Leave ==
    /\ At("run") /\ th[cur].depth > 0
    /\ th' = [th EXCEPT ![cur].pc = "leaving"]
    /\ UNCHANGED <<cur, count, ints>>

(* The thread that is switched to goes on where it was.                    *)
Resumed(r) == [r EXCEPT !.pc = IF r.irq THEN r.pc ELSE "run"]

(* Mutant: the counter is not switched with the threads.                   *)
ReschedSharesCount(u) ==
    /\ At("leaving")
    /\ cur' = u
    /\ th' = [th EXCEPT ![cur].pc = IF u = cur THEN "run" ELSE "away", ![u] = Resumed(@)]
    /\ UNCHANGED <<count, ints>>

(* thread_resched, called in a critical section, switches to u.            *)
Resched(u) ==
    /\ At("leaving")
    /\ cur' = u
    /\ IF u = cur
       THEN /\ th' = [th EXCEPT ![cur].pc = "run"]
            /\ count' = count
       ELSE /\ th' = [th EXCEPT ![cur] = [@ EXCEPT !.pc = "away", !.saved = count],
                                ![u] = Resumed(@)]
            /\ count' = th[u].saved
    /\ ints' = ints

(* arm_irq: count++, the handler, which leaves leak critical sections too  *)
(* many behind, and thread_preempt, which enters one more and switches to  *)
(* u, or leaves it and returns from the interrupt when u is running.       *)
Irq(u, leak) ==
    /\ ints /\ ~th[cur].irq
    /\ th[cur].pc # "leaving"
    /\ cur' = u
    /\ IF u = cur
       THEN /\ count' = count + leak
            /\ UNCHANGED <<ints, th>>
       ELSE /\ th' = [th EXCEPT ![cur] = [@ EXCEPT !.irq = TRUE, !.saved = count + 2 + leak],
                                ![u] = Resumed(@)]
            /\ count' = th[u].saved
            /\ ints' = FALSE

(* The interrupted thread runs again: the rest of thread_preempt and of    *)
(* arm_irq, which restores the program status of the interrupted code.     *)
IrqReturn ==
    /\ th[cur].irq
    /\ count' = count - 2
    /\ ints' = TRUE
    /\ th' = [th EXCEPT ![cur].irq = FALSE]
    /\ UNCHANGED cur

Step ==
    \/ EnterLoad \/ EnterStore \/ EnterTest
    \/ ExitLoad \/ ExitStore \/ ExitTest
    \/ Leave \/ IrqReturn
    \/ \E u \in Thread : Resched(u)

Next == Step \/ \E u \in Thread : Irq(u, 0)

Spec == Init /\ [][Next]_vars

(* With interrupt handlers that call thread_unblock_from_wait_queue for a  *)
(* thread that is not blocked any more: its early return (thread.c:871)    *)
(* leaves a critical section too many behind.                              *)
MaxLeaks == 2

TimeoutSpec ==
    Init /\ [][Next \/ (count < MaxDepth + MaxLeaks /\ \E u \in Thread : Irq(u, 1))]_vars
-----------------------------------------------------------------------------
(* Every variable has its type; the counters are not bounded.              *)
TypeOK ==
    /\ cur \in Thread
    /\ count \in Int
    /\ ints \in BOOLEAN
    /\ th \in [Thread -> ThreadRecord]

(* Interrupts are disabled while the running thread is in a critical       *)
(* section or in the return path of an interrupt, and enabled while it is  *)
(* in none, whatever switches and interrupts came in between.              *)
SectionsMaskInterrupts ==
    th[cur].pc \in {"run", "leaving"} =>
        (ints <=> th[cur].depth = 0 /\ ~th[cur].irq)

(* The assertion current_thread->state == THREAD_RUNNING of thread_preempt *)
(* (thread.c:429) holds: no interrupt finds a thread that is on its way    *)
(* out of the CPU.                                                         *)
PreemptsRunningOnly == ints => th[cur].pc # "leaving"
=============================================================================
