------------------------------ MODULE StartUp -------------------------------
(***************************************************************************)
(* What the start-up sequences above the boot loader have in common: the   *)
(* kernel's decompressor and entry code (KernelHead), start_kernel and the *)
(* first threads (KernelStart), the scripts of init and its commands       *)
(* (InitScript, InitCommands), the virtual machine in app_process          *)
(* (RuntimeStart), and the system server (SystemServer).  Each of them     *)
(* takes many steps in an order its code fixes, some of them on other      *)
(* processors or threads, some of them failing.  The modules share these   *)
(* variables; a behaviour is about one sequence, chosen initially.         *)
(***************************************************************************)
EXTENDS Naturals

CONSTANT MaxFailures   \* parts that fail to come up in one behaviour

ASSUME StartUpBounds == MaxFailures \in Nat

VARIABLES
    which,   \* the sequence and the configuration it runs with
    st,      \* its state; st.phase is "running" until it has ended
    fails    \* failures still to come

startVars == <<which, st, fails>>

Runs(kind) == which.kind = kind /\ st.phase = "running"

\* A use of something; `ready' tells whether it could be used.
Uses(s, thing, ready) ==
    [s EXCEPT !.misused = IF ready THEN @ ELSE @ \cup {thing}]

Becomes(s) == \E next \in {s} : st' = next /\ UNCHANGED which

Fails == fails > 0 /\ fails' = fails - 1

-----------------------------------------------------------------------------
\* Nothing is used before it is up or after it is gone.  The decompressor
\* overwrites nothing that it still needs and jumps to no code that the caches
\* hold a stale copy of, but for the ARM94x (head.S:1110); a processor finds its boot parameters and its own code
\* mapped when it turns the MMU on.  The kernel takes no interrupt before its
\* handlers are set up, asks for no kernel thread before kthreadd exists and
\* runs no initialisation code after its memory was freed.  A command of init
\* uses no descriptor, buffer or context that it does not hold and returns with
\* none left, those that InitCommands names apart.  Java code enters no native
\* method that is not registered.  Whatever is disabled, the system server has
\* made what it calls unless something failed (or it is the network policy that
\* NullKnown names), and third-party code starts with the core services made.
UsesReady == st.misused = {}

\* What is to be done once is never done twice: the decompressor moves itself
\* and a processor enters the kernel once, an option of the kernel command line
\* reaches its handler once over the ten passes made over it, a class's native
\* methods are registered once, and a service is told once that the system is
\* ready.
DoneOnce == \A x \in DOMAIN st.told : st.told[x] <= 1

\* Every start-up sequence ends, whatever fails on the way: in its main loop, in
\* user space, in the result of the command or the script, or in a failure that
\* stops the process or the machine.
StartEnds == <>(st.phase # "running")
=============================================================================
