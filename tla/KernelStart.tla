---------------------------- MODULE KernelStart -----------------------------
(***************************************************************************)
(* The start of the Linux kernel: init/main.c and the setup_arch of ARM    *)
(* and ARM64.  The boot thread runs start_kernel and becomes the idle      *)
(* thread; kernel_init (pid 1) runs the initcalls, frees the initialisation*)
(* memory and starts the first program; initcalls leave asynchronous       *)
(* initialisation behind.  The threads interleave from the moment they     *)
(* exist: a fork may sleep.                                                *)
(***************************************************************************)
EXTENDS StartUp, Integers, Sequences, FiniteSets, SequencesExt, Functions

CONSTANTS MaxInitArgs,    \* MAX_INIT_ARGS
          MaxInitEnvs,    \* MAX_INIT_ENVS
          NrBanks,        \* NR_BANKS
          PageSize,       \* PAGE_SIZE
          AddrSpace,      \* number of physical addresses, 2^32 in the code
          PhysOffset,     \* PHYS_OFFSET
          CommandLines,   \* command lines: sequences of options <<key, value>>
          Regions,        \* memory the firmware reports: sequences of [start, size]
          Machines        \* [arch, cpu, dt]: which kernel, and whether it knows
                          \* the processor and finds a machine description

Null == <<"null", 0>>

Opt(k, v) == <<k, v>>
Key(o) == o[1]
Val(o) == o[2]

Option(i) == which.cmdline[i]

-----------------------------------------------------------------------------
(* Memory.                                                                 *)

AlignUp(a) == (((a + PageSize - 1) \div PageSize) * PageSize) % AddrSpace

AlignDown(a) == (a \div PageSize) * PageSize

\* One more bank; addresses and sizes are 32 bits wide.
arm_add_memory(banks, r) ==
    LET size0 == (r.size - (r.start % PageSize)) % AddrSpace
        start == AlignUp(r.start)
        size  == AlignDown(IF (start + size0) % AddrSpace < start
                           THEN AddrSpace - 1 - start ELSE size0)
    IN  IF Len(banks) >= NrBanks \/ size = 0 THEN banks
        ELSE Append(banks, [start |-> start, size |-> size])

\* ARM64: what lies below PHYS_OFFSET is cut off.
early_init_dt_add_memory_arch(banks, r) ==
    LET base == AlignDown(r.start)
        size == AlignDown(r.size)
        cut  == IF base < PhysOffset THEN PhysOffset - base ELSE 0
    IN  IF base + size < PhysOffset THEN banks
        ELSE Append(banks, [start |-> base + cut, size |-> size - cut])

Sorted(banks) == SortSeq(banks, LAMBDA a, b : a.start < b.start)

\* memblock_enforce_memory_limit: only the first `limit' bytes are kept.
enforce_limit(banks, limit) ==
    LET Before(i) == FoldSeq(LAMBDA b, n : n + b.size, 0, SubSeq(banks, 1, i - 1))
        Kept(i) == [banks[i] EXCEPT !.size =
                       IF limit <= Before(i) THEN 0
                       ELSE IF limit - Before(i) < @ THEN limit - Before(i) ELSE @]
    IN  [i \in DOMAIN banks |-> Kept(i)]

\* mem=: on ARM the first one discards what the firmware reported, and each
\* adds a bank; on ARM64 it is a limit.
early_mem(s, v) ==
    IF which.machine.arch = "arm64"
    THEN [s EXCEPT !.banks = enforce_limit(Sorted(@), AlignDown(v.size))]
    ELSE [s EXCEPT !.banks = arm_add_memory(IF s.usermem THEN @ ELSE <<>>, v),
                   !.usermem = TRUE]

-----------------------------------------------------------------------------
(* The command line.                                                       *)

Tell(s, i) == [s EXCEPT !.told[i] = @ + 1]

\* The first slot of argv_init or envp_init that is free or among those given;
\* slots are numbered from 0.
Slot(a, same) ==
    LET fit == {j \in DOMAIN a : a[j] = Null} \cup same
    IN  CHOOSE j \in fit : \A m \in fit : j <= m

\* Mutant: the arguments before init= are kept.
DiscardNothing(argv) == argv

\* init= and rdinit= discard the arguments before them.
DiscardArgs(argv) ==
    [j \in DOMAIN argv |-> IF j \in 1 .. MaxInitArgs - 1 THEN Null ELSE argv[j]]

init_setup(s, o) == [s EXCEPT !.execute_command = o, !.argv = DiscardArgs(@)]

rdinit_setup(s, o) == [s EXCEPT !.ramdisk = o, !.argv = DiscardArgs(@)]

ToEnv(s, o) ==
    LET same == {n \in DOMAIN s.envp : s.envp[n] # Null /\ Val(s.envp[n])[1] = Val(o)[1]}
        j == Slot(s.envp, same)
    IN  [s EXCEPT !.envp[j] = o,
                  !.panic_later = @ \/ (j >= MaxInitEnvs /\ s.envp[MaxInitEnvs] # Null)]

ToArg(s, o) ==
    LET j == Slot(s.argv, {})
    IN  [s EXCEPT !.argv[j] = o, !.panic_later = @ \/ j > MaxInitArgs]

\* Options with a __setup handler (obsolete_checksetup), early ones (done
\* already), module parameters, and what is left for the first program.
unknown_bootoption(s, i) ==
    LET o == Option(i) IN
    CASE Key(o) = "init"   -> Tell(init_setup(s, o), i)
      [] Key(o) = "rdinit" -> Tell(rdinit_setup(s, o), i)
      [] Key(o) = "env" /\ ~s.panic_later -> Tell(ToEnv(s, o), i)
      [] Key(o) = "arg" /\ ~s.panic_later -> Tell(ToArg(s, o), i)
      [] OTHER -> s

do_early_param(s, i) ==
    IF Key(Option(i)) = "mem" THEN Tell(early_mem(s, Val(Option(i))), i) ELSE s

repair_env_string(s, i) == s

\* A pass over the options in s.text for the kernel parameters of one level;
\* the others go to unknown_bootoption in the first pass, to repair_env_string
\* in the later ones.  It cuts the text behind the first option.
parse_args(s, level) ==
    LET One(a, i) == IF Key(Option(i)) # "param"
                     THEN IF level = -1 THEN unknown_bootoption(a, i) ELSE repair_env_string(a, i)
                     ELSE IF Val(Option(i)) = level THEN Tell(a, i) ELSE a
    IN  [FoldLeft(One, s, s.text) EXCEPT !.text = SelectSeq(@, LAMBDA i : i = 1)]

All == [i \in DOMAIN which.cmdline |-> i]

\* Mutant: the early options are parsed by setup_arch and again by start_kernel.
ParseEarlyAgain(s) == FoldLeft(do_early_param, s, All)

\* Called by setup_arch and by start_kernel; works on a copy of the line.
parse_early_param(s) ==
    IF s.early_done THEN s
    ELSE [FoldLeft(do_early_param, s, All) EXCEPT !.early_done = TRUE]

setup_command_line(s) == [s EXCEPT !.text = All]

\* The command line as the boot loader passed it is parsed once more.
ParseLevel(s, level) ==
    parse_args(setup_command_line(s), level)

-----------------------------------------------------------------------------
(* The boot thread.                                                        *)

Stop(s, how) == [s EXCEPT !.phase = how]

\* The processor is looked up in the list the linker made.
setup_processor == which.machine.cpu

\* The machine description, from the device tree or the tags.
setup_machine_fdt == which.machine.dt

\* An unknown processor, or no usable machine description, stops the machine
\* in an endless loop.
setup_arch(s) ==
    LET given == IF which.machine.arch = "arm"
                 THEN FoldLeft(arm_add_memory, <<>>, which.memory)
                 ELSE FoldLeft(early_init_dt_add_memory_arch, <<>>, which.memory)
        parsed == parse_early_param([s EXCEPT !.banks = given])
    IN  IF ~setup_processor \/ ~setup_machine_fdt THEN Stop(s, "hung")
        ELSE [parsed EXCEPT !.banks = Sorted(@)]

\* start_kernel in the order of its code; each stage makes something usable.
Stages == <<"early", "setup_arch", "options", "memory", "scheduler", "irq",
            "time", "enable", "console", "late", "rest_init">>

Enable(s) == Uses([s EXCEPT !.irqs = TRUE, !.early_irqs_disabled = FALSE],
                  "scheduler", "scheduler" \in s.up)

start_kernel(s) ==
    LET stage == Stages[s.boot]
        next == [s EXCEPT !.boot = @ + 1, !.up = @ \cup {stage}]
    IN  CASE stage = "early" -> [next EXCEPT !.irqs = FALSE, !.early_irqs_disabled = TRUE]
          [] stage = "setup_arch" -> setup_arch(next)
          [] stage = "options" ->
                parse_args(parse_early_param(setup_command_line(next)), -1)
          [] stage = "enable" -> Enable(next)
          [] stage = "console" -> IF s.panic_later THEN Stop(next, "panic") ELSE next
          [] OTHER -> next

BootThread ==
    /\ Runs("kernel") /\ st.boot < Len(Stages)
    /\ Becomes(start_kernel(Uses(st, "initmem", ~st.freed)))
    /\ UNCHANGED fails

\* rest_init is not initialisation code: pid 1 first, then kthreadd, then the
\* completion that lets pid 1 go on.
rest_init ==
    /\ Runs("kernel") /\ st.boot >= Len(Stages)
    /\ \/ /\ st.rest = "init"
          /\ st' = [st EXCEPT !.rest = "kthreadd", !.init = "wait"]
       \/ /\ st.rest = "kthreadd"
          /\ st' = [st EXCEPT !.rest = "complete", !.kthreadd = TRUE]
       \/ /\ st.rest = "complete"
          /\ st' = [st EXCEPT !.rest = "idle", !.kthreadd_done = TRUE]
    /\ UNCHANGED <<which, fails>>

\* A device interrupt (external): the handlers need these parts.
Interrupt ==
    /\ Runs("kernel") /\ st.irqs /\ ~st.interrupted
    /\ st' = [Uses(st, "interrupts", ~st.early_irqs_disabled
                            /\ {"scheduler", "irq", "time"} \subseteq st.up)
                EXCEPT !.interrupted = TRUE]
    /\ UNCHANGED <<which, fails>>

-----------------------------------------------------------------------------
(* Pid 1.                                                                  *)

Levels == 8   \* initcall_levels: early, core, postcore, ..., late

\* Mutant: pid 1 does not wait for kthreadd.
WaitForNothing ==
    /\ Runs("kernel") /\ st.init = "wait"
    /\ st' = [st EXCEPT !.init = "call"]
    /\ UNCHANGED <<which, fails>>

\* kernel_init_freeable: the wait at its head.
WaitForKthreadd ==
    /\ Runs("kernel") /\ st.init = "wait"
    /\ st.kthreadd_done
    /\ st' = [st EXCEPT !.init = "call"]
    /\ UNCHANGED <<which, fails>>

\* One initcall stands for those of a level (level -1: before the other CPUs
\* start).  It may create threads, leave initialisation to run asynchronously,
\* and return with interrupts or preemption disabled.
Initcall ==
    /\ Runs("kernel") /\ st.init = "call"
    /\ \E irqs \in BOOLEAN, off \in 0 .. 1, async \in 0 .. 1 :
          LET s == Uses(Uses(st, "kthreadd", st.kthreadd), "initmem", ~st.freed)
              p == IF st.level = -1 THEN s ELSE ParseLevel(s, st.level)
          IN  Becomes([p EXCEPT !.irqs = irqs, !.preempt = off, !.init = "check",
                                !.async = IF @ = 0 THEN async ELSE @])
    /\ UNCHANGED fails

\* do_one_initcall repairs what the call left behind.
Repair(s) == [s EXCEPT !.irqs = TRUE, !.preempt = 0]

do_one_initcall ==
    /\ Runs("kernel") /\ st.init = "check"
    /\ st' = [Repair(st) EXCEPT !.level = @ + 1,
                                !.init = IF st.level = Levels - 1 THEN "ramdisk" ELSE "call"]
    /\ UNCHANGED <<which, fails>>

\* The rest of kernel_init_freeable: rdinit=, or /init, is used only if it is
\* there; otherwise the real root file system is mounted.
FindRamdisk ==
    /\ Runs("kernel") /\ st.init = "ramdisk"
    /\ LET rd == IF st.ramdisk = Null THEN Opt("rdinit", "/init") ELSE st.ramdisk
       IN  st' = [st EXCEPT !.init = "sync",
                            !.ramdisk = IF Val(rd) \in which.files THEN rd ELSE Null]
    /\ UNCHANGED <<which, fails>>

\* Asynchronous initialisation, on a kernel thread of its own.
AsyncInit ==
    /\ Runs("kernel") /\ st.async = 1
    /\ st' = [Uses(st, "initmem", ~st.freed) EXCEPT !.async = 0]
    /\ UNCHANGED <<which, fails>>

\* Waiting needs the scheduler, hence preemption enabled.
FreeInitmem ==
    /\ Runs("kernel") /\ st.init = "sync"
    /\ st.async = 0
    /\ st' = [Uses(st, "schedule", st.preempt = 0) EXCEPT !.freed = TRUE, !.init = "exec"]
    /\ UNCHANGED <<which, fails>>

Programs(s) ==
    LET Given(o) == IF o = Null THEN <<>> ELSE <<Val(o)>>
    IN  Given(s.ramdisk) \o Given(s.execute_command)
            \o <<"/sbin/init", "/etc/init", "/bin/init", "/bin/sh">>

\* run_init_process for each candidate until one can be executed.
ExecInit ==
    /\ Runs("kernel") /\ st.init = "exec"
    /\ LET good == SelectSeq(Programs(st), LAMBDA f : f \in which.files)
       IN  st' = IF good = <<>> THEN Stop(st, "panic")
                 ELSE [Stop(st, "user space") EXCEPT !.argv[0] = Opt("prog", good[1])]
    /\ UNCHANGED <<which, fails>>

-----------------------------------------------------------------------------
KernelInit ==
    \E c \in CommandLines, m \in Regions, mach \in Machines,
       files \in {{}, {"/sbin/init"}, {"/init", "/my"}} :
        /\ which = [kind |-> "kernel", cmdline |-> c, memory |-> m,
                    machine |-> mach, files |-> files]
        /\ st = [phase |-> "running", misused |-> {}, told |-> [i \in DOMAIN c |-> 0],
                 boot |-> 1, rest |-> "init", init |-> "none", up |-> {},
                 kthreadd |-> FALSE, kthreadd_done |-> FALSE,
                 irqs |-> FALSE, early_irqs_disabled |-> FALSE, preempt |-> 0,
                 interrupted |-> FALSE, async |-> 0, freed |-> FALSE, level |-> -1,
                 text |-> <<>>, early_done |-> FALSE, panic_later |-> FALSE,
                 execute_command |-> Null, ramdisk |-> Null,
                 argv |-> [j \in 0 .. MaxInitArgs + 1 |->
                             IF j = 0 THEN Opt("prog", "init") ELSE Null],
                 envp |-> [j \in 0 .. MaxInitEnvs + 1 |->
                             CASE j = 0 -> Opt("env", <<"HOME", 0>>)
                               [] j = 1 -> Opt("env", <<"TERM", 0>>)
                               [] OTHER -> Null],
                 banks |-> <<>>, usermem |-> FALSE]
        /\ fails = MaxFailures

KernelThreads == \/ BootThread \/ rest_init \/ WaitForKthreadd \/ Initcall
                 \/ do_one_initcall \/ FindRamdisk \/ AsyncInit
                 \/ FreeInitmem \/ ExecInit

KernelNext == KernelThreads \/ Interrupt

\* Some thread can run.
KernelReady ==
    /\ Runs("kernel")
    /\ \/ st.rest # "idle"
       \/ st.init = "wait" /\ st.kthreadd_done
       \/ st.init = "sync" /\ st.async = 0
       \/ st.init \notin {"none", "wait", "sync"}
       \/ st.async = 1

\* The scheduler runs a thread that can run: weak fairness of KernelThreads.
KernelFairness == []<>(~KernelReady) \/ []<><<KernelThreads>>_startVars

-----------------------------------------------------------------------------
(* What the first program gets.                                            *)

IsInit(i) == Key(Option(i)) \in {"init", "rdinit"}

\* The arguments behind the last init= or rdinit=.
ArgsMeant ==
    SelectSeq(All, LAMBDA i : Key(Option(i)) = "arg"
                              /\ \A j \in DOMAIN which.cmdline : IsInit(j) => j < i)

ArgsGiven ==
    LET n == CHOOSE n \in 0 .. MaxInitArgs + 1 :
                /\ n = MaxInitArgs + 1 \/ st.argv[n + 1] = Null
                /\ \A j \in 1 .. n : st.argv[j] # Null
    IN  [j \in 1 .. n |-> st.argv[j]]

ArgsBefore(i) == Cardinality({j \in 1 .. i - 1 : Key(Option(j)) = "arg"})

MemOptions == {i \in DOMAIN which.cmdline : Key(Option(i)) = "mem"}

\* mem= replaces what the firmware reported (ARM) or limits it (ARM64), and no
\* bank wraps around the end of the address space.
MemoryMeant ==
    IF which.machine.arch = "arm"
    THEN /\ Len(st.banks) <= NrBanks
         /\ \A b \in Range(st.banks) :
              /\ b.start + b.size < AddrSpace
              /\ MemOptions = {} \/ \E i \in MemOptions : AlignUp(Val(Option(i)).start) = b.start
    ELSE \A i \in MemOptions :
            FoldSeq(LAMBDA b, n : n + b.size, 0, st.banks) <= Val(Option(i)).size

\* The options of the command line take effect.  The first program gets the
\* arguments that stand behind the last init= or rdinit=, in their order, and
\* the last value of every variable; mem= decides on the memory.  The arguments
\* are exact when fewer than MAX_INIT_ARGS of them stand before an init=: that
\* option clears one slot less than the table has.
OptionsTakeEffect ==
    (which.kind = "kernel" /\ st.phase = "user space") =>
        /\ MemoryMeant
        /\ (\A i \in DOMAIN which.cmdline : IsInit(i) => ArgsBefore(i) < MaxInitArgs)
              => ArgsGiven = [j \in DOMAIN ArgsMeant |-> Option(ArgsMeant[j])]
        /\ \A i \in DOMAIN which.cmdline :
             (Key(Option(i)) = "env"
              /\ \A j \in DOMAIN which.cmdline :
                    j > i => ~(Key(Option(j)) = "env" /\ Val(Option(j))[1] = Val(Option(i))[1]))
              => Option(i) \in Range(st.envp)
=============================================================================
