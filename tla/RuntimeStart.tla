---------------------------- MODULE RuntimeStart ----------------------------
(***************************************************************************)
(* app_process: app_main.cpp and AndroidRuntime.cpp.  The process may      *)
(* re-execute itself to get the memory layout it wants, reads its          *)
(* arguments, collects the options of the virtual machine, creates it,     *)
(* registers the native methods and enters a Java main; native threads     *)
(* made afterwards attach themselves to the machine.                       *)
(***************************************************************************)
EXTENDS StartUp, Integers, Sequences, FiniteSets, SequencesExt

CONSTANTS AppArgs,      \* argument lists of app_process, without argv[0]
          PropSets,     \* sets of dalvik.vm properties that are set
          Natives,      \* number of entries of gRegJNI
          NativeThreads \* threads the thread pool may start

Proc(pc) == which.kind = "runtime" /\ st.pc = pc /\ st.phase = "running"

To(pc) == [st EXCEPT !.pc = pc]

Ends(how) == [st EXCEPT !.phase = how]

-----------------------------------------------------------------------------
(* app_main.cpp                                                            *)

\* Mutant: the environment variable that marks the second try is not read.
FixupAgain == ~which.qemu /\ ~st.compat

\* The layout is asked for once: the variable survives the exec.
WantsFixup == ~st.tried /\ ~which.qemu /\ ~st.compat

\* A kernel may refuse the personality; then the second try finds the old
\* layout and goes on with it.
ReExec ==
    /\ Proc("main") /\ WantsFixup
    /\ st' = [To("main") EXCEPT !.compat = which.layouts, !.tried = TRUE]
    /\ UNCHANGED <<which, fails>>

\* Everything up to "--" or to the first argument without a dash is for the
\* machine.
addVmArguments(a) ==
    LET n == CHOOSE n \in 0 .. Len(a) :
                /\ \A i \in 1 .. n : a[i] \in {"-X", "-bad"}
                /\ n = Len(a) \/ a[n + 1] \notin {"-X", "-bad"}
    IN  IF n < Len(a) /\ a[n + 1] = "--" THEN <<n, n + 2>> ELSE <<n, n + 1>>

\* The arguments from position i on: a directory, options, then a class name.
TakeArguments(a, i) ==
    LET flags == {"--zygote", "--start-system-server", "--application", "--nice-name="}
        rest == {j \in i + 1 .. Len(a) : a[j] \notin flags}
        class == IF rest = {} THEN Len(a) + 1
                 ELSE CHOOSE j \in rest : \A k \in rest : j <= k
    IN  [class |-> class,
         flags |-> {a[j] : j \in (i + 1 .. class - 1) \cap DOMAIN a}]

\* --zygote wins over a class name; neither is fatal.
ReadArguments ==
    /\ Proc("main") /\ ~WantsFixup
    /\ LET v == addVmArguments(which.args)
           p == TakeArguments(which.args, v[2])
           s == [To("start") EXCEPT !.tried = FALSE,
                                    !.options = SubSeq(which.args, 1, v[1])]
       IN  st' = CASE "--zygote" \in p.flags -> [s EXCEPT !.mode = "zygote"]
                   [] "--zygote" \notin p.flags /\ p.class <= Len(which.args) ->
                        [s EXCEPT !.mode = "class"]
                   [] OTHER -> Ends("exited")
    /\ UNCHANGED <<which, fails>>

-----------------------------------------------------------------------------
(* AndroidRuntime.cpp: the options of the machine.                         *)

Set(names) == SelectSeq(names, LAMBDA n : n \in which.props)

\* checkjni, and the kernel's parameter when it is neither true nor false.
CheckJni == \/ "checkjni=true" \in which.props
            \/ "checkjni=false" \notin which.props /\ "ro.kernel.checkjni" \in which.props

HeapOptions ==
    <<"exit", "vfprintf", "sensitiveThread", "-verbose:gc", "-Xms", "-Xmx", "-XX:stack">>
    \o Set(<<"jit.codecachesize", "heapgrowthlimit", "heapminfree", "heapmaxfree",
             "heaptargetutilization", "low_ram">>)

\* dexopt-flags: m=y asks for register maps and precise collection.
DexOptions ==
    Set(<<"v=n", "v=r", "v=a", "o=n", "o=v", "o=a", "o=f">>)
    \o IF "m=y" \in which.props THEN <<"-Xgenregmap", "-Xgc:precise">> ELSE <<>>

DebugOptions ==
    <<"-agentlib:jdwp">>
    \o (IF CheckJni THEN <<"-Xcheck:jni", "-Xjnigreflimit">> ELSE <<>>)
    \o Set(<<"lockprof.threshold", "jit.op", "jit.method", "int:portable", "int:fast",
             "int:jit", "check-dex-sum", "log.redirect-stdio", "enableassertions",
             "jniopts", "stack-trace-file">>)

\* dalvik.vm.extra-opts is parsed behind the others, so that it wins.
parseExtraOpts == Set(<<"-Xextra", "-bad">>)

readLocale == <<"-Duser.language", "-Duser.region", "-Djava.io.tmpdir">>

VmOptions == HeapOptions \o DexOptions \o DebugOptions \o parseExtraOpts \o readLocale

\* The machine refuses an option it does not know.
StartVm ==
    /\ Proc("start")
    /\ LET all == st.options \o VmOptions IN
       \/ /\ which.root /\ "-bad" \notin {all[i] : i \in DOMAIN all}
          /\ st' = [To("reg") EXCEPT !.options = all, !.vm = TRUE, !.hook = TRUE,
                                     !.class = st.mode = "class" /\ which.class]
       \/ /\ ~which.root \/ "-bad" \in {all[i] : i \in DOMAIN all}
          /\ st' = Ends("exited")
    /\ UNCHANGED <<which, fails>>

\* startReg: thread creation is hooked first, then the methods are registered.
register_jni_procs ==
    /\ Proc("reg")
    /\ \E i \in 1 .. Natives :
          /\ \A j \in 1 .. i - 1 : st.told[j] > 0
          /\ st.told[i] = 0
          /\ st' = [To(IF i = Natives THEN "enter" ELSE "reg") EXCEPT !.told[i] = 1]
    /\ UNCHANGED <<which, fails>>

-----------------------------------------------------------------------------
(* Java code and the threads.                                              *)

AllRegistered == st.vm /\ \A i \in 1 .. Natives : st.told[i] > 0

EnterMain ==
    /\ Proc("enter")
    /\ st' = Uses(To("main()"), "natives", AllRegistered)
    /\ UNCHANGED <<which, fails>>

\* A failed execv ends the process, and so does a native method that cannot be
\* registered; a start class without a main shuts the machine down.
RuntimeFault ==
    /\ Fails
    /\ \/ Proc("main") /\ WantsFixup /\ st' = Ends("exited")
       \/ Proc("reg") /\ st' = Ends("exited")
       \/ Proc("enter") /\ st' = To("shutdown")
    /\ UNCHANGED which

\* onStarted and onZygoteInit start the thread pool.
StartThreadPool ==
    /\ Proc("main()")
    /\ st' = [Uses(To("pool"), "hook", st.hook)
                EXCEPT !.threads = [t \in 1 .. NativeThreads |-> "new"]]
    /\ UNCHANGED <<which, fails>>

\* callMain enters the class that was found, if any, and then the process is
\* stopped.  The zygote's main goes on with its select loop.
CallMain ==
    /\ Proc("pool")
    /\ st' = IF st.mode = "zygote" THEN Ends("in main")
             ELSE IF st.class THEN Uses(To("shutdown"), "natives", AllRegistered)
             ELSE To("shutdown")
    /\ UNCHANGED <<which, fails>>

javaAttachThread(t) ==
    st.threads[t] = "new" /\ st' = [st EXCEPT !.threads[t] = "attached",
                                              !.env = @ \cup {t}]

\* javaThreadShell: attach, run, detach; a refused attach ends the thread.
javaThreadShell ==
    /\ which.kind = "runtime" /\ st.phase # "exited"
    /\ \E t \in DOMAIN st.threads :
          \/ javaAttachThread(t) /\ UNCHANGED fails
          \/ st.threads[t] = "new" /\ Fails /\ st' = [st EXCEPT !.threads[t] = "gone"]
          \/ /\ st.threads[t] = "attached" /\ UNCHANGED fails
             /\ st' = [Uses(st, "env", t \in st.env /\ st.vm) EXCEPT !.threads[t] = "ran"]
          \/ /\ st.threads[t] = "ran" /\ UNCHANGED fails
             /\ st' = [st EXCEPT !.threads[t] = "gone", !.env = @ \ {t}]
    /\ UNCHANGED which

\* DestroyJavaVM waits until no attached thread is left.
Shutdown ==
    /\ Proc("shutdown") /\ st.env = {}
    /\ st' = [Ends("exited") EXCEPT !.vm = FALSE]
    /\ UNCHANGED <<which, fails>>

-----------------------------------------------------------------------------
RuntimeInit ==
    \E a \in AppArgs, p \in PropSets, qemu, compat, layouts, root, class \in BOOLEAN :
        /\ which = [kind |-> "runtime", args |-> a, props |-> p, qemu |-> qemu,
                    layouts |-> layouts, root |-> root, class |-> class]
        /\ st = [phase |-> "running", misused |-> {}, told |-> [i \in 1 .. Natives |-> 0],
                 pc |-> "main", compat |-> compat, tried |-> FALSE, options |-> <<>>,
                 mode |-> "none", vm |-> FALSE, hook |-> FALSE,
                 class |-> FALSE, threads |-> <<>>, env |-> {}]
        /\ fails = MaxFailures

RuntimeMain == \/ ReExec \/ ReadArguments \/ StartVm \/ register_jni_procs
               \/ EnterMain \/ StartThreadPool \/ CallMain \/ Shutdown

RuntimeNext == RuntimeMain \/ javaThreadShell \/ RuntimeFault

\* The main thread and the native threads are scheduled.
RuntimeFairness == WF_startVars(RuntimeMain) /\ WF_startVars(javaThreadShell)
=============================================================================
