----------------------------- MODULE MCStartUp ------------------------------
(***************************************************************************)
(* The start-up sequences above the boot loader, on small instances.       *)
(***************************************************************************)
EXTENDS KernelHead, KernelStart, InitScript, InitCommands, RuntimeStart, SystemServer

\* The compressed image: where its labels lie, where it may be loaded, where
\* the kernel goes and how large it is.
MCImage == [restart |-> 1, wont_overwrite |-> 2, reloc_code_end |-> 4, edata |-> 7, stack |-> 9]
MCLoads == [at : {0, 3, 5, 6, 9, 14}, dest : {4, 6, 12, 18, 22}, size : {3, 6, 9}, bss : {1, 7}, dtb : {0, 2}]

\* The entry code; on arm64 the device tree and the code that turns the MMU on
\* lie in one block, as its linker script and its boot protocol ask for.
MCBoots ==
    {b \in [arch : {"arm", "arm64"}, ram : {0, 4, 5}, kernel : {2, 3}, turn : {22, 23}, turnLen : {2},
            params : {0, 1, 17, 25, 31, 60}, len : {1, 3}, aligned : BOOLEAN, magic : {TRUE},
            known : BOOLEAN, cpus : {{}, {1, 2}}] :
        /\ b.turn \div 4 >= b.ram
        /\ b.params \div 4 >= b.ram
        /\ b.arch = "arm64" => b.params \div 4 = (b.params + b.len - 1) \div 4
        /\ b.arch = "arm64" => b.turn \div 4 = (b.turn + b.turnLen - 1) \div 4}

SeqsUpTo(S, n) == UNION {[1 .. m -> S] : m \in 0 .. n}

MCLines ==
    SeqsUpTo({Opt("arg", 1), Opt("init", "/my"), Opt("env", <<"HOME", 1>>)}, 3)
    \cup {<<Opt("arg", 2)>> \o s : s \in SeqsUpTo(
             {Opt("arg", 1), Opt("rdinit", "/my"), Opt("env", <<"A", 1>>), Opt("param", 2),
              Opt("mod", 0), Opt("mem", [start |-> 16, size |-> 8])}, 2)}

MCRegions ==
    {<<[start |-> 58, size |-> 12], [start |-> 14, size |-> 8], [start |-> 62, size |-> 1]>>,
     <<[start |-> 16, size |-> 8], [start |-> 4, size |-> 8]>>}

MCMachines ==
    {[arch |-> a, cpu |-> TRUE, dt |-> TRUE] : a \in {"arm", "arm64"}}
    \cup {[arch |-> "arm", cpu |-> FALSE, dt |-> TRUE]}

\* init's scripts.
MCTexts == SeqsUpTo({"x", " ", "NL", "#", "quote", "esc", "n"}, 5)

Lit(n, last) == [t |-> "lit", n |-> n, last |-> last]
Var(p) == [t |-> "var", n |-> p, last |-> FALSE]
Conf(f, name) == [file |-> f, name |-> name]

Heads ==
    {<<"service", "a", "prog">>, <<"service", "a">>, <<"service", "b", "prog", "arg">>,
     <<"service", "bad/name", "p">>, <<"on", "boot">>, <<"on", "boot", "x">>,
     <<"import", Conf("two.rc", <<Lit(2, FALSE), Var("hw")>>)>>,
     <<"import", Conf("two.rc", <<Lit(2, FALSE), Var("none")>>)>>}
Options ==
    {<<"class", "core">>, <<"user", "u", "v">>, <<"onrestart", "write", "p", "v">>, <<"start", "a">>,
     <<"write", "p">>, <<"socket", "s", "stream", "0">>, <<"ioprio", "rt", "4">>, <<"oneshot">>}
Imported ==
    {<<<<"service", "a", "prog">>, <<"class", "late">>, <<"disabled">>>>,
     <<<<"oneshot">>, <<"on", "fs">>, <<"mkdir", "d">>>>}
MCScripts ==
    {[f \in {"init.rc", "two.rc"} |->
        IF f = "init.rc" THEN <<h1, o1, h2, o2>>
        ELSE <<<<"import", Conf("none.rc", <<Lit(4, TRUE)>>)>>>> \o more] :
     h1, h2 \in Heads, o1, o2 \in Options, more \in Imported}
MCProps == [hw |-> 3]

\* app_process and the system server.
MCArgs ==
    {<<"-X", "/system/bin", "--zygote", "--start-system-server">>,
     <<"/system/bin", "--application", "class", "x">>,
     <<"-X", "--", "/system/bin", "--nice-name=", "class">>,
     <<"-bad", "/system/bin", "--zygote">>, <<"-X">>, <<>>, <<"/system/bin", "class", "--zygote">>}
MCPropSets ==
    {{}, {"checkjni=false", "ro.kernel.checkjni", "-Xextra"}, {"ro.kernel.checkjni", "m=y", "v=n"}, {"-bad"}}
MCConfigs ==
    {{}, {"lowlevel"}, {"headless"}, {"network", "onlyCore"}, {"noncore", "storage", "bluetooth"},
     {"media", "systemui", "location"}}

Init == EntryInit \/ KernelInit \/ ScriptFileInit \/ CommandInit \/ RuntimeInit \/ ServerInit
Next == EntryNext \/ KernelNext \/ ScriptNext \/ CommandNext \/ RuntimeNext \/ ServerNext

Spec ==
    /\ Init
    /\ [][Next]_startVars
    /\ EntryFairness
    /\ KernelFairness
    /\ ScriptFairness
    /\ CommandFairness
    /\ RuntimeFairness
    /\ ServerFairness
=============================================================================
