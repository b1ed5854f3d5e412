---------------------------- MODULE InitCommands ----------------------------
(***************************************************************************)
(* What init's commands and helpers do to the resources of the process:    *)
(* builtins.c, util.c, bootchart.c and watchdogd.c.  init never exits, so  *)
(* a descriptor, a buffer or a security context that one error path keeps  *)
(* is kept for ever.                                                       *)
(*                                                                         *)
(* A function is a sequence of steps; a step that fails goes to the label  *)
(* it names, and makes the function fail unless it is Soft.  A helper that *)
(* is a function of this module is one step of its callers: what it holds  *)
(* when it returns is checked on its own.                                  *)
(***************************************************************************)
EXTENDS StartUp, Integers, Sequences

CONSTANT Patience   \* rounds of a loop, polls before a timeout

Instr(do, what, or) == [at |-> "", do |-> do, what |-> what, or |-> or, soft |-> FALSE]
Label(l, i) == [i EXCEPT !.at = l]
Soft(i) == [i EXCEPT !.soft = TRUE]

Take(r, or) == Instr("take", r, or)     \* open, socket, malloc, selabel_lookup
Have(r) == Instr("have", r, "")         \* the same, with no answer to a failure
On(r, or) == Instr("on", r, or)         \* a call on r, that may fail
Do(or) == Instr("on", "", or)           \* a call on nothing that is held
Free(r) == Instr("free", r, "")         \* close, free, freecon, setfscreatecon(NULL)
FreeIf(r) == Instr("freeif", r, "")     \* the same, if it is there
Hand(r) == Instr("hand", r, "")         \* r is the caller's, or the process's, from here on
Either(to) == Instr("either", "", to)   \* the arguments, or the system, decide
Jump(to) == Instr("jump", "", to)
Repeat(to) == Instr("repeat", "", to)
Error(to) == Instr("error", "", to)
End == Label("end", Instr("end", "", ""))

-----------------------------------------------------------------------------
(* builtins.c                                                              *)

UseOne(r) == <<Take(r, "end"), On(r, "out"), Label("out", Free(r)), End>>
write_file == UseOne("fd")
insmod == UseOne("module")
setkey == UseOne("fd")

\* _chown and _chmod, with _open.
change_file ==
    <<Soft(Take("fd", "wronly")), Jump("opened"), Label("wronly", Take("fd", "end")),
      Label("opened", On("fd", "out")), Label("out", Free("fd")), End>>

ifupdown == <<Take("fd", "end"), On("fd", "done"), On("fd", "done"), Label("done", Free("fd")), End>>

do_mkdir ==
    <<Soft(Do("exists")), Jump("owner"), Label("exists", Either("failed")), Do("end"),
      Label("owner", Either("end")), Do("end"), Either("end"), Do("end"), Jump("end"),
      Label("failed", Error("end")), End>>

\* The loop over the loop devices ends at the one it can use, or when the next
\* one cannot be opened.
do_mount ==
    <<Either("loop@"), Either("wait"), Do("end"), Label("wait", Soft(Do("mount"))),
      Label("mount", Do("end")), Jump("end"),
      Label("loop@", Take("fd", "end")), Label("next", Take("loop", "end")),
      Either("busy"), Soft(On("fd", "busy")), Free("fd"),
      On("loop", "clear"), Label("clear", Free("loop")), Jump("end"),
      Label("busy", Free("loop")), Repeat("next"), Error("end"), End>>

do_copy ==
    <<Do("end"), Take("in", "out"), Take("out", "out"), Take("buffer", "out"),
      Label("read", On("in", "out")), Repeat("read"), Label("write", On("out", "out")), Repeat("write"),
      Label("out", FreeIf("buffer")), FreeIf("in"), FreeIf("out"), End>>

\* A command that checks its arguments and makes one call or two: chdir to
\* insmod, setcon to setrlimit, symlink to write, chown to restorecon, and
\* setsebool to wait.
OneCall == <<Either("usage"), Do("end"), Jump("end"), Label("usage", Error("end")), End>>
do_chdir == OneCall
do_insmod == OneCall
do_setrlimit == OneCall
do_write == OneCall
do_chown == OneCall
do_setsebool == OneCall

-----------------------------------------------------------------------------
(* util.c                                                                  *)

create_socket ==
    <<Take("fd", "end"), Do("close"), Soft(Take("context", "bind")), Have("fscreate"),
      Label("bind", On("fd", "unlink")), FreeIf("fscreate"), FreeIf("context"), Hand("fd"), Jump("end"),
      Label("unlink", Soft(Do("close"))), Label("close", Free("fd")), End>>

read_file ==
    <<Take("fd", "end"), On("fd", "oops"), Take("data", "oops"), On("fd", "oops"),
      Free("fd"), Hand("data"), Jump("end"), Label("oops", Free("fd")), FreeIf("data"), End>>

mtd_name_to_number ==
    <<Either("look"), Soft(Take("fd", "look")), Soft(On("fd", "out")), Label("out", Free("fd")),
      Label("look", Either("end")), Error("end"), End>>

mkdir_recursive ==
    <<Label("parent", Either("last")), Do("end"), Label("last", Repeat("parent")), Do("end"), End>>

\* make_link and remove_link; neither has a result.
make_link == <<Either("end"), Soft(Do("link")), Label("link", Soft(Do("end"))), End>>

wait_for_file == <<Label("stat", Either("end")), Repeat("stat"), Error("end"), End>>

open_devnull_stdio ==
    <<Do("end"), Take("fd", "end"), Either("stdio"), Free("fd"), Jump("end"),
      Label("stdio", Hand("fd")), End>>

ReadOnce == <<Soft(Take("fd", "end")), Soft(On("fd", "out")), Label("out", Free("fd")), End>>
get_hardware_name == <<Either("end")>> \o ReadOnce
import_kernel_cmdline == ReadOnce

make_dir ==
    <<Soft(Take("context", "mkdir")), Have("fscreate"), Label("mkdir", Do("reset")),
      Label("reset", FreeIf("context")), FreeIf("fscreate"), End>>

restorecon ==
    <<Either("end"), Do("end"), Take("context", "end"), On("context", "out"),
      Label("out", Free("context")), End>>

-----------------------------------------------------------------------------
(* bootchart.c and watchdogd.c                                             *)

proc_read == ReadOnce
log_header == <<Soft(Take("out", "end")), Soft(Do("print")), Label("print", Free("out")), End>>
do_log_file ==
    <<Soft(Do("open")), Label("open", Soft(Take("fd", "end"))), Label("read", Soft(On("fd", "close"))),
      Repeat("read"), Label("close", Free("fd")), End>>
\* opendir("/proc") is not checked.
do_log_procs ==
    <<Soft(Take("dir", "uptime")), Label("uptime", Soft(Do("entry"))),
      Label("entry", Soft(On("dir", "out"))), Either("next"), Soft(Take("fd", "next")),
      Soft(On("fd", "close")), Label("close", Free("fd")), Label("next", Repeat("entry")),
      Label("out", Free("dir")), End>>

\* The three logs stay open; bootchart_finish does not close them.
bootchart_init ==
    <<Either("end"), Soft(Take("stat", "procs")), Hand("stat"),
      Label("procs", Soft(Take("procs", "disk"))), Hand("procs"),
      Label("disk", Soft(Take("disk", "acct"))), Hand("disk"),
      Label("acct", Soft(Take("acct", "header"))), Free("acct"), Soft(Do("header")),
      Label("header", Soft(Do("end"))), End>>
bootchart_step == <<Soft(Do("procs")), Label("procs", Soft(Do("stop"))), Label("stop", Either("end")), Error("end"), End>>

\* From "beat" on the daemon only writes and sleeps.
watchdogd_main ==
    <<Do("end"), Take("fd", "end"), Hand("fd"), Soft(On("fd", "adjust")), Jump("end"),
      Label("adjust", Soft(On("fd", "end"))), End>>

Routines == [
    write_file |-> write_file, change_file |-> change_file, insmod |-> insmod, setkey |-> setkey,
    ifupdown |-> ifupdown, do_mkdir |-> do_mkdir, do_mount |-> do_mount, do_copy |-> do_copy,
    do_chdir |-> do_chdir, do_insmod |-> do_insmod, do_setrlimit |-> do_setrlimit,
    do_write |-> do_write, do_chown |-> do_chown, do_setsebool |-> do_setsebool,
    create_socket |-> create_socket, read_file |-> read_file, mtd_name_to_number |-> mtd_name_to_number,
    mkdir_recursive |-> mkdir_recursive, make_link |-> make_link, wait_for_file |-> wait_for_file,
    open_devnull_stdio |-> open_devnull_stdio, get_hardware_name |-> get_hardware_name,
    import_kernel_cmdline |-> import_kernel_cmdline, make_dir |-> make_dir, restorecon |-> restorecon,
    proc_read |-> proc_read, log_header |-> log_header, do_log_file |-> do_log_file,
    do_log_procs |-> do_log_procs, bootchart_init |-> bootchart_init, bootchart_step |-> bootchart_step,
    watchdogd_main |-> watchdogd_main]

-----------------------------------------------------------------------------
(* A function runs.                                                        *)

\* Known to be kept: do_mount forgets the file it wanted to mount when no loop
\* device is left, and create_socket the context it had set when bind fails.
Forgotten(f) ==
    CASE f = "do_mount" -> {"fd"}
      [] f = "create_socket" -> {"context", "fscreate"}
      [] OTHER -> {}

\* Known to be used when it could not be had: do_log_procs reads and closes the
\* directory that opendir did not open.
Unchecked(f) == IF f = "do_log_procs" /\ fails < MaxFailures THEN {"dir"} ELSE {}

Code == Routines[which.f]
Line == Code[st.pc]
Target(l) == CHOOSE i \in 1 .. Len(Code) : Code[i].at = l
Goes(s, l) == [s EXCEPT !.pc = Target(l)]
Steps(s) == [s EXCEPT !.pc = @ + 1]

Needs(s) == Uses(s, Line.what, Line.what = "" \/ Line.what \in s.held \cup s.given \cup Unchecked(which.f))
Drops(s) == [Needs(s) EXCEPT !.held = @ \ {Line.what}]

CommandStep ==
    /\ Runs("command")
    /\ UNCHANGED fails
    /\ CASE Line.do \in {"take", "have"} ->
              Becomes(Steps([Uses(st, Line.what, Line.what \notin st.held) EXCEPT !.held = @ \cup {Line.what}]))
         [] Line.do = "on" -> Becomes(Steps(Needs(st)))
         [] Line.do = "free" -> Becomes(Steps(Drops(st)))
         [] Line.do = "freeif" -> Becomes(Steps([st EXCEPT !.held = @ \ {Line.what}]))
         [] Line.do = "hand" -> Becomes(Steps([Drops(st) EXCEPT !.given = @ \cup {Line.what}]))
         [] Line.do = "either" -> Becomes(Steps(st)) \/ Becomes(Goes(st, Line.or))
         [] Line.do = "jump" -> Becomes(Goes(st, Line.or))
         [] Line.do = "error" -> Becomes(Goes([st EXCEPT !.rc = "error"], Line.or))
         [] Line.do = "repeat" ->
              \/ Becomes(Steps(st))
              \/ st.rounds < Patience /\ Becomes(Goes([st EXCEPT !.rounds = @ + 1], Line.or))
         [] Line.do = "end" ->
              Becomes([Uses(st, "kept", st.held \subseteq Forgotten(which.f)) EXCEPT !.phase = st.rc])

\* A call fails.
CommandFails ==
    /\ Runs("command")
    /\ Line.do \in {"take", "on"}
    /\ Fails
    /\ Becomes(Goes(IF Line.soft THEN st ELSE [st EXCEPT !.rc = "error"], Line.or))

CommandInit ==
    \E f \in DOMAIN Routines :
        /\ which = [kind |-> "command", f |-> f]
        /\ fails = MaxFailures
        /\ st = [phase |-> "running", misused |-> {}, told |-> <<>>, pc |-> 1, rc |-> "ok",
                 rounds |-> 0, held |-> {}, given |-> {}]

CommandNext == CommandStep \/ CommandFails

\* A function runs on; that its calls return is up to the kernel.
CommandFairness == []<>(~Runs("command")) \/ []<><<CommandNext>>_startVars
=============================================================================
