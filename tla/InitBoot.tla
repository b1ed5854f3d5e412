------------------------------ MODULE InitBoot -------------------------------
(***************************************************************************)
(* The boot of Android as init conducts it: the queue of actions that      *)
(* main() fills (init.c, init_parser.c), the properties and the triggers   *)
(* on them, the persistent properties on /data and the property service    *)
(* (property_service.c), the commands that change these (builtins.c), and  *)
(* ueventd beside it.                                                      *)
(*                                                                         *)
(* init runs one command of one action in each turn of its loop, and takes *)
(* one request to the property service after it, so requests come between  *)
(* the commands of an action, and device events anywhere.  Power may fail, *)
(* and files that were not synced then are as they were or as they are.    *)
(*                                                                         *)
(* What init.rc, the property files and the kernel command line say is the *)
(* plan of a device; services are in InitService.                          *)
(***************************************************************************)
EXTENDS Ueventd, SequencesExt

CONSTANTS
    Names,      \* the names of properties
    Ro,         \* those that begin with "ro."
    Persist,    \* those that begin with "persist."
    Net,        \* those that begin with "net.", net.change apart
    Values,     \* their values
    Plans       \* the devices: init.rc, property files, what else happens

(* What there is on a device from the start, comes and goes, and asks for  *)
(* firmware, is a device and a file of the kernel.                         *)
ASSUME PlansAssumption ==
    \A p \in DOMAIN Plans : /\ Plans[p].devices \subseteq Devices
                            /\ Plans[p].hotplug \subseteq Devices
                            /\ Plans[p].firmware \subseteq Firmware

VARIABLES
    plan,       \* which device it is
    b,          \* init, and the files in /data/property as it sees them
    disk        \* those files as far as they are synced

vars == <<plan, b, disk, udvars>>

(* No property has it as its value; property_get makes it an empty string. *)
Unset == "(unset)"

(* A part of a value, or nothing of it: what a write cut short leaves.     *)
Torn == "(torn)"

(* A property trigger has a name and a value or "*"; an event trigger has  *)
(* neither.  A builtin action has the name of its function.                *)
EventAction(e, cmds) == [event |-> e, prop |-> "", value |-> "", cmds |-> cmds]

PropertyAction(n, v, cmds) == [event |-> "", prop |-> n, value |-> v, cmds |-> cmds]

Do(op, n, v) == [op |-> op, n |-> n, v |-> v]

Builtins == <<"wait_for_coldboot_done", "property_service_init", "signal_init",
              "check_startup", "queue_property_triggers">>

(* The action_list: the actions of init.rc, then the builtin ones.         *)
action_list ==
    [p \in DOMAIN Plans |->
       Plans[p].rc \o [i \in DOMAIN Builtins |->
                         EventAction(Builtins[i], <<Do(Builtins[i], "", "")>>)]]

Actions == action_list[plan]

Acts == DOMAIN Actions

This == Plans[plan]

(* The property actions, by name.                                          *)
Listeners(n) == {a \in Acts : Actions[a].prop = n}

-----------------------------------------------------------------------------
(* The action queue, as part of the state s of init.                       *)

(* Mutants: an action that is being executed is not queued again, and a    *)
(* new one goes to the front.                                              *)
action_add_queue_tail_once(s, acts) ==
    [s EXCEPT !.queue = @ \o SelectSeq([a \in 1..Len(Actions) |-> a],
        LAMBDA a : a \in acts /\ ~Contains(s.queue, a) /\ s.cur # a)]

action_add_queue_head(s, acts) ==
    [s EXCEPT !.queue = SelectSeq([a \in 1..Len(Actions) |-> a],
        LAMBDA a : a \in acts /\ ~Contains(s.queue, a)) \o @]

(* The actions acts, in the order of the list, each unless it is queued.   *)
action_add_queue_tail(s, acts) ==
    [s EXCEPT !.queue = @ \o SelectSeq([a \in 1..Len(Actions) |-> a],
        LAMBDA a : a \in acts /\ ~Contains(s.queue, a))]

action_for_each_trigger(s, e) ==
    action_add_queue_tail(s, {a \in Acts : Actions[a].event = e})

Fires(a, v) == Actions[a].value = v \/ Actions[a].value = "*"

queue_property_triggers(s, n, v) ==
    action_add_queue_tail(s, {a \in Listeners(n) : Fires(a, v)})

ValueOf(s, n) == IF s.prop[n] = Unset THEN "" ELSE s.prop[n]

queue_all_property_triggers(s) ==
    action_add_queue_tail(s, {a \in Acts : /\ Actions[a].prop # ""
                                           /\ Fires(a, ValueOf(s, Actions[a].prop))})

property_changed(s, n, v) ==
    IF s.property_triggers_enabled THEN queue_property_triggers(s, n, v) ELSE s

-----------------------------------------------------------------------------
(* Properties.                                                             *)

(* A temporary file is written and renamed, and not synced.  Its creation  *)
(* or its renaming may fail, which keeps the old file; write() may fail or *)
(* be cut short, which nobody looks at, and its file is renamed as well.   *)
write_persistent_property(s, n, v) ==
    IF "data" \notin fs.mounted \/ s.writes = "kept" THEN s
    ELSE [s EXCEPT !.file[n] = IF s.writes = "torn" THEN Torn ELSE v,
                   !.dirty = @ \union {n},
                   !.sure = IF s.writes = "torn" THEN @ \ {n} ELSE @]

(* net.change tells of every other net. property, and triggers nothing.    *)
NetChange == "net.change"

(* History: the actions that wait for n to be v have to run, and before    *)
(* the triggers are enabled only if it still is then.                      *)
Owed(s, n, v) ==
    LET fires == {a \in Listeners(n) : Fires(a, v)}
    IN  IF s.property_triggers_enabled THEN s.owed \union fires
        ELSE (s.owed \ Listeners(n)) \union fires

property_set(s, n, v) ==
    IF n \in Ro /\ s.prop[n] # Unset THEN s
    ELSE LET t == [s EXCEPT !.prop[n] = v]
             u == IF n \in Net THEN [t EXCEPT !.prop[NetChange] = n]
                  ELSE IF s.persistent_properties_loaded /\ n \in Persist
                  THEN write_persistent_property(t, n, v) ELSE t
         IN  IF n = NetChange THEN t
             ELSE property_changed([u EXCEPT !.owed = Owed(s, n, v)], n, v)

load_properties_from_file(s, file) ==
    FoldLeft(LAMBDA t, line : property_set(t, line[1], line[2]), s, file)

(* /data/local.prop, on debuggable builds.                                 *)
load_override_properties(s) ==
    IF "data" \in fs.mounted /\ s.prop["ro.debuggable"] = "1"
    THEN load_properties_from_file(s, This.local) ELSE s

PersistentFiles(s) == {n \in Persist : s.file[n] # Unset}

load_persistent_properties(s) ==
    LET t == IF "data" \notin fs.mounted THEN s
             ELSE FoldLeft(LAMBDA x, n : property_set(x, n, s.file[n]),
                           s, SetToSeq(PersistentFiles(s)))
    IN  [t EXCEPT !.persistent_properties_loaded = TRUE]

load_persist_props(s) == load_persistent_properties(load_override_properties(s))

(* Mutant: the persistent properties come first.                           *)
LoadFilesLate(s) ==
    LET t == load_persist_props(s)
    IN  IF "system" \notin fs.mounted THEN t
        ELSE load_properties_from_file(load_properties_from_file(t, This.build), This.default)

(* build.prop and default.prop of /system, local.prop, and the persistent  *)
(* properties.                                                             *)
LoadFiles(s) ==
    load_persist_props(
        IF "system" \notin fs.mounted THEN s
        ELSE load_properties_from_file(load_properties_from_file(s, This.build), This.default))

-----------------------------------------------------------------------------
(* The state of init before power on, and main() up to its loop.           *)

(* How the writes of a step to /data come out.                             *)
Writes == {"whole", "torn", "kept"}

Off ==
    [pc |-> "off", queue |-> <<>>, cur |-> 0, cmd |-> 0,
     prop |-> [n \in Names |-> Unset], file |-> [n \in Persist |-> Unset],
     property_triggers_enabled |-> FALSE, persistent_properties_loaded |-> FALSE,
     fds |-> {}, writes |-> "whole", ueventd |-> FALSE, dirty |-> {},
     owed |-> {}, last |-> [n \in Persist |-> Unset], sure |-> Persist]

(* Every variable has its type, and an action is in the queue only once.   *)
TypeOK ==
    /\ UdTypeOK
    /\ plan \in DOMAIN Plans
    /\ b \in [pc : {"off", "command", "poll"}, queue : Seq(Acts),
              cur : Acts \union {0}, cmd : Nat,
              prop : [Names -> Values \union Names \union {Unset, Torn}],
              file : [Persist -> Values \union {Unset, Torn}],
              property_triggers_enabled : BOOLEAN,
              persistent_properties_loaded : BOOLEAN,
              fds : SUBSET {"property", "signal"}, writes : Writes, ueventd : BOOLEAN,
              dirty : SUBSET Persist, owed : SUBSET Acts,
              last : [Persist -> Values \union {Unset}], sure : SUBSET Persist]
    /\ disk \in [Persist -> Values \union {Unset, Torn}]
    /\ IsInjective(b.queue)

Init ==
    /\ plan \in DOMAIN Plans
    /\ b = Off
    /\ disk = [n \in Persist |-> Unset]
    /\ dev = DevicesAtBoot({}) /\ ud = UeventdAtBoot
    /\ fs = [booting |-> FALSE, coldboot_done |-> FALSE, mounted |-> {}]

(* The order in which main() queues.                                       *)
BootQueue(s) ==
    LET events == <<"early-init", "wait_for_coldboot_done", "init">>
                  \o (IF This.charger THEN <<>>
                      ELSE <<"early-fs", "fs", "post-fs", "post-fs-data">>)
                  \o <<"property_service_init", "signal_init", "check_startup">>
                  \o (IF This.charger THEN <<"charger">> ELSE <<"early-boot", "boot">>)
                  \o <<"queue_property_triggers">>
    IN  FoldLeft(action_for_each_trigger, s, events)

(* The properties main() sets.                                             *)
BootDefaults(s) ==
    LET t == load_properties_from_file(s, This.kernel)
    IN  IF This.charger THEN t ELSE load_properties_from_file(t, This.ramdisk)

(* The kernel starts init.                                                 *)
main ==
    /\ b.pc = "off"
    /\ fs' = [booting |-> TRUE, coldboot_done |-> FALSE, mounted |-> {}]
    /\ b' = [BootQueue(BootDefaults([b EXCEPT !.file = disk]))
               EXCEPT !.pc = "command"]
    /\ dev' = DevicesAtBoot(This.devices) /\ ud' = UeventdAtBoot
    /\ UNCHANGED <<plan, disk>>

-----------------------------------------------------------------------------
(* A property set on request, by a command or by a client; history: the    *)
(* last value of a persistent one, and whether its file was written.       *)
Requested(s, n, v) ==
    LET t == property_set(s, n, v)
        written == "data" \in fs.mounted /\ s.writes = "whole"
    IN  IF n \in Persist /\ s.persistent_properties_loaded
        THEN [t EXCEPT !.last[n] = v,
                       !.sure = IF written THEN @ \union {n} ELSE @ \ {n}]
        ELSE t

(* The machine stops; reached is what has got to the disk, and safe names  *)
(* the files that are there as they were written.                          *)
Stop(reached, safe) ==
    /\ b' = [Off EXCEPT !.last = b.last, !.sure = b.sure \intersect safe]
    /\ disk' = reached
    /\ dev' = DevicesAtBoot({}) /\ ud' = UeventdAtBoot
    /\ fs' = [booting |-> FALSE, coldboot_done |-> FALSE, mounted |-> {}]
    /\ UNCHANGED plan

InitOnly == UNCHANGED <<plan, disk, dev, ud, fs>>

(* do_mount_all: fs_mgr finds /data encrypted, mounts it, or fails.        *)
do_mount_all(s) ==
    \/ /\ This.encrypted
       /\ b' = property_set(property_set(s, "ro.crypto.state", "encrypted"),
                            "vold.decrypt", "1")
       /\ fs' = [fs EXCEPT !.mounted = @ \union {"system"}]
    \/ /\ ~This.encrypted
       /\ b' = action_for_each_trigger(
                 property_set(s, "ro.crypto.state", "unencrypted"), "nonencrypted")
       /\ fs' = [fs EXCEPT !.mounted = {"system", "data"}]
    \/ /\ This.broken /\ b' = s /\ fs' = fs

(* What was written and not synced is as it was, as it is, or torn: the    *)
(* new name may get to the disk before the data does.                      *)
Crash ==
    \E reached \in [Persist -> Values \union {Unset, Torn}] :
        /\ \A n \in Persist :
             reached[n] \in IF n \in b.dirty THEN {disk[n], b.file[n], Torn} ELSE {disk[n]}
        /\ Stop(reached, Persist \ b.dirty)

(* Mutant: /dev/.booting stays.                                            *)
check_startup_keeps(s) ==
    IF s.fds # {"property", "signal"} THEN Crash
    ELSE b' = s /\ InitOnly

(* Without its descriptors init exits, which the kernel does not survive.  *)
check_startup(s) ==
    IF s.fds # {"property", "signal"} THEN Crash
    ELSE /\ b' = s
         /\ fs' = [fs EXCEPT !.booting = FALSE]
         /\ UNCHANGED <<plan, disk, dev, ud>>

(* do_powerctl: the argument is a property, which may not be set or not be *)
(* a request that is known; android_reboot syncs.                          *)
do_powerctl(s, n) ==
    IF s.prop[n] = "reboot" THEN Stop(s.file, Persist) ELSE b' = s /\ InitOnly

(* A socket is created, or that fails.                                     *)
WithFd(s, fd) == {[s EXCEPT !.fds = @ \union {fd}]} \union (IF This.broken THEN {s} ELSE {})

(* The command c, from the state s; wait_for_coldboot_done goes on after   *)
(* COMMAND_RETRY_TIMEOUT in any case.                                      *)
Run(s, c) ==
    \/ /\ c.op \in {"wait_for_coldboot_done", "other"}
       /\ b' = s /\ InitOnly
    \/ c.op = "setprop" /\ b' = Requested(s, c.n, c.v) /\ InitOnly
    \/ c.op = "trigger" /\ b' = action_for_each_trigger(s, c.n) /\ InitOnly
    \/ c.op = "start" /\ b' = [s EXCEPT !.ueventd = TRUE] /\ InitOnly
    \/ c.op = "load_persist_props" /\ b' = load_persist_props(s) /\ InitOnly
    \/ c.op = "powerctl" /\ do_powerctl(s, c.n)
    \/ c.op = "mount_all" /\ do_mount_all(s) /\ UNCHANGED <<plan, disk, dev, ud>>
    \/ c.op = "property_service_init" /\ b' \in WithFd(LoadFiles(s), "property") /\ InitOnly
    \/ c.op = "signal_init" /\ b' \in WithFd(s, "signal") /\ InitOnly
    \/ c.op = "check_startup" /\ check_startup(s)
    \/ /\ c.op = "queue_property_triggers"
       /\ b' = [queue_all_property_triggers(s) EXCEPT !.property_triggers_enabled = TRUE]
       /\ InitOnly

Commands(a) == Actions[a].cmds

(* What can become of the files that the command op writes.                *)
WritesOf(op) ==
    IF This.faults /\ op \in {"setprop", "load_persist_props"} THEN Writes ELSE {"whole"}

(* The next command, and 0 when there is none.                             *)
NextCommand ==
    IF b.cur # 0 /\ b.cmd # 0 /\ b.cmd < Len(Commands(b.cur))
    THEN [b EXCEPT !.cmd = @ + 1]
    ELSE IF b.queue = <<>> THEN [b EXCEPT !.cur = 0, !.cmd = 0]
    ELSE [b EXCEPT !.cur = Head(b.queue), !.queue = Tail(@),
                   !.cmd = IF Commands(Head(b.queue)) = <<>> THEN 0 ELSE 1,
                   !.owed = @ \ {Head(b.queue)}]

execute_one_command ==
    /\ b.pc = "command"
    /\ LET s == [NextCommand EXCEPT !.pc = "poll"]
           c == Commands(s.cur)[s.cmd]
       IN  IF s.cmd = 0 THEN b' = s /\ InitOnly
           ELSE \E w \in WritesOf(c.op) : Run([s EXCEPT !.writes = w], c)

(* The rest of the turn: nothing comes in while the poll timeout is 0.     *)
PollTimeout ==
    /\ b.pc = "poll"
    /\ b.queue # <<>> \/ b.cur # 0
    /\ b' = [b EXCEPT !.pc = "command", !.writes = "whole"]
    /\ InitOnly

(* handle_property_set_fd, with a property the sender may set.             *)
handle_property_set_fd(n, v) ==
    /\ b.pc = "poll" /\ "property" \in b.fds
    /\ \E w \in (IF n \in Persist THEN WritesOf("setprop") ELSE {"whole"}) :
         b' = [Requested([b EXCEPT !.writes = w], n, v) EXCEPT
                 !.pc = "command", !.writes = "whole"]
    /\ InitOnly

(* vold (external) mounts an encrypted /data and has its properties read.  *)
VoldMount ==
    /\ b.pc # "off" /\ b.prop["vold.decrypt"] = "1" /\ "property" \in b.fds
    /\ fs' = [fs EXCEPT !.mounted = @ \union {"data"}]
    /\ UNCHANGED <<plan, b, disk, dev, ud>>

VoldLoad ==
    /\ This.encrypted /\ "data" \in fs.mounted
    /\ handle_property_set_fd("vold.decrypt", "trigger_load_persist_props")

Writeback ==
    /\ b.pc # "off" /\ b.dirty # {}
    /\ b' = [b EXCEPT !.dirty = {}]
    /\ disk' = b.file
    /\ UNCHANGED <<plan, udvars>>

PowerCut == b.pc # "off" /\ Crash

-----------------------------------------------------------------------------
Beside == b.pc # "off" /\ UNCHANGED <<plan, b, disk>>

InitLoop == execute_one_command \/ PollTimeout

Client == \E s \in This.sets : handle_property_set_fd(s[1], s[2])

Ueventd ==
    /\ Beside
    /\ \/ b.ueventd /\ device_init
       \/ \E x \in Devices \union Firmware : do_coldboot(x)
       \/ ColdbootDone \/ handle_device_fd

Loader(l) == Beside /\ (TryOpen(l) \/ Wake(l) \/ load_firmware(l))

Kernel ==
    /\ Beside
    /\ \/ \E d \in This.hotplug : Hotplug(d)
       \/ \E f \in This.firmware : RequestFirmware(f)
       \/ This.devices # {} /\ Die

Next ==
    \/ main \/ InitLoop \/ Client \/ VoldMount \/ VoldLoad
    \/ Ueventd \/ (\E l \in Loaders : Loader(l)) \/ Kernel
    \/ Writeback \/ (This.faults /\ PowerCut)

Spec == Init /\ [][Next]_vars

(* When a turn of the loop goes on by itself.                              *)
InitLoopEnabled ==
    b.pc = "command" \/ (b.pc = "poll" /\ (b.queue # <<>> \/ b.cur # 0))

(* init and ueventd are scheduled, and so are the loaders; the first is    *)
(* weak fairness of InitLoop, with what enables it written out.            *)
FairSpec ==
    /\ Spec
    /\ []<>(~InitLoopEnabled) \/ []<><<InitLoop>>_vars
    /\ WF_vars(Ueventd)
    /\ \A l \in Loaders : WF_vars(Loader(l))

-----------------------------------------------------------------------------
(* No trigger is lost: once the triggers are enabled, an action whose      *)
(* property got the value it waits for, by then or later, is in the queue  *)
(* until it begins to run, also when it was being executed at that time,   *)
(* and when the property was set before queue_property_triggers ran.       *)
NoLostTrigger ==
    b.property_triggers_enabled => \A a \in b.owed : Contains(b.queue, a)

(* The lines of the property files that were read, in this order.          *)
Sources == This.kernel \o (IF This.charger THEN <<>>
                           ELSE This.ramdisk \o This.build \o This.default)

(* property_service_init_action: "This must happen after the ro.foo        *)
(* properties are set above so that /data/local.prop cannot interfere with *)
(* them."  A ro. property has the value of the first source that gives     *)
(* one, from the kernel command line to /system/default.prop, whatever     *)
(* later files, commands and clients set.                                  *)
RoFirstSource ==
    "property" \in b.fds /\ ("system" \in fs.mounted \/ This.charger) =>
        \A n \in Ro :
            LET lines == SelectSeq(Sources, LAMBDA x : x[1] = n)
            IN  lines # <<>> => b.prop[n] = lines[1][2]

(* The one way for a default to reach the disk: /data of an encrypted      *)
(* device is mounted after persistent_properties_loaded was set, so what   *)
(* local.prop says is written when load_persist_props reads it.            *)
Overridden(n) ==
    /\ This.encrypted
    /\ b.prop["ro.debuggable"] = "1"
    /\ \E i \in DOMAIN This.local : This.local[i] = <<n, b.file[n]>>

(* The values that commands and clients give to n.                         *)
Asked(n) ==
    {v \in Values : \/ <<n, v>> \in This.sets
                    \/ \E a \in Acts : \E i \in DOMAIN Commands(a) :
                         Commands(a)[i] = Do("setprop", n, v)}

(* property_set: "Don't write properties to disk until after we have read  *)
(* all default properties to prevent them from being overwritten by        *)
(* default values."  The file of a persistent property has the value that  *)
(* was last requested for it, in this boot or an earlier one.  When its    *)
(* file could not be written, or power failed before it was synced, it may *)
(* have an older request or be torn; still no default gets there, but for  *)
(* local.prop on an encrypted device.                                      *)
DefaultsStayOff ==
    b.pc # "off" =>
        \A n \in Persist :
            \/ b.file[n] = b.last[n]
            \/ n \notin b.sure /\ b.file[n] \in Asked(n) \union {Unset, Torn}
            \/ Overridden(n)

Loads == {"property_service_init", "load_persist_props"}

(* A reboot keeps the persistent properties: the step that reads /data     *)
(* leaves each with the value that was last requested for it, whatever the *)
(* property files say, unless its file was not written or not synced when  *)
(* power failed.                                                           *)
PersistKept ==
    /\ b.pc = "command" /\ b'.pc = "poll" /\ b'.cmd # 0
    /\ Commands(b'.cur)[b'.cmd].op \in Loads
    /\ "data" \in fs.mounted
    => \A n \in Persist :
         b.last[n] # Unset /\ n \in b'.sure =>
             b'.prop[n] = b.last[n] \/ Overridden(n)'

(* The nodes follow the devices: when ueventd has no event left, there is  *)
(* a node for every device and for no other, except where an event was     *)
(* lost after coldboot or was a removal.  What came before ueventd, and    *)
(* during coldboot, is made up for by coldboot, also when ueventd died in  *)
(* it.                                                                     *)
NodesAgree ==
    ud.st = "loop" /\ dev.queue = <<>> =>
        \A d \in Devices \ dev.lost : d \in ud.node <=> d \in dev.there

(* No driver is refused a file that the boot brings: whenever the request  *)
(* came, the loader's last look is after the filesystems were mounted, so  *)
(* only a file that cannot be copied fails.                                *)
FirmwareServed ==
    ~This.charger /\ ~This.broken =>
        \A f \in Firmware : dev.req[f].st = "failed" => dev.req[f].error

(* Every action that is queued begins to run, however many requests come.  *)
ActionsRun ==
    \A a \in 1..Max({Len(action_list[p]) : p \in DOMAIN Plans}) :
        Contains(b.queue, a) ~> b.cur = a \/ b.pc = "off"

(* A driver whose request has a loader gets an answer, except where fstat  *)
(* fails: the boot, for the end of which the loader waits, does not wait   *)
(* for it.                                                                 *)
FirmwareAnswered ==
    \A l \in Loaders :
        ud.loader[l].at # "none" ~> ~Waiting(l[1]) \/ dev.req[l[1]].error

(* The queue of action_add_queue_tail holds an action at most once, and    *)
(* still every trigger that fired leads to a run after it.                 *)
TriggersKept == TypeOK /\ NoLostTrigger

(* property_set and the loading of the files: the first source of a ro.    *)
(* property wins, a default never replaces a persistent value on disk, and *)
(* loading brings back the value last set where its file was written and   *)
(* synced, over any number of boots.                                       *)
PropertiesKept == [][RoFirstSource' /\ DefaultsStayOff' /\ PersistKept]_vars

(* process_firmware_event answers a request in the end, and not with a     *)
(* failure when the file is there once the file systems are mounted.       *)
FirmwareLoaded == []FirmwareServed /\ FirmwareAnswered
=============================================================================
