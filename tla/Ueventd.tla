------------------------------- MODULE Ueventd -------------------------------
(***************************************************************************)
(* ueventd (ueventd.c, devices.c): the nodes in /dev follow the devices of *)
(* the kernel.  It reads the uevents of the kernel from a netlink socket   *)
(* of limited size; coldboot writes "add" into the uevent files in /sys to *)
(* get the events again that came before ueventd did.  A firmware request  *)
(* is an event too, and each is handled by a forked loader that looks for  *)
(* the file, again and again while /dev/.booting is there, since the       *)
(* filesystems come only during the boot.                                  *)
(*                                                                         *)
(* Which files exist is up to init: InitBoot composes the two.             *)
(***************************************************************************)
EXTENDS Integers, Sequences, FiniteSets, TLC

CONSTANTS
    Devices,        \* the devices that come and go
    Firmware,       \* the files drivers ask for
    NetlinkRoom,    \* how many events the socket holds
    MaxDeaths       \* how often ueventd dies in one boot

ASSUME NetlinkHolds == NetlinkRoom \in Nat \ {0}

ASSUME DeathsAreCounted == MaxDeaths \in Nat

ASSUME DevicesAreNoFiles == Devices \intersect Firmware = {}

VARIABLES
    dev,    \* the kernel's devices, firmware requests and event socket
    ud,     \* ueventd, the nodes it made and the loaders it forked
    fs      \* the files that init and ueventd tell each other by

udvars == <<dev, ud, fs>>

(* The event of a request and a coldboot in each life of ueventd fork a    *)
(* loader each.                                                            *)
Loaders == Firmware \X (1..(MaxDeaths + 2))

(* What the driver that asked for a file gets; history: error says that a  *)
(* loader could not read the file or hand it over.                         *)
Request == [st : {"idle", "pending", "loading", "done", "failed"}, error : BOOLEAN]

Events == [what : {"add", "remove"}, of : Devices] \union
          [what : {"firmware"}, of : Firmware]

LoaderSteps == {"none", "try", "sleep", "begin", "copy", "end"}

UdTypeOK ==
    /\ dev \in [there : SUBSET Devices, req : [Firmware -> Request],
                queue : Seq(Events), lost : SUBSET Devices]
    /\ ud \in [st : {"off", "deaf", "coldboot", "loop"},
               todo : SUBSET (Devices \union Firmware),
               node : SUBSET Devices, deaths : 0..MaxDeaths,
               loader : [Loaders -> [at : LoaderSteps, booting : BOOLEAN]]]
    /\ fs \in [booting : BOOLEAN, coldboot_done : BOOLEAN,
               mounted : SUBSET {"system", "data"}]
    /\ Len(dev.queue) <= NetlinkRoom

NoLoader == [at |-> "none", booting |-> FALSE]

(* At power on the kernel has found the devices S.                         *)
DevicesAtBoot(S) ==
    [there |-> S, req |-> [f \in Firmware |-> [st |-> "idle", error |-> FALSE]],
     queue |-> <<>>, lost |-> {}]

UeventdAtBoot ==
    [st |-> "off", todo |-> {}, node |-> {}, deaths |-> 0,
     loader |-> [l \in Loaders |-> NoLoader]]

-----------------------------------------------------------------------------
(* The kernel (external).                                                  *)

(* ueventd runs and has its socket.                                        *)
Listening == ud.st \in {"coldboot", "loop"}

(* The event e is sent: nobody gets it while ueventd has no socket, nor    *)
(* when the socket is full.                                                *)
Heard == Listening /\ Len(dev.queue) < NetlinkRoom

Sent(e) == IF Heard THEN Append(dev.queue, e) ELSE dev.queue

(* History: the devices whose last event was lost and that nothing will    *)
(* make up for: coldboot sends only "add", only once, and to what is there *)
(* when it begins.                                                         *)
Lost(e) ==
    IF Heard THEN dev.lost \ {e.of}
    ELSE IF e.what = "remove" \/ fs.coldboot_done \/ Listening
    THEN dev.lost \union {e.of} ELSE dev.lost

Hotplug(d) ==
    LET e == [what |-> IF d \in dev.there THEN "remove" ELSE "add", of |-> d]
    IN  /\ dev' = [dev EXCEPT
                     !.there = IF d \in @ THEN @ \ {d} ELSE @ \union {d},
                     !.queue = Sent(e),
                     !.lost = Lost(e)]
        /\ UNCHANGED <<ud, fs>>

(* request_firmware of a driver.                                           *)
RequestFirmware(f) ==
    /\ dev.req[f].st = "idle"
    /\ dev' = [dev EXCEPT !.req[f] = [st |-> "pending", error |-> FALSE],
                          !.queue = Sent([what |-> "firmware", of |-> f])]
    /\ UNCHANGED <<ud, fs>>

(* The driver has its answer and the device of the request is gone.        *)
Waiting(f) == dev.req[f].st \in {"pending", "loading"}

-----------------------------------------------------------------------------
(* Mutant: coldboot_done is there from the beginning of coldboot.          *)
device_init_done_early ==
    /\ ud.st = "off"
    /\ ud' = [ud EXCEPT
                !.st = IF fs.coldboot_done THEN "loop" ELSE "coldboot",
                !.todo = IF fs.coldboot_done THEN {}
                         ELSE dev.there \union {f \in Firmware : Waiting(f)}]
    /\ fs' = [fs EXCEPT !.coldboot_done = TRUE]
    /\ UNCHANGED dev

(* device_init: the socket, and coldboot unless it was done before.        *)
(* Without a socket it returns, and ueventd polls nothing for ever.        *)
device_init ==
    /\ ud.st = "off"
    /\ \/ ud' = [ud EXCEPT
                   !.st = IF fs.coldboot_done THEN "loop" ELSE "coldboot",
                   !.todo = IF fs.coldboot_done THEN {}
                            ELSE dev.there \union {f \in Firmware : Waiting(f)}]
       \/ ud' = [ud EXCEPT !.st = "deaf"]
    /\ UNCHANGED <<dev, fs>>

(* do_coldboot at one directory, if it is still there; the events that are *)
(* pending are handled before the next.                                    *)
do_coldboot(x) ==
    /\ ud.st = "coldboot" /\ dev.queue = <<>>
    /\ x \in ud.todo
    /\ ud' = [ud EXCEPT !.todo = @ \ {x}]
    /\ dev' = IF x \in dev.there
              THEN LET e == [what |-> "add", of |-> x]
                   IN  [dev EXCEPT !.queue = Sent(e), !.lost = Lost(e)]
              ELSE IF x \in Firmware /\ Waiting(x)
              THEN [dev EXCEPT !.queue = Sent([what |-> "firmware", of |-> x])]
              ELSE dev
    /\ UNCHANGED fs

ColdbootDone ==
    /\ ud.st = "coldboot" /\ ud.todo = {} /\ dev.queue = <<>>
    /\ ud' = [ud EXCEPT !.st = "loop"]
    /\ fs' = [fs EXCEPT !.coldboot_done = TRUE]
    /\ UNCHANGED dev

(* handle_device_event.                                                    *)
handle_device_event(e) ==
    CASE e.what = "add" -> [ud EXCEPT !.node = @ \union {e.of}]
      [] e.what = "remove" -> [ud EXCEPT !.node = @ \ {e.of}]
      [] e.what = "firmware" -> ud

NewLoader(f) ==
    CHOOSE l \in Loaders : /\ l[1] = f /\ ud.loader[l].at = "none"
                           /\ \A k \in Loaders : k[1] = f /\ ud.loader[k].at = "none" => l[2] <= k[2]

(* handle_device_fd, one event; a loader starts by looking whether init is *)
(* booting and opening the files of the request, if it is not answered.    *)
handle_device_fd ==
    /\ Listening /\ dev.queue # <<>>
    /\ LET e == Head(dev.queue)
       IN  /\ ud' = IF e.what = "firmware" /\ Waiting(e.of)
                    THEN [ud EXCEPT !.loader[NewLoader(e.of)] =
                                      [at |-> "try", booting |-> fs.booting]]
                    ELSE handle_device_event(e)
           /\ dev' = [dev EXCEPT !.queue = Tail(@)]
    /\ UNCHANGED fs

(* ueventd dies; its loaders are processes of their own.                   *)
Die ==
    /\ ud.st # "off" /\ ud.deaths < MaxDeaths
    /\ ud' = [ud EXCEPT !.st = "off", !.todo = {}, !.deaths = @ + 1]
    /\ dev' = [dev EXCEPT
                 !.queue = <<>>,
                 !.lost = @ \union
                   {d \in Devices : \E i \in DOMAIN dev.queue :
                       /\ dev.queue[i].of = d
                       /\ dev.queue[i].what = "remove" \/ fs.coldboot_done}]
    /\ UNCHANGED fs

-----------------------------------------------------------------------------
(* process_firmware_event, in a loader of its own.                         *)

Move(l, from, to) ==
    /\ ud.loader[l].at = from
    /\ ud' = [ud EXCEPT !.loader[l] = to]

Wake(l) ==
    /\ Move(l, "sleep", [at |-> "try", booting |-> fs.booting])
    /\ UNCHANGED <<dev, fs>>

(* The files are on a filesystem that is mounted during the boot.          *)
TryOpen(l) ==
    LET f == l[1]
        booting == ud.loader[l].booting
        found == "system" \in fs.mounted
        refused == ~found /\ ~booting
    IN  /\ Move(l, "try", IF found THEN [at |-> "begin", booting |-> booting]
                          ELSE IF booting THEN [at |-> "sleep", booting |-> booting]
                          ELSE NoLoader)
        /\ dev' = IF refused /\ Waiting(f) THEN [dev EXCEPT !.req[f].st = "failed"] ELSE dev
        /\ UNCHANGED fs

(* The driver of f is told, unless it has its answer.                      *)
Tell(f, st, error) ==
    dev' = IF Waiting(f)
           THEN [dev EXCEPT !.req[f] = [st |-> st, error |-> @.error \/ error]] ELSE dev

(* load_firmware: "1" to loading, the data, "0" to loading.  Where fstat   *)
(* fails it returns and tells the driver nothing.                          *)
LoadBegin(l) ==
    /\ \/ /\ Move(l, "begin", [ud.loader[l] EXCEPT !.at = "copy"])
          /\ Tell(l[1], "loading", FALSE)
       \/ /\ Move(l, "begin", NoLoader)
          /\ Tell(l[1], dev.req[l[1]].st, TRUE)
    /\ UNCHANGED fs

(* A read of the file or a write to data fails, the latter always when the *)
(* request is answered, which aborts: "-1" to loading.                     *)
LoadCopy(l) ==
    /\ \/ /\ Waiting(l[1])
          /\ Move(l, "copy", [ud.loader[l] EXCEPT !.at = "end"])
          /\ UNCHANGED dev
       \/ /\ Move(l, "copy", NoLoader)
          /\ Tell(l[1], "failed", TRUE)
    /\ UNCHANGED fs

LoadEnd(l) ==
    /\ Move(l, "end", NoLoader)
    /\ Tell(l[1], "done", FALSE)
    /\ UNCHANGED fs

load_firmware(l) == LoadBegin(l) \/ LoadCopy(l) \/ LoadEnd(l)
=============================================================================
