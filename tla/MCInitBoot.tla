----------------------------- MODULE MCInitBoot ------------------------------
(* InitBoot on small devices: one that sets properties and loses power, an  *)
(* encrypted one, one whose devices come and go and whose drivers ask for   *)
(* firmware, one that charges, and one on which things fail.                *)
EXTENDS InitBoot

MCRo == {"ro.debuggable", "ro.crypto.state", "ro.serialno"}

MCNames == MCRo \union {"persist.p", "net.dns", "net.change", "vold.decrypt",
                        "sys.powerctl", "sys.charged", "x", "y"}

MCValues == {"1", "2", "3", "encrypted", "unencrypted", "trigger_load_persist_props", "reboot"}

Early == EventAction("early-init", <<Do("start", "", "")>>)

Fs == EventAction("fs", <<Do("mount_all", "", "")>>)

PowerCtl == PropertyAction("sys.powerctl", "*", <<Do("powerctl", "sys.powerctl", "")>>)

Quiet ==
    [rc |-> <<Early, Fs>>, charger |-> FALSE, encrypted |-> FALSE, broken |-> FALSE,
     kernel |-> <<<<"ro.serialno", "1">>>>,
     ramdisk |-> <<<<"ro.serialno", "2">>, <<"ro.debuggable", "1">>>>,
     build |-> <<<<"ro.debuggable", "2">>, <<"x", "2">>>>, default |-> <<>>, local |-> <<>>,
     sets |-> {<<"y", "1">>}, devices |-> {}, hotplug |-> {}, firmware |-> {}, faults |-> FALSE]

(* The actions trigger each other, and one of them itself.                 *)
Triggers ==
    [Quiet EXCEPT
       !.rc = <<Early, Fs,
                EventAction("nonencrypted", <<>>),
                EventAction("boot", <<Do("setprop", "x", "1"), Do("setprop", "net.dns", "1")>>),
                PropertyAction("x", "1", <<Do("setprop", "y", "1"), Do("trigger", "late", "")>>),
                PropertyAction("x", "2", <<Do("other", "", "")>>),
                PropertyAction("y", "*", <<Do("setprop", "x", "1"), Do("other", "", "")>>),
                PropertyAction("net.change", "*", <<Do("other", "", "")>>),
                EventAction("late", <<Do("setprop", "ro.serialno", "2")>>)>>,
       !.sets = {<<"x", "1">>, <<"x", "2">>}]

Persistent ==
    [Quiet EXCEPT
       !.rc = <<Early, Fs, PowerCtl>>,
       !.build = <<<<"persist.p", "2">>>>, !.local = <<<<"persist.p", "2">>>>,
       !.sets = {<<"persist.p", "1">>, <<"persist.p", "3">>, <<"sys.powerctl", "reboot">>},
       !.faults = TRUE]

Encrypted ==
    [Persistent EXCEPT
       !.encrypted = TRUE,
       !.sets = @ \ {<<"persist.p", "3">>},
       !.rc = @ \o <<PropertyAction("vold.decrypt", "trigger_load_persist_props",
                                    <<Do("load_persist_props", "", "")>>)>>]

Busy == [Quiet EXCEPT !.devices = {"d1", "d2"}, !.hotplug = {"d2"}]

Loading == [Quiet EXCEPT !.devices = {"d1"}, !.firmware = {"f"}]

Charging ==
    [Loading EXCEPT
       !.devices = {}, !.charger = TRUE,
       !.rc = <<Early, Fs,
                PropertyAction("sys.charged", "1", <<Do("trigger", "fs", "")>>)>>,
       !.sets = {<<"sys.charged", "1">>}]

Failing == [Loading EXCEPT !.devices = {}, !.broken = TRUE]

MCPlans == <<Triggers, Persistent, Encrypted, Busy, Loading, Charging, Failing>>
=============================================================================
