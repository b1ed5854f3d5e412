------------------------------- MODULE LkBoot -------------------------------
(***************************************************************************)
(* What the bootloader starts, and what it leaves in flash, over any       *)
(* number of boots: aboot_init, recovery_init and _emmc_recovery_init, the *)
(* loaders of the kernel image, the device-info record and the fastboot    *)
(* commands that boot, reboot or write (app/aboot/aboot.c, recovery.c and  *)
(* target/mdm9615/init.c under src/bootable/lk), on NAND and eMMC boards.  *)
(*                                                                         *)
(* Every write to flash is a step of its own.  It may succeed, fail before *)
(* it changes anything, or (NAND, where flash_write erases the block       *)
(* first) fail and leave the block erased.  A power cut can come at any    *)
(* time, in the middle of a write too.  Neither is bounded.                *)
(*                                                                         *)
(* The kernels, the first-stage bootloader and the modem are external:     *)
(* they appear as what they may write or do between two runs of aboot.     *)
(***************************************************************************)
EXTENDS Naturals

CONSTANT Boards    \* the boards the bootloader is built for

\* target_is_emmc_boot(), target_use_signed_kernel(), the name the FOTA
\* partition has in the flash partition table after target_init(), whether
\* there is a keypad (NO_KEYPAD_DRIVER), and whether an earlier stage leaves
\* an image at EMMC_BOOT_IMG_HEADER_ADDR.
Board == [emmc : BOOLEAN, signed : BOOLEAN, fota : {"FOTA", "fota"},
          keypad : BOOLEAN, unified : BOOLEAN]

ASSUME BootAssumption == Boards \subseteq Board

VARIABLES
    board,    \* this board
    flash,    \* what survives a power cut
    reason,   \* RESTART_REASON_ADDR: survives a reset, not a power cut
    lk,       \* the bootloader's memory
    hist      \* what was asked for; read by no action

vars == <<board, flash, reason, lk, hist>>

Command == {"", "boot-recovery", "update-radio", "reset-device-info",
            "root-detect", "erased"}
Status  == {"", "RADIO", "OKAY", "failed-update", "erased"}
Images  == {"boot", "recovery"}
Info    == [magic : BOOLEAN, unlocked : BOOLEAN, tampered : BOOLEAN]

Pc == {"off", "keys", "reason", "message", "fota", "send", "debug", "load",
       "record", "kernel", "fastboot"}

NoInfo == [magic |-> TRUE, unlocked |-> FALSE, tampered |-> FALSE]
\* A device-info block without DEVICE_MAGIC.
Blank == [NoInfo EXCEPT !.magic = FALSE]

\* The bootloader's memory when it starts: boot_into_recovery and device are
\* initialised data, the message is a local of recovery_init.
Fresh ==
    [pc |-> "off", into |-> FALSE, device |-> NoInfo, os |-> "none",
     msg |-> [command |-> "", status |-> ""], radio |-> FALSE, udc |-> "none"]

TypeOK ==
    /\ board \in Boards
    /\ flash \in [command : Command, status : Status,
                  fota : {"", "ssd", "fota", "log"},
                  info : Info,
                  good : SUBSET Images]
    /\ reason \in {"none", "recovery", "fastboot"}
    /\ lk \in [pc : Pc, into : BOOLEAN, device : Info,
               os : {"none", "boot", "recovery", "adhoc", "unified"},
               msg : [command : Command, status : Status], radio : BOOLEAN,
               udc : {"none", "started", "stopped"}]
    /\ hist \in [asked : SUBSET {"key", "reason", "message", "fota", "stuck"},
                 request : {"none", "left", "taken", "dropped"}, read : BOOLEAN]

Init ==
    /\ board \in Boards
    /\ flash = [command |-> "erased", status |-> "erased", fota |-> "",
                info |-> Blank, good |-> Images]
    /\ reason = "none"
    /\ lk = Fresh
    /\ hist = [asked |-> {}, request |-> "none", read |-> FALSE]

Emmc == board.emmc
SignedKernel == board.signed

-----------------------------------------------------------------------------
(* Flash.                                                                  *)

\* The possible contents after a write of `new' over `old': flash_write on
\* NAND erases before it programs, mmc_write replaces in place.
Written(old, new, erased) == {new, old} \cup (IF Emmc THEN {} ELSE {erased})

Message(c, s) == [command |-> c, status |-> s]

\* flash with the message block holding m.
WithMessage(m) == [flash EXCEPT !.command = m.command, !.status = m.status]

\* ptable_find: names are compared as they are spelled.
ptable_find(name) == name = board.fota

\* save_debug_message: the log goes to the partition "FOTA", over whatever is
\* at its start.  The possible contents of that partition afterwards.
save_debug_message(old) ==
    IF ptable_find("FOTA") THEN Written(old, "log", "") ELSE {old}

\* write_device_info: the possible contents of the block afterwards.
write_device_info(info) == Written(flash.info, info, Blank)

\* The label fastboot of aboot_init; on NAND the commands are registered after
\* the log has been saved.  A cmd_continue that fails is there already.
EnterFastboot(m) ==
    /\ lk' = [m EXCEPT !.pc = "fastboot",
                 !.udc = IF @ = "none" THEN "started" ELSE @]
    /\ IF Emmc \/ lk.udc # "none" THEN UNCHANGED flash
       ELSE \E f \in save_debug_message(flash.fota) :
                flash' = [flash EXCEPT !.fota = f]

-----------------------------------------------------------------------------
(* aboot_init.                                                             *)

\* Power on or reset.  A modem that finds the radio cookie updates itself and
\* may remove the cookie (external).  read_device_info then loads the device
\* flags, and writes the default ones over a block without the magic.
PowerOn ==
    /\ lk.pc = "off"
    /\ \E f \in IF flash.fota = "ssd" THEN {"ssd", ""} ELSE {flash.fota},
          readable \in BOOLEAN :
        LET blank == SignedKernel /\ readable /\ flash.info = Blank IN
        \E i \in IF blank THEN write_device_info(NoInfo) ELSE {flash.info} :
            /\ flash' = [flash EXCEPT !.fota = f, !.info = i]
            /\ lk' = [lk EXCEPT !.pc = "keys",
                       !.device = IF SignedKernel /\ readable /\ ~blank
                                  THEN flash.info ELSE NoInfo]
    /\ hist' = [hist EXCEPT !.read = FALSE]
    /\ UNCHANGED <<board, reason>>

\* The keys held at power on: HOME or VOLUMEUP, else BACK or VOLUMEDOWN; a
\* board without keys has fastboot_trigger.
Keys(key) ==
    /\ lk.pc = "keys"
    /\ key = "recovery" => board.keypad
    /\ CASE key = "recovery" ->
                /\ lk' = [lk EXCEPT !.pc = "reason", !.into = TRUE]
                /\ hist' = [hist EXCEPT !.asked = @ \cup {"key"}]
                /\ UNCHANGED flash
         [] key = "fastboot" -> EnterFastboot(lk) /\ UNCHANGED hist
         [] key = "none" ->
                /\ lk' = [lk EXCEPT !.pc = "reason"]
                /\ UNCHANGED <<flash, hist>>
    /\ UNCHANGED <<board, reason>>

\* Mutant of Scrubbed: the register keeps the reason it was read for.
KeepReason(r) == r

\* What check_reboot_mode leaves in the register.
Scrubbed(r) == "none"

\* check_reboot_mode and aboot_init's decision on it.  The cookie is looked up
\* under the name "fota"; a failing read counts as no cookie.
check_reboot_mode ==
    /\ lk.pc = "reason"
    /\ reason' = Scrubbed(reason)
    /\ UNCHANGED <<board, hist>>
    /\ \E readable \in BOOLEAN :
        LET mode == IF ptable_find("fota") /\ readable /\ flash.fota = "fota"
                    THEN "recovery" ELSE reason IN
        CASE mode = "recovery" ->
                lk' = [lk EXCEPT !.pc = "message", !.into = TRUE]
                /\ UNCHANGED flash
          [] mode = "fastboot" -> EnterFastboot(lk)
          [] mode = "none" ->
                lk' = [lk EXCEPT !.pc = "message"] /\ UNCHANGED flash

-----------------------------------------------------------------------------
(* recovery_init (NAND) and _emmc_recovery_init.                           *)

Loading == IF Emmc THEN "load" ELSE "debug"

\* The commands that ask for recovery.
Asking == IF Emmc THEN {"update-radio"} ELSE {"boot-recovery"}

\* History: a message that asks for recovery has been read, or not.
Took(readable) ==
    [hist EXCEPT !.read = readable,
                 !.request = IF readable /\ flash.command \in Asking THEN "taken" ELSE @]

\* Mutant of Answer: the command is left as it is.
AnswerKeepsCommand(s, ok) ==
    Message("boot-recovery", IF s = "RADIO" /\ ~ok THEN "failed-update" ELSE "OKAY")

\* The message recovery_init writes back for "boot-recovery"; ok: the modem
\* reports a successful update.
Answer(s, ok) ==
    Message("", IF s = "RADIO" /\ ~ok THEN "failed-update" ELSE "OKAY")

\* recovery_init up to its first write.  A message that cannot be read leaves
\* everything as it is.
recovery_init ==
    /\ ~Emmc
    /\ lk.pc = "message"
    /\ \E readable, ok \in BOOLEAN :
        /\ lk' = CASE readable /\ flash.command = "boot-recovery" ->
                        [lk EXCEPT !.pc = "send", !.into = TRUE,
                            !.msg = Answer(flash.status, ok)]
                   [] readable /\ flash.command = "update-radio" ->
                        [lk EXCEPT !.pc = "fota", !.radio = TRUE]
                   [] OTHER -> [lk EXCEPT !.pc = "debug"]
        /\ hist' = Took(readable)
    /\ UNCHANGED <<board, flash, reason>>

\* Mutant of RadioAnswer: the command is not cleared.
RadioAnswerKeepsCommand(written) ==
    Message("update-radio", IF written THEN "" ELSE "failed-update")

\* What an update that was or was not handed to the modem leaves as message.
RadioAnswer(written) == Message("", IF written THEN "" ELSE "failed-update")

\* set_ssd_radio_update: the cookie for the modem goes to "FOTA".
set_ssd_radio_update ==
    /\ lk.pc = "fota"
    /\ \E f \in IF ptable_find("FOTA") THEN Written(flash.fota, "ssd", "")
                ELSE {flash.fota},
          written \in BOOLEAN :
        /\ written => ptable_find("FOTA") /\ f = "ssd"
        /\ f # flash.fota /\ f = "ssd" => written
        /\ flash' = [flash EXCEPT !.fota = f]
        /\ lk' = [lk EXCEPT !.pc = "send", !.into = TRUE,
                    !.msg = RadioAnswer(written)]
    /\ UNCHANGED <<board, reason, hist>>

\* set_recovery_message, whose result nobody looks at; after a radio update
\* the device is reset.
SendMessage(m) ==
    /\ lk.pc = "send"
    /\ flash' = WithMessage(m)
    /\ hist' = [hist EXCEPT
                  !.asked = IF m.command \in Asking /\ m # lk.msg THEN @ \cup {"stuck"}
                            ELSE @]
    /\ IF lk.radio
       THEN lk' = Fresh /\ reason' = "none"
       ELSE lk' = [lk EXCEPT !.pc = Loading, !.msg = Fresh.msg] /\ UNCHANGED reason
    /\ UNCHANGED board

set_recovery_message ==
    \E m \in Written(Message(flash.command, flash.status), lk.msg,
                     Message("erased", "erased")) : SendMessage(m)

\* _emmc_recovery_init up to its last write: the else belongs to the last if,
\* so only "root-detect" gets as far as clearing the command.
_emmc_recovery_init ==
    /\ Emmc
    /\ lk.pc = "message"
    /\ \E readable \in BOOLEAN :
        LET c == IF readable THEN flash.command ELSE ""
            dev == IF c \in {"reset-device-info", "root-detect"}
                   THEN [lk.device EXCEPT !.tampered = c = "root-detect"]
                   ELSE lk.device IN
        /\ \E i \in IF c \in {"reset-device-info", "root-detect"}
                    THEN write_device_info(dev) ELSE {flash.info} :
                flash' = [flash EXCEPT !.info = i]
        /\ lk' = [lk EXCEPT !.device = dev,
                    !.into = @ \/ c = "update-radio",
                    !.pc = IF c = "root-detect" THEN "send" ELSE "load",
                    !.msg = IF c = "root-detect" THEN Message("", flash.status)
                            ELSE @]
        /\ hist' = Took(readable)
    /\ UNCHANGED <<board, reason>>

\* save_debug_message before the kernel is loaded (NAND).
SaveLog ==
    /\ lk.pc = "debug"
    /\ \E f \in save_debug_message(flash.fota) :
            flash' = [flash EXCEPT !.fota = f]
    /\ lk' = [lk EXCEPT !.pc = "load"]
    /\ UNCHANGED <<board, reason, hist>>

-----------------------------------------------------------------------------
(* The kernel image.                                                       *)

Wanted == IF lk.into THEN "recovery" ELSE "boot"

\* The image is checked against its signature.
Verifies(dev) == SignedKernel /\ ~dev.unlocked /\ ~dev.tampered

\* boot_linux: the jump to the kernel.
Started(m, os) == [m EXCEPT !.pc = "kernel", !.os = os]

\* History: recovery, once started, has been given the request that was taken.
Served ==
    hist' = [hist EXCEPT
               !.request = IF lk'.pc = "kernel" /\ lk'.os = "recovery" /\ @ = "taken"
                           THEN "none" ELSE @]

\* Both loaders.  A missing partition, a bad header or a failing read ends in
\* fastboot; once the image is to be checked, the device counts as tampered
\* until the signature is found good.  Whether it is good is left open.
Load ==
    /\ lk.pc = "load"
    /\ LET tampered == [lk EXCEPT !.device.tampered = TRUE] IN
       \/ EnterFastboot(lk)
       \/ /\ Wanted \in flash.good /\ Verifies(lk.device)
          /\ \/ EnterFastboot(tampered)
             \/ lk' = Started(lk, Wanted) /\ UNCHANGED flash
             \/ lk' = [tampered EXCEPT !.pc = "record"] /\ UNCHANGED flash
       \/ /\ Wanted \in flash.good /\ ~Verifies(lk.device)
          /\ lk' = Started(lk, Wanted)
          /\ UNCHANGED flash
    /\ Served
    /\ UNCHANGED <<board, reason>>

\* An image that is in memory already is started as it is, whatever was asked
\* for and without a look at its signature.
UnifiedBoot ==
    /\ lk.pc = "load"
    /\ lk' = Started(lk, "unified")
    /\ UNCHANGED <<board, flash, reason, hist>>

boot_linux_from_flash == ~Emmc /\ Load
boot_linux_from_mmc == Emmc /\ IF board.unified THEN UnifiedBoot ELSE Load

\* An image whose signature is missing or wrong is recorded, and started.
RecordTampered ==
    /\ lk.pc = "record"
    /\ \E i \in write_device_info(lk.device) :
            flash' = [flash EXCEPT !.info = i]
    /\ lk' = Started(lk, Wanted)
    /\ Served
    /\ UNCHANGED <<board, reason>>

-----------------------------------------------------------------------------
(* Fastboot commands, while the USB controller runs.                       *)

Fastboot == lk.pc = "fastboot" /\ lk.udc = "started"

\* cmd_continue: the loader runs without recovery_init, and if it fails the
\* command returns with the controller stopped.
cmd_continue ==
    /\ Fastboot
    /\ lk' = [lk EXCEPT !.pc = "load", !.udc = "stopped"]
    /\ UNCHANGED <<board, flash, reason, hist>>

\* cmd_boot of a complete image.
cmd_boot ==
    /\ Fastboot
    /\ lk' = Started([lk EXCEPT !.udc = "stopped"], "adhoc")
    /\ UNCHANGED <<board, flash, reason, hist>>

\* History: what becomes of a request when this run of the bootloader, or what
\* it started, ends: one that was taken is there for the next boot only as far
\* as it is still in flash.
AfterReset(request, fl) ==
    IF request # "taken" THEN request
    ELSE IF fl.command \in Asking THEN "left" ELSE "dropped"

\* cmd_reboot and cmd_reboot_bootloader.
cmd_reboot(mode) ==
    /\ Fastboot
    /\ lk' = Fresh
    /\ reason' = mode
    /\ hist' = [hist EXCEPT !.asked = @ \ {"key", "reason"}, !.read = FALSE,
                            !.request = AfterReset(@, flash)]
    /\ UNCHANGED <<board, flash>>

\* The kernel partition i then holds an image with a boot header, or does not.
Stored(i, good) ==
    /\ flash' = [flash EXCEPT !.good = IF good THEN @ \cup {i} ELSE @ \ {i}]
    /\ UNCHANGED <<board, reason, lk, hist>>

cmd_erase(i) == Fastboot /\ ~Emmc /\ Stored(i, FALSE)

\* It writes zeros over the first blocks only, which hold the header.
cmd_erase_mmc(i) == Fastboot /\ Emmc /\ Stored(i, FALSE)

\* An image without a boot header is refused; a write may fail half way.
cmd_flash(i) == Fastboot /\ ~Emmc /\ \E done \in BOOLEAN : Stored(i, done)

cmd_flash_mmc(i) == Fastboot /\ Emmc /\ \E done \in BOOLEAN : Stored(i, done)

\* cmd_oem_unlock.
cmd_oem_unlock ==
    /\ Fastboot
    /\ ~lk.device.unlocked
    /\ LET dev == [lk.device EXCEPT !.unlocked = TRUE] IN
        /\ lk' = [lk EXCEPT !.device = dev]
        /\ \E i \in write_device_info(dev) : flash' = [flash EXCEPT !.info = i]
    /\ UNCHANGED <<board, reason, hist>>

-----------------------------------------------------------------------------
(* Outside the bootloader.                                                 *)

\* The commands the bootloader of this board knows, and none; another one is as
\* good as none.  Only recovery_init looks at the status.
Known == IF Emmc THEN {"", "update-radio", "reset-device-info", "root-detect"}
         ELSE {"", "boot-recovery", "update-radio"}
Statuses == IF Emmc THEN {""} ELSE {"", "RADIO"}

\* A running kernel leaves a message for the next boot.
OsMessage(c, s) ==
    /\ lk.pc = "kernel"
    /\ flash' = WithMessage(Message(c, s))
    /\ hist' = [hist EXCEPT !.read = FALSE,
                  !.request = IF c \in Asking THEN "left" ELSE "none",
                  !.asked = (@ \ {"message", "stuck"}) \cup
                            (IF c \in Asking THEN {"message"} ELSE {})]
    /\ UNCHANGED <<board, reason, lk>>

\* An update agent sets or clears its cookie in the partition "fota".
OsCookie(f) ==
    /\ lk.pc = "kernel" /\ ptable_find("fota")
    /\ flash' = [flash EXCEPT !.fota = f]
    /\ hist' = [hist EXCEPT !.asked = (@ \ {"fota"}) \cup
                                      (IF f = "fota" THEN {"fota"} ELSE {})]
    /\ UNCHANGED <<board, reason, lk>>

\* The requests that are open after this boot: one boot into recovery answers
\* the key, the reason and a message that was read.
Open ==
    (IF lk.pc = "kernel" /\ lk.os = "recovery"
     THEN hist.asked \ ({"key", "reason"} \cup (IF hist.read THEN {"message"} ELSE {}))
     ELSE hist.asked \ {"key"})
    \ (IF flash.command \in Asking THEN {} ELSE {"message", "stuck"})

\* A kernel resets the device with a reason, or a crash resets it without.
OsReset(mode) ==
    /\ lk.pc = "kernel"
    /\ lk' = Fresh
    /\ reason' = IF mode = "crash" THEN reason ELSE mode
    /\ hist' = [hist EXCEPT !.read = FALSE, !.request = AfterReset(@, flash),
                  !.asked = CASE mode = "crash" -> Open
                              [] mode = "recovery" -> Open \cup {"reason"}
                              [] OTHER -> Open \ {"reason"}]
    /\ UNCHANGED <<board, flash>>

\* The power goes, also in the middle of a write.
PowerCut ==
    /\ lk.pc # "off"
    /\ flash' \in {flash} \cup
                  (IF Emmc THEN {}
                   ELSE CASE lk.pc = "send" -> {WithMessage(Message("erased", "erased"))}
                          [] lk.pc \in {"fota", "debug"} -> {[flash EXCEPT !.fota = ""]}
                          [] lk.pc = "record" -> {[flash EXCEPT !.info = Blank]}
                          [] OTHER -> {})
    /\ reason' = "none"
    /\ lk' = Fresh
    /\ hist' = [hist EXCEPT !.asked = Open \ {"reason"}, !.read = FALSE,
                            !.request = AfterReset(@, flash')]
    /\ UNCHANGED board

-----------------------------------------------------------------------------
Boot ==
    \/ PowerOn
    \/ \E key \in {"none", "recovery", "fastboot"} : Keys(key)
    \/ check_reboot_mode \/ recovery_init \/ _emmc_recovery_init
    \/ set_ssd_radio_update \/ set_recovery_message \/ SaveLog
    \/ boot_linux_from_flash \/ boot_linux_from_mmc \/ RecordTampered

Host ==
    \/ cmd_continue \/ cmd_boot \/ cmd_oem_unlock
    \/ \E mode \in {"none", "fastboot"} : cmd_reboot(mode)
    \/ \E i \in Images : \/ cmd_erase(i) \/ cmd_erase_mmc(i)
                         \/ cmd_flash(i) \/ cmd_flash_mmc(i)

Outside ==
    \/ \E c \in Known, s \in Statuses : OsMessage(c, s)
    \/ \E f \in {"", "fota"} : OsCookie(f)
    \/ \E mode \in {"none", "recovery", "fastboot", "crash"} : OsReset(mode)
    \/ PowerCut

Next == Boot \/ Host \/ Outside

Spec == Init /\ [][Next]_vars

\* The bootloader goes on by itself, and a message that is sent again and again
\* is written in the end.
FairSpec == Spec /\ WF_vars(Boot) /\ SF_vars(SendMessage(lk.msg))

-----------------------------------------------------------------------------
\* A NAND board jumps to the kernel of os.
Starts(os) == ~Emmc /\ lk.pc # "kernel" /\ lk'.pc = "kernel" /\ lk'.os = os

\* recovery_init clears the command it answers "to safe against multiple reboot
\* into recovery" (recovery.c, 374), and check_reboot_mode scrubs the reason: a
\* NAND board starts recovery only if a key, a reason, the cookie of an update
\* or a message asks for it and no earlier boot into recovery has answered, or
\* the answer could not be written.
RecoveryHasCause ==
    Starts("recovery") => hist.asked # {}

\* A message that asks for recovery is followed, over any number of boots and
\* power cuts, but for the one window in which it can be lost: recovery_init
\* clears it before recovery is loaded (recovery.c, 374-377), so a request that
\* was taken is dropped if the power goes, or the device is reset from fastboot
\* after a failed load, before recovery starts.  Otherwise the normal kernel is
\* not started by the boot that took the request, and a boot that could not
\* read it leaves it in flash for the next.
RequestNotLost ==
    lk.pc # "kernel" /\ lk'.pc = "kernel" /\ lk'.os = "boot" =>
        /\ hist.request # "taken"
        /\ hist.request = "left" => flash.command \in Asking

\* An "update-radio" that the bootloader takes out of the message has either
\* left the cookie that makes the modem do the update, still in place when the
\* device is reset, or the status "failed-update".  What step 8 of the comment
\* in recovery.c (326-328) asks for besides does not happen: the command is
\* cleared and not set to "boot-recovery", so the next boot is a normal one.
RadioAnswered ==
    lk.radio /\ lk'.pc = "off" /\ flash.command = "update-radio" /\ flash'.command = ""
        => flash'.status = "failed-update" \/ flash'.fota = "ssd"

\* Every boot comes to a kernel or to fastboot, also when a radio update resets
\* the device on its way, unless the power is cut again and again.
BootSettles ==
    \/ []<><<PowerCut>>_vars
    \/ lk.pc = "off" ~> lk.pc \in {"kernel", "fastboot"}

\* What recovery_init and aboot_init are asked for is done and nothing else: no
\* recovery without a cause, no request lost but for a cut or a failed load
\* between its clearing and the start of recovery, and no update of the radio
\* that is cleared without an answer or a cookie.
RequestsFollowed == [][TypeOK' /\ RecoveryHasCause /\ RequestNotLost /\ RadioAnswered]_vars
=============================================================================
