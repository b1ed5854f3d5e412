------------------------------ MODULE LkStorage ------------------------------
(***************************************************************************)
(* What the storage drivers of the bootloader have in common.  A board     *)
(* boots from NAND (LkNand) or from an eMMC or SD card (LkMmc):            *)
(* target_is_emmc_boot() in app/aboot says which.  Either way there is a   *)
(* medium that survives a power cut, tables the driver keeps in RAM, one   *)
(* call of the driver at a time, and hardware that may fail.               *)
(***************************************************************************)
EXTENDS Integers

CONSTANTS
    MaxFaults,     \* commands to the hardware that may fail
    MaxCuts,       \* power cuts
    MaxCalls       \* calls of the driver by fastboot and the loaders

VARIABLES
    board,     \* the part fitted; never changes
    medium,    \* the flash or the card
    drv,       \* what the driver knows of it, in RAM
    call,      \* the driver function running: program counter and locals
    left,      \* faults, cuts and calls still to come
    hist       \* what the callers were told; read by no action

vars == <<board, medium, drv, call, left, hist>>

AllLeft == [faults |-> MaxFaults, cuts |-> MaxCuts, calls |-> MaxCalls]

\* Whether the next command to the hardware fails.
Fails == IF left.faults > 0 THEN {FALSE, TRUE} ELSE {FALSE}

\* A fault was used up, or not.
Spend(f) == left' = [left EXCEPT !.faults = IF f THEN @ - 1 ELSE @]
=============================================================================
