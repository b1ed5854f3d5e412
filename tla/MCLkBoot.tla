------------------------------- MODULE MCLkBoot -------------------------------
(* The boards of LkBoot for TLC: NAND boards with either name of the FOTA  *)
(* partition, with and without keys, and eMMC boards with signed kernels   *)
(* and with an image that is in memory already.                            *)
EXTENDS LkBoot

MdmBoard  == [emmc |-> FALSE, signed |-> FALSE, fota |-> "fota",
              keypad |-> FALSE, unified |-> FALSE]
NandBoard == [emmc |-> FALSE, signed |-> TRUE, fota |-> "FOTA",
              keypad |-> TRUE, unified |-> FALSE]
EmmcBoard == [emmc |-> TRUE, signed |-> TRUE, fota |-> "FOTA",
              keypad |-> TRUE, unified |-> FALSE]
MemBoard  == [EmmcBoard EXCEPT !.unified = TRUE]

AllBoards == {MdmBoard, NandBoard, EmmcBoard, MemBoard}
=============================================================================
