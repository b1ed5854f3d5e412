------------------------------- MODULE LkNand -------------------------------
(***************************************************************************)
(* The NAND and OneNAND driver of the bootloader:                          *)
(* src/bootable/lk/platform/msm_shared/nand.c.  The callers are the        *)
(* fastboot commands and the loaders of app/aboot: they write an image to  *)
(* a partition, read one back, and erase a partition, in any order.        *)
(*                                                                         *)
(* The medium is a function from blocks to their bad-block mark and their  *)
(* pages.  A page holds the n-th page of an image, or is blank, torn (a    *)
(* failed or interrupted program) or zero (the raw page that carries the   *)
(* mark).  Every command the controller executes is one step, so that the  *)
(* power can go between any two of them, and in the middle of one.  The    *)
(* command lists that program the data mover are abstracted to the command *)
(* and its status words; the spare area goes with its page.                *)
(***************************************************************************)
EXTENDS LkStorage, Integers, Sequences, FiniteSets

CONSTANTS
    NumBlocks,     \* blocks of the device
    PagesPerBlk,   \* num_pages_per_blk
    Chips,         \* the flash parts a board may carry, by their id
    Ptable,        \* the partition table: name -> [start, length, type]
    Images         \* the images a caller may write: [id, bytes]

\* Sizes are in half pages, so that an image or an offset need not end on one.
PageSize == 2

Block == 0 .. NumBlocks - 1
Page  == 0 .. NumBlocks * PagesPerBlk - 1

ASSUME NandAssumption ==
    /\ NumBlocks \in Nat \ {0}
    /\ PagesPerBlk \in Nat \ {0}
    /\ \A p \in DOMAIN Ptable :
         /\ Ptable[p].start \in Nat /\ Ptable[p].length \in Nat
         /\ Ptable[p].start + Ptable[p].length <= NumBlocks
         /\ Ptable[p].type \in {"APPS", "MODEM"}

\* supported_flash[]: one row for every combination of the fields the driver
\* looks at.  Row 1 (the code's row 0) is filled at run time and never matched.
supported_flash ==
    << [id |-> "none",  widebus |-> FALSE, onenand |-> FALSE],
       [id |-> "sams8", widebus |-> FALSE, onenand |-> FALSE],
       [id |-> "hynx16", widebus |-> TRUE, onenand |-> FALSE],
       [id |-> "samsone", widebus |-> FALSE, onenand |-> TRUE] >>

P == PagesPerBlk
BlockOf(page) == page \div P

\* What a page holds: page n of an image in the layout of codewords cfg, or none.
Without(what) == [id |-> what, n |-> 0, cfg |-> "raw"]
blank == Without("blank")
torn  == Without("torn")
zero  == Without("zero")

NandIdle == [pc |-> "off", fn |-> "none", ptn |-> "none", image |-> "none",
           page |-> 0, left |-> 0, src |-> 0, back |-> 0, from |-> 0, out |-> <<>>,
           errors |-> 0, clean |-> TRUE, r |-> 0]

NoImage == [image |-> "none", pages |-> 0, skipped |-> {}]

Blank == [marked |-> FALSE, page |-> [i \in 0 .. P - 1 |-> blank]]

(***************************************************************************)
(* The controller.  An operator gives the set of outcomes of a command:    *)
(* the medium after it, the result the driver computes from the status     *)
(* words, and whether a fault was used up.                                 *)
(***************************************************************************)
Outcome(m, d, r, f) == [medium |-> m, drv |-> d, r |-> r, fault |-> f]

\* dmov_exec_cmdptr() hands a command list to the data mover and spins until
\* it has a result; a result other than success is only printed, and the
\* status words decide.  They report an error at most MaxFaults times.
dmov_exec_cmdptr == Fails

SetBlock(m, b, blk) == [m EXCEPT ![b] = blk]
Torn(blk, i) == [blk EXCEPT !.page[i] = torn]

\* flash_nand_block_isbad(): -1 on an operation error, 1 when the marker in
\* the first page of the block is not 0xFF.
flash_nand_block_isbad(m, page) ==
    {[r |-> IF f THEN -1 ELSE IF m[BlockOf(page)].marked THEN 1 ELSE 0,
      fault |-> f] : f \in dmov_exec_cmdptr}

\* flash_onenand_block_isbad(): reads the first page raw; a read error counts
\* as bad.
flash_onenand_block_isbad(m, page) ==
    {[r |-> IF f \/ m[BlockOf(page)].marked THEN 1 ELSE 0, fault |-> f] : f \in dmov_exec_cmdptr}

_flash_block_isbad(m, page) ==
    IF drv.type = "onenand" THEN flash_onenand_block_isbad(m, page)
                            ELSE flash_nand_block_isbad(m, page)

\* The erase command itself: it blanks the block, mark included; a failing one
\* leaves the block as it was or damaged.
EraseCommand(m, b) ==
    {Outcome(SetBlock(m, b, Blank), drv, 0, FALSE)}
    \cup (IF TRUE \in dmov_exec_cmdptr
          THEN {Outcome(m, drv, -1, TRUE), Outcome(SetBlock(m, b, Torn(m[b], 0)), drv, -1, TRUE)}
          ELSE {})

\* Mutant: an erase that does not ask whether the block is bad.
EraseBlindly(m, page) ==
    IF page % P # 0 THEN {Outcome(m, drv, -1, FALSE)} ELSE EraseCommand(m, BlockOf(page))

\* flash_nand_erase_block(): only at a block boundary, never a block that is
\* marked or whose mark cannot be read.
flash_nand_erase_block(m, page) ==
    IF page % P # 0 THEN {Outcome(m, drv, -1, FALSE)}
    ELSE UNION {IF bad.r # 0 THEN {Outcome(m, drv, -1, bad.fault)}
                             ELSE EraseCommand(m, BlockOf(page))
                : bad \in flash_nand_block_isbad(m, page)}

\* The OneNAND unlocks and erases the block; any of its status words, or the
\* status of the part itself, fails the call.
flash_onenand_erase_block(m, page) ==
    IF page % P # 0 THEN {Outcome(m, drv, -1, FALSE)}
    ELSE UNION {IF bad.r # 0 THEN {Outcome(m, drv, -1, bad.fault)}
                             ELSE EraseCommand(m, BlockOf(page))
                : bad \in flash_onenand_block_isbad(m, page)}

flash_erase_block(m, page) ==
    IF drv.type = "onenand" THEN flash_onenand_erase_block(m, page)
                            ELSE flash_nand_erase_block(m, page)

\* Programming a page: bits only go from 1 to 0, so that a page that is not
\* blank becomes garbage.
ProgramCommand(m, page, content) ==
    LET b == BlockOf(page)
        i == page % P
        new == IF m[b].page[i] = blank THEN content ELSE torn
    IN  {Outcome(SetBlock(m, b, [m[b] EXCEPT !.page[i] = new]), drv, 0, FALSE)}
        \cup (IF TRUE \in dmov_exec_cmdptr
              THEN {Outcome(SetBlock(m, b, Torn(m[b], i)), drv, -1, TRUE)}
              ELSE {})

\* set_nand_configuration(): the codeword layout of the applications' partitions
\* or of the modem's goes into CFG0 and CFG1.
set_nand_configuration(type) == drv' = [drv EXCEPT !.cfg = type]

\* _flash_nand_write_page(): one program command for every codeword; the page
\* is written when no status word reports an error and all report success.
_flash_nand_write_page(m, page, content) == ProgramCommand(m, page, content)

\* flash_nand_write_page_interleave(): the codewords alternate between the two
\* controllers; each status word is fetched when its controller is free again,
\* and a failure of either fails the page.
flash_nand_write_page_interleave(m, page, content) == ProgramCommand(m, page, content)

\* _flash_onenand_write_page(): fills the data RAM, programs the page from it, and
\* puts the registers back; the part's own status counts as well.
_flash_onenand_write_page(m, page, content) == ProgramCommand(m, page, content)

_flash_write_page(m, page, content) ==
    CASE drv.type = "onenand" -> _flash_onenand_write_page(m, page, content)
      [] drv.type # "onenand" /\ board.interleaved ->
            flash_nand_write_page_interleave(m, page, content)
      [] OTHER -> _flash_nand_write_page(m, page, content)

\* Raw zeros over the first page of the block: data and marker.  When the
\* program fails the marker may or may not have been written.
MarkCommand(m, b) ==
    LET zeros(mark) == SetBlock(m, b, [m[b] EXCEPT !.page[0] = zero, !.marked = mark])
    IN  {Outcome(zeros(TRUE), drv, 0, FALSE)}
        \cup (IF TRUE \in dmov_exec_cmdptr
              THEN {Outcome(zeros(mark \/ m[b].marked), drv, -1, TRUE) : mark \in BOOLEAN}
              ELSE {})

flash_nand_mark_badblock(m, page) == MarkCommand(m, BlockOf(page))
flash_onenand_mark_badblock(m, page) == MarkCommand(m, BlockOf(page))
flash_mark_badblock(m, page) ==
    IF drv.type = "onenand" THEN flash_onenand_mark_badblock(m, page)
                            ELSE flash_nand_mark_badblock(m, page)

\* What a read command returns: a blank page reads as blank or as an ECC error,
\* a torn one too, an intact one as its content; the codewords of a page written
\* in the other layout do not check.
ReadCommand(m, d, page) ==
    LET there == m[BlockOf(page)].page[page % P]
        c == IF there.cfg \in {"raw", d.cfg} THEN there ELSE torn
    IN  {[drv |-> d, r |-> 0, data |-> c, fault |-> FALSE]}
        \cup (IF c \in {blank, torn, zero}
              THEN {[drv |-> d, r |-> -1, data |-> c, fault |-> FALSE]} ELSE {})
        \cup (IF TRUE \in dmov_exec_cmdptr THEN {[drv |-> d, r |-> -1, data |-> c, fault |-> TRUE]} ELSE {})

BadBlock(d, f) == [drv |-> d, r |-> -2, data |-> blank, fault |-> f]

\* _flash_nand_read_page() remembers what it learns about a block: the table
\* entry is -1 until the block is first read, then 1 (bad) or 0 (good).
_flash_nand_read_page(m, page) ==
    LET b == BlockOf(page)
        known(v) == [drv EXCEPT !.bbtbl[b] = v]
    IN  CASE drv.bbtbl[b] = -1 ->
                UNION {IF bad.r # 0 THEN {BadBlock(known(1), bad.fault)}
                                    ELSE ReadCommand(m, known(0), page)
                       : bad \in flash_nand_block_isbad(m, page)}
          [] drv.bbtbl[b] = 1 -> {BadBlock(drv, FALSE)}
          [] OTHER -> ReadCommand(m, drv, page)

\* The interleaved reader takes the codewords from the two controllers in turn,
\* the OneNAND one copies the page from the part's data RAM.  Both look at the
\* mark every time.
flash_nand_read_page_interleave(m, page) ==
    UNION {IF bad.r # 0 THEN {BadBlock(drv, bad.fault)} ELSE ReadCommand(m, drv, page)
           : bad \in flash_nand_block_isbad(m, page)}

_flash_onenand_read_page(m, page) ==
    UNION {IF bad.r # 0 THEN {BadBlock(drv, bad.fault)} ELSE ReadCommand(m, drv, page)
           : bad \in flash_onenand_block_isbad(m, page)}

_flash_read_page(m, page) ==
    CASE drv.type = "onenand" -> _flash_onenand_read_page(m, page)
      [] drv.type # "onenand" /\ board.interleaved -> flash_nand_read_page_interleave(m, page)
      [] OTHER -> _flash_nand_read_page(m, page)

(***************************************************************************)
(* The driver's functions.  Cmd is the step that executes one controller   *)
(* command and goes on with Then(r).                                       *)
(***************************************************************************)
Ptn == Ptable[call.ptn]
LastPage == (Ptn.start + Ptn.length) * P

Done(c, r) == [c EXCEPT !.pc = "done", !.r = r]

\* flash_read_id() looks the id up among the supported NAND parts, then among
\* the OneNAND ones; flash_init() stops on an unknown part and starts with a
\* bad block table that knows nothing.
flash_read_id(id) ==
    LET rows == {i \in 2 .. Len(supported_flash) : supported_flash[i].id = id}
    IN  IF rows = {} THEN "unsupported"
        ELSE LET row == supported_flash[CHOOSE i \in rows : TRUE]
             IN  CASE row.onenand -> "onenand" [] row.widebus /\ ~row.onenand -> "nand16"
                   [] OTHER -> "nand8"

\* flash_nand_read_config(): the two layouts are built on what the controller's
\* registers hold; registers that read as zero are an error.
flash_nand_read_config == {IF f THEN -1 ELSE 0 : f \in dmov_exec_cmdptr}

\* An unknown part, or a NAND whose configuration cannot be read, is an ASSERT.
flash_init ==
    /\ call.pc = "off"
    /\ LET type == flash_read_id(board.id)
       IN  /\ drv' = [type |-> type, cfg |-> "none", bbtbl |-> [b \in Block |-> -1]]
           /\ \E r \in flash_nand_read_config :
                /\ type \in {"unsupported", "onenand"} => r = 0
                /\ Spend(r # 0)
                /\ call' = [NandIdle EXCEPT !.pc = IF type = "unsupported" \/ r # 0
                                                  THEN "halt" ELSE "idle"]
    /\ UNCHANGED <<board, medium, hist>>

\* A call of flash_write(): the OneNAND cannot write the modem's page layout.
flash_write(p, img) ==
    /\ call.pc = "idle" /\ left.calls > 0
    /\ left' = [left EXCEPT !.calls = @ - 1]
    /\ hist' = [hist EXCEPT ![p] = NoImage]
    /\ call' = LET c == [NandIdle EXCEPT !.fn = "write", !.ptn = p, !.image = img.id]
               IN  IF drv.type = "onenand" /\ Ptable[p].type = "MODEM" THEN Done(c, -1)
                   ELSE [c EXCEPT !.pc = "top", !.page = Ptable[p].start * P, !.left = img.bytes]
    /\ IF drv.type = "onenand" /\ Ptable[p].type = "MODEM" THEN UNCHANGED drv
       ELSE set_nand_configuration(Ptable[p].type)
    /\ UNCHANGED <<board, medium>>

\* The head of its loop, up to the program command: too small a rest, no more
\* room, a block to erase first (one that cannot be erased is skipped), or the
\* next page of the block.
flash_write_top ==
    /\ call.pc = "top"
    /\ \/ /\ call.left = 0
          /\ call' = [call EXCEPT !.pc = "tail", !.page = ((@ + P - 1) \div P) * P]
          /\ UNCHANGED <<medium, left, hist>>
       \/ /\ call.left > 0
          /\ call.left < PageSize \/ call.page >= LastPage
          /\ call' = Done(call, -1)
          /\ UNCHANGED <<medium, left, hist>>
       \/ /\ call.left >= PageSize /\ call.page < LastPage /\ call.page % P # 0
          /\ call' = [call EXCEPT !.pc = "program"]
          /\ UNCHANGED <<medium, left, hist>>
       \/ /\ call.left >= PageSize /\ call.page < LastPage /\ call.page % P = 0
          /\ \E o \in flash_erase_block(medium, call.page) :
               /\ medium' = o.medium
               /\ Spend(o.fault)
               /\ call' = IF o.r = 0 THEN [call EXCEPT !.pc = "program"]
                                     ELSE [call EXCEPT !.page = @ + P]
               /\ hist' = IF o.r = 0 THEN hist
                          ELSE [hist EXCEPT ![call.ptn].skipped = @ \cup {BlockOf(call.page)}]
    /\ UNCHANGED <<board, drv>>

\* Mutant: the restart forgets to take the image back to the block's first page.
NoRewind ==
    /\ call.pc = "program"
    /\ \E o \in _flash_write_page(medium, call.page, [id |-> call.image, n |-> call.src, cfg |-> drv.cfg]) :
         /\ medium' = o.medium
         /\ Spend(o.fault)
         /\ call' = IF o.r = 0
                    THEN [call EXCEPT !.pc = "top", !.page = @ + 1, !.src = @ + 1,
                                      !.left = @ - PageSize]
                    ELSE [call EXCEPT !.pc = "restart", !.page = @ - (@ % P)]
    /\ UNCHANGED <<board, drv, hist>>

\* Programming one page.  When it fails, the image goes back by the pages
\* already written to this block, and the block is erased, marked and skipped.
flash_write_page ==
    /\ call.pc = "program"
    /\ \E o \in _flash_write_page(medium, call.page, [id |-> call.image, n |-> call.src, cfg |-> drv.cfg]) :
         /\ medium' = o.medium
         /\ Spend(o.fault)
         /\ call' = IF o.r = 0
                    THEN [call EXCEPT !.pc = "top", !.page = @ + 1, !.src = @ + 1,
                                      !.left = @ - PageSize]
                    ELSE [call EXCEPT !.pc = "restart", !.page = @ - (@ % P),
                                      !.src = @ - (call.page % P),
                                      !.left = @ + (call.page % P) * PageSize]
    /\ UNCHANGED <<board, drv, hist>>

flash_write_restart ==
    /\ call.pc = "restart"
    /\ \E o \in flash_erase_block(medium, call.page) :
         /\ medium' = o.medium
         /\ Spend(o.fault)
    /\ hist' = [hist EXCEPT ![call.ptn].skipped = @ \cup {BlockOf(call.page)}]
    /\ call' = IF Ptn.type = "MODEM" THEN [call EXCEPT !.pc = "top", !.page = @ + P]
                                     ELSE [call EXCEPT !.pc = "mark"]
    /\ UNCHANGED <<board, drv>>

flash_write_mark ==
    /\ call.pc = "mark"
    /\ \E o \in flash_mark_badblock(medium, call.page) : medium' = o.medium /\ Spend(o.fault)
    /\ call' = [call EXCEPT !.pc = "top", !.page = @ + P]
    /\ UNCHANGED <<board, drv, hist>>

\* The rest of the partition is erased block by block; a failure is printed.
flash_write_tail ==
    /\ call.pc = "tail"
    /\ IF call.page < LastPage
       THEN /\ \E o \in flash_erase_block(medium, call.page) : medium' = o.medium /\ Spend(o.fault)
            /\ call' = [call EXCEPT !.page = @ + P]
            /\ UNCHANGED hist
       ELSE /\ call' = Done(call, 0)
            /\ hist' = [hist EXCEPT ![call.ptn].image = call.image,
                                  ![call.ptn].pages = call.src]
            /\ UNCHANGED <<medium, left>>
    /\ UNCHANGED <<board, drv>>

\* A call of flash_erase(): every block once, whatever comes of it.
flash_erase(p) ==
    /\ call.pc = "idle" /\ left.calls > 0
    /\ left' = [left EXCEPT !.calls = @ - 1]
    /\ hist' = [hist EXCEPT ![p] = NoImage]
    /\ call' = [NandIdle EXCEPT !.pc = "erase", !.fn = "erase", !.ptn = p,
                              !.page = Ptable[p].start * P, !.left = Ptable[p].length]
    /\ set_nand_configuration(Ptable[p].type)
    /\ UNCHANGED <<board, medium>>

flash_erase_next ==
    /\ call.pc = "erase"
    /\ IF call.left = 0
       THEN call' = Done(call, 0) /\ UNCHANGED <<medium, left>>
       ELSE /\ \E o \in flash_erase_block(medium, call.page) : medium' = o.medium /\ Spend(o.fault)
            /\ call' = [call EXCEPT !.page = @ + P, !.left = @ - 1]
    /\ UNCHANGED <<board, drv, hist>>

\* A call of flash_read_ext(): offset and bytes in half pages.  Blocks of the
\* partition before the offset that are bad move the start one block on.  The
\* reader takes the applications' layout whatever the partition's type.
flash_read_ext(p, offset, bytes) ==
    /\ call.pc = "idle" /\ left.calls > 0
    /\ left' = [left EXCEPT !.calls = @ - 1]
    /\ call' = LET c == [NandIdle EXCEPT !.fn = "read", !.ptn = p, !.from = offset \div PageSize]
               IN  IF offset % PageSize # 0 THEN Done(c, -1)
                   ELSE [c EXCEPT !.pc = "adjust",
                                  !.page = Ptable[p].start * P + offset \div PageSize,
                                  !.left = (bytes + PageSize - 1) \div PageSize,
                                  !.src = Ptable[p].start,
                                  !.back = offset \div (PageSize * P)]
    /\ set_nand_configuration("APPS")
    /\ UNCHANGED <<board, medium, hist>>

flash_read_adjust ==
    /\ call.pc = "adjust"
    /\ IF call.back > 0 /\ call.src < Ptn.start + Ptn.length
       THEN \E bad \in _flash_block_isbad(medium, call.src * P) :
              /\ call' = LET c == [call EXCEPT !.src = @ + 1, !.clean = @ /\ ~bad.fault]
                         IN  IF bad.r # 0 THEN [c EXCEPT !.page = @ + P]
                                          ELSE [c EXCEPT !.back = @ - 1]
              /\ Spend(bad.fault)
       ELSE /\ call' = [call EXCEPT !.pc = "read"]
            /\ UNCHANGED left
    /\ UNCHANGED <<board, medium, drv, hist>>

\* One page: a page that cannot be read is left out, a bad block is skipped at
\* the same offset.  The number of pages still wanted is only looked at while
\* there are pages left in the partition.
flash_read_page ==
    /\ call.pc = "read"
    /\ IF call.page < LastPage /\ call.back = 0 /\ call.left > 0
       THEN \E o \in _flash_read_page(medium, call.page) :
              /\ drv' = o.drv
              /\ Spend(o.fault)
              /\ call' = LET c == [call EXCEPT !.clean = @ /\ ~o.fault]
                         IN  CASE o.r = -1 -> [c EXCEPT !.page = @ + 1, !.errors = @ + 1]
                               [] o.r = -2 -> [c EXCEPT !.page = @ + P, !.errors = @ + 1]
                               [] OTHER -> [c EXCEPT !.page = @ + 1, !.left = @ - 1,
                                                     !.out = Append(@, o.data)]
       ELSE /\ call' = Done(call, IF call.page < LastPage /\ call.back = 0 THEN 0 ELSE -1)
            /\ UNCHANGED <<drv, left>>
    /\ UNCHANGED <<board, medium, hist>>

\* The caller has the result.
NandReturn ==
    /\ call.pc = "done"
    /\ call' = [NandIdle EXCEPT !.pc = "idle"]
    /\ UNCHANGED <<board, medium, drv, left, hist>>

\* The power goes.  A program or erase command under way may have torn its
\* page or block; the driver's memory is lost.
Interrupted ==
    LET b == BlockOf(call.page)
    IN  CASE call.pc = "program" -> {medium, SetBlock(medium, b, Torn(medium[b], call.page % P))}
          [] call.pc \in {"top", "restart", "tail", "erase"} /\ call.page < LastPage /\ ~medium[b].marked ->
                {medium, SetBlock(medium, b, Torn(medium[b], 0))}
          [] call.pc = "mark" -> {medium, SetBlock(medium, b, Torn(medium[b], 0))}
          [] OTHER -> {medium}

NandPowerCut ==
    /\ board.kind = "nand" /\ call.pc \notin {"off", "halt"} /\ left.cuts > 0
    /\ left' = [left EXCEPT !.cuts = @ - 1]
    /\ medium' \in Interrupted
    /\ call' = NandIdle
    /\ UNCHANGED <<board, drv, hist>>

NandInit ==
    /\ board \in [kind : {"nand"}, id : Chips, interleaved : BOOLEAN]
    /\ \E marks \in SUBSET Block :
         medium = [b \in Block |-> [Blank EXCEPT !.marked = b \in marks,
                                                 !.page[0] = IF b \in marks THEN zero ELSE @]]
    /\ drv = [type |-> "unsupported", cfg |-> "none", bbtbl |-> [b \in Block |-> -1]]
    /\ call = NandIdle
    /\ left = AllLeft
    /\ hist = [p \in DOMAIN Ptable |-> NoImage]

NandCalls ==
    \E p \in DOMAIN Ptable :
      \/ \E img \in Images : flash_write(p, img)
      \/ flash_erase(p)
      \/ \E offset \in 0 .. PageSize * P + 1, pages \in 1 .. P + 1 :
           flash_read_ext(p, offset, pages * PageSize - 1)

NandNext ==
    \/ flash_init \/ NandCalls
    \/ flash_write_top \/ flash_write_page \/ flash_write_restart
    \/ flash_write_mark \/ flash_write_tail
    \/ flash_erase_next
    \/ flash_read_adjust \/ flash_read_page
    \/ NandReturn \/ NandPowerCut

-----------------------------------------------------------------------------
\* The n-th page the image of partition p should give from page `from` on.
Expected(p, from, len) ==
    [i \in 1 .. len |-> [id |-> hist[p].image, n |-> from + i - 1, cfg |-> "APPS"]]

\* The table is current: what it says of a block agrees with the block's mark.
TableCurrent ==
    \A b \in Block : drv.bbtbl[b] # -1 => (drv.bbtbl[b] = 1) = medium[b].marked

\* What was written reads back.  After flash_write() reported success, and
\* through rewinds, skipped blocks, power cuts and reboots, a flash_read_ext()
\* that succeeds without a controller error returns the pages of the image from
\* the offset asked for, in order, and only blank pages after them
\* (nand.c:3380-3549).  The reader finds the writer's blocks only by their
\* marks, so two more conditions are needed, and each can really fail: every
\* block the writer skipped has its mark, and the table of known blocks is not
\* out of date.  A partition in the modem's layout does not read back: the
\* reader always takes the applications' (nand.c:3400).
ReadsBack ==
    (/\ board.kind = "nand" /\ call.pc = "done" /\ call.fn = "read" /\ call.r = 0 /\ call.clean
     /\ hist[call.ptn].image # "none" /\ Ptn.type = "APPS"
     /\ \A b \in hist[call.ptn].skipped : medium[b].marked
     /\ TableCurrent)
    => \E k \in 0 .. Len(call.out) :
         /\ SubSeq(call.out, 1, k) = Expected(call.ptn, call.from, k)
         /\ \A i \in k + 1 .. Len(call.out) :
              /\ call.out[i] \in {blank, torn}
              /\ call.from + i > hist[call.ptn].pages

\* A bad-block mark, the factory's or the driver's, is never lost: no erase,
\* program or power cut takes it away (nand.c:529-540, 2034-2043).
MarksSurvive == [][board.kind = "nand" => \A b \in Block : medium[b].marked => medium'[b].marked]_vars
=============================================================================
