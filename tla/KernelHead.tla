----------------------------- MODULE KernelHead -----------------------------
(***************************************************************************)
(* The kernel before its first line of C.                                  *)
(*                                                                         *)
(* "zimage": arch/arm/boot/compressed/head.S.  A compressed kernel runs    *)
(* wherever the boot loader put it and writes the kernel to a place the    *)
(* build fixed.  When the two would overlap it first moves itself out of   *)
(* the way, copying downwards, and starts again.  Memory is a function     *)
(* from addresses to what is there; one address stands for the 32 bytes    *)
(* that one turn of the copy loop moves.                                   *)
(*                                                                         *)
(* "head": arch/arm and arch/arm64 kernel/head.S.  The entry code checks   *)
(* what the boot loader handed over, builds the first page tables and      *)
(* turns the MMU on under its own feet; later it does so on other CPUs.    *)
(* Addresses are counted in quarters of a section.                         *)
(***************************************************************************)
EXTENDS StartUp, Integers, FiniteSets, TLC

CONSTANTS
    Image,      \* where in the image the labels of head.S lie, a record
    Loads,      \* where an image is put and what it carries
    Processors, \* the processors, as proc_types tells them apart
    PgDir,      \* the size of the first-level table, 16K
    Malloc,     \* the decompressor's heap, 64K
    Block,      \* what the destination of the move is aligned to, 256
    MemTop,     \* the end of memory
    Boots,      \* what the entry code finds, a set of records
    PageOffset, \* the section that the kernel is linked at
    PvAlign,    \* the sections RAM may start at: 16 MiB
    Reach       \* sections in which arm64 looks for the device tree: 512 MiB

Round(a, n) == (a \div n) * n

Cells(lo, hi) == lo .. (hi - 1)

-----------------------------------------------------------------------------
(* Caches.  `dirty' data has not reached memory, `stale' instructions have *)
(* been overwritten there, `lost' data was dropped before it reached it.   *)

\* The methods that proc_types gives a processor, and what its cache is like:
\* a write-through cache needs no cleaning, a unified one has no stale copies.
proc_types ==
    "old"     :> [on |-> "none", off |-> "none", flush |-> "none",
                  back |-> FALSE, split |-> FALSE] @@
    "arm720t" :> [on |-> "mmu", off |-> "drop", flush |-> "none",
                  back |-> FALSE, split |-> FALSE] @@
    "arm74x"  :> [on |-> "overwritten", off |-> "drop", flush |-> "drop",
                  back |-> TRUE, split |-> FALSE] @@
    "arm94x"  :> [on |-> "mpu", off |-> "drop", flush |-> "drop",
                  back |-> TRUE, split |-> TRUE] @@
    "v4"      :> [on |-> "mmu", off |-> "drop", flush |-> "clean",
                  back |-> TRUE, split |-> TRUE] @@
    "v7"      :> [on |-> "mmu", off |-> "clean", flush |-> "clean",
                  back |-> TRUE, split |-> TRUE]

call_cache_fn == proc_types[which.cpu]

\* __setup_mmu: the table lies right below the kernel's place.
TablePlace == Cells(which.dest - PgDir, which.dest)

\* A write goes to the cache when it is on: memory does not have it yet, and the
\* instruction cache does not see it.
Store(s, new) ==
    [s EXCEPT !.mem = [a \in DOMAIN @ |-> IF a \in DOMAIN new THEN new[a] ELSE @[a]],
              !.dirty = @ \/ (s.cached /\ call_cache_fn.back),
              !.stale = @ \/ (s.cached /\ call_cache_fn.split)]

\* The table is written before the MMU, and with it the cache, is turned on.
mmu_cache_on(s) ==
    LET table == [a \in TablePlace |-> <<"table", a - which.dest + PgDir>>]
    IN  [Store(s, table) EXCEPT !.cached = TRUE]

cache_on(s) ==
    IF call_cache_fn.on = "mmu" THEN mmu_cache_on(s)
    ELSE [s EXCEPT !.cached = (call_cache_fn.on = "mpu")]

\* Cleaning writes the dirty lines back; dropping only forgets them.
Flushed(s, how) ==
    IF how = "none" THEN s
    ELSE [s EXCEPT !.lost = @ \/ (how = "drop" /\ s.dirty),
                   !.dirty = FALSE, !.stale = FALSE]

cache_clean_flush(s) == Flushed(s, call_cache_fn.flush)

cache_off(s) == [Flushed(s, call_cache_fn.off) EXCEPT !.cached = FALSE]

\* Known to lose what it has copied: __armv4_mpu_cache_flush invalidates the
\* data cache before it cleans it.
LosesData == {"arm94x"}

\* Instructions are fetched from memory, past the data cache.
Fetchable(s) == /\ s.lost => which.cpu \in LosesData
                /\ ~s.stale /\ (call_cache_fn.split => ~s.dirty)

-----------------------------------------------------------------------------
(* The decompressor.                                                       *)

Intact(s, at, lo, hi) == \A i \in Cells(lo, hi) : s.mem[at + i] = <<"image", i>>

TreeIntact(s, at) ==
    \A i \in Cells(0, which.dtb) : s.mem[at + Image.edata + i] = <<"tree", i>>

\* An appended device tree is recognised by its first word.
TreeSize(s) == IF s.mem[s.at + Image.edata] = <<"tree", 0>> THEN which.dtb ELSE 0

\* r9: the inflated size, enlarged so that the tree stays clear of the bss.
Inflated(s) ==
    LET behind == Image.edata - Image.wont_overwrite
        more == which.bss - behind
    IN  which.size + (IF TreeSize(s) > 0 /\ more > 0 THEN more ELSE 0)

ImageEnd(s) == s.at + Image.stack + TreeSize(s) + Malloc

\* Where the image moves to when it lies in the kernel's way.
MoveTo(s) ==
    Round(which.dest + Inflated(s)
              + Round(Image.reloc_code_end - Image.restart + Block, Block), Block)

\* restart: does the kernel overwrite what is still needed?
restart(s) ==
    IF \/ which.dest >= ImageEnd(s) + PgDir
       \/ which.dest + Inflated(s) <= s.at + Image.wont_overwrite
    THEN [s EXCEPT !.pc = "wont_overwrite"]
    ELSE LET from == s.at + Image.restart
             end == s.at + Image.edata + TreeSize(s)
         IN  [s EXCEPT !.pc = "copy", !.from = from, !.src = end,
                       !.dst = MoveTo(s) + (end - from)]

\* One turn of the loop; the loop itself must survive it.
CopyBlock(s) ==
    LET moved == [a \in {s.dst - 1} |-> s.mem[s.src - 1]]
        t == [Store(s, moved) EXCEPT !.src = @ - 1, !.dst = @ - 1]
    IN  Uses([t EXCEPT !.pc = IF t.src > t.from THEN "copy" ELSE "moved"],
             "moving code", Intact(t, t.at, Image.restart, Image.reloc_code_end))

\* The jump to restart in the copy.
JumpToCopy(s) ==
    LET delta == s.dst - s.src
        t == cache_clean_flush(s)
        u == Uses(t, "stale copy", Fetchable(t))
    IN  Uses([u EXCEPT !.pc = "restart", !.at = @ + delta, !.told.moved = @ + 1],
             "copy", /\ Intact(u, s.at + delta, Image.restart, Image.edata)
                     /\ TreeIntact(u, s.at + delta))

Zeros(from, to) == [a \in Cells(from, to) |-> <<"zero", 0>>]

\* The GOT and the bss pointers are moved past the tree, the bss is cleared.
ClearBss(s) ==
    LET t == Store(s, Zeros(s.at + Image.edata + TreeSize(s), s.at + Image.stack + TreeSize(s)))
    IN  Uses([t EXCEPT !.pc = "decompress"], "image",
             /\ Intact(t, t.at, Image.wont_overwrite, Image.edata)
             /\ TreeIntact(t, t.at))

\* decompress_kernel reads the image and uses stack and heap all along.
Decompress(s) ==
    LET out == [a \in Cells(which.dest, which.dest + which.size) |-> <<"kernel", a - which.dest>>]
        heap == Cells(s.at + Image.stack + which.dtb, s.at + Image.stack + which.dtb + Malloc)
        t == Store(Store(s, [a \in heap |-> <<"heap", 0>>]), out)
    IN  Uses([t EXCEPT !.pc = "enter"], "decompressor",
             /\ Intact(t, t.at, Image.wont_overwrite, Image.edata)
             /\ \A a \in heap : t.mem[a] = <<"heap", 0>>
             /\ call_cache_fn.on = "mmu" =>
                    \A a \in TablePlace : t.mem[a][1] = "table")

\* __enter_kernel; the kernel then clears its own bss.
EnterKernel(s) ==
    LET t == cache_off(cache_clean_flush(s))
        u == Uses(t, "stale kernel", Fetchable(t))
        v == Store(u, Zeros(which.dest + which.size, which.dest + which.size + which.bss))
    IN  Uses([v EXCEPT !.phase = "kernel"], "kernel",
             /\ \A i \in Cells(0, which.size) : v.mem[which.dest + i] = <<"kernel", i>>
             /\ TreeIntact(v, v.at))

ZStep ==
    /\ Runs("zimage")
    /\ UNCHANGED fails
    /\ Becomes(CASE st.pc = "start" -> [cache_on(st) EXCEPT !.pc = "restart"]
                 [] st.pc = "restart" -> restart(st)
                 [] st.pc = "copy" -> CopyBlock(st)
                 [] st.pc = "moved" -> JumpToCopy(st)
                 [] st.pc = "wont_overwrite" -> ClearBss(st)
                 [] st.pc = "decompress" -> Decompress(st)
                 [] st.pc = "enter" -> EnterKernel(st))

\* An image is loaded clear of the place of the page table.
ZInit ==
    \E load \in Loads, cpu \in Processors :
        LET end == load.at + Image.stack + load.dtb + Malloc
        IN  /\ load.dest <= load.at \/ load.dest - PgDir >= end
            /\ which = load @@ [kind |-> "zimage", cpu |-> cpu]
            /\ fails = 0
            /\ st = [phase |-> "running", misused |-> {}, told |-> [moved |-> 0],
                     pc |-> "start", at |-> load.at, from |-> 0, src |-> 0, dst |-> 0,
                     cached |-> FALSE, dirty |-> FALSE, stale |-> FALSE, lost |-> FALSE,
                     mem |-> [a \in Cells(0, MemTop) |->
                                LET i == a - load.at
                                IN  IF i \in Cells(0, Image.edata) THEN <<"image", i>>
                                    ELSE IF i \in Cells(Image.edata, Image.edata + load.dtb)
                                         THEN <<"tree", i - Image.edata>>
                                         ELSE <<"junk", 0>>]]
-----------------------------------------------------------------------------
(* The entry code.  `params' is the address of the tags or the device tree *)
(* and 0 when there is none; a table is a set of [virt, phys] sections.    *)

Section(a) == a \div 4

Sections(a, len) == Section(a) .. Section(a + len - 1)

\* Later entries replace earlier ones for the same virtual section.
Map(table, new) ==
    {e \in table : \A n \in new : n.virt # e.virt} \cup new

Entry(virt, phys) == [virt |-> virt, phys |-> phys]

Linear(secs) == {Entry(PageOffset + p - which.ram, p) : p \in secs}

\* __lookup_processor_type: a processor that is not in the list ends here.
lookup_processor_type(s) ==
    [s EXCEPT !.pc = "vet", !.phase = IF which.known THEN @ ELSE "halted"]

\* __vet_atags looks at the contents, __vet_fdt at the place.
vet(s) ==
    LET near == /\ which.params >= 4 * which.ram
                /\ which.params < 4 * (which.ram + Reach)
        good == which.aligned /\ (IF which.arch = "arm" THEN which.magic ELSE near)
    IN  [s EXCEPT !.pc = "fixup", !.params = IF good THEN which.params ELSE 0]

\* __fixup_smp patches the alternatives of a single processor;
\* __fixup_pv_table stops when RAM lies where the patch cannot express it.
fixup(s) ==
    [s EXCEPT !.pc = "tables",
              !.up = which.arch = "arm" /\ which.cpus = {},
              !.phase = IF which.arch = "arm" /\ (which.ram - PageOffset) % PvAlign # 0
                        THEN "halted" ELSE @]

\* The sections of the code that turns the MMU on, at their own address;
\* arch/arm64 aligns that code and maps the one section.
IdentityMap ==
    {Entry(p, p) : p \in IF which.arch = "arm" THEN Sections(which.turn, which.turnLen)
                          ELSE {Section(which.turn)}}

\* arch/arm: one table; the parameters get two sections, unless they lie in
\* the first one of the address space.
ArmTables(s) ==
    LET first == Section(s.params)
        boot == IF first = 0 THEN {} ELSE Linear({first, first + 1})
    IN  Map(Map(IdentityMap, Linear(which.ram .. (which.ram + which.kernel - 1))), boot)

\* arch/arm64: the identity map is a table of its own, the tree gets one
\* section, and a tree out of reach is forgotten.
Arm64Tables(s) ==
    LET boot == IF s.params = 0 THEN {} ELSE Linear({Section(s.params)})
    IN  Map(Linear(which.ram .. (which.ram + which.kernel - 1)), boot)

create_page_tables(s) ==
    LET far == Section(s.params) - which.ram
    IN  IF which.arch = "arm"
        THEN [s EXCEPT !.pc = "enable", !.low = ArmTables(s), !.high = ArmTables(s)]
        ELSE [s EXCEPT !.pc = "enable", !.low = IdentityMap, !.high = Arm64Tables(s),
                       !.params = IF far \in 0 .. (Reach - 1) THEN @ ELSE 0]

\* The code after the switch is fetched at its old address, the jump goes to
\* the kernel's own addresses.
MmuOn(s) ==
    Uses(Uses(s, "identity map",
              \A p \in Sections(which.turn, which.turnLen) : Entry(p, p) \in s.low),
         "kernel map", Linear(which.ram .. (which.ram + which.kernel - 1)) \subseteq s.high)

turn_mmu_on(s) == [MmuOn(s) EXCEPT !.pc = "switched"]

\* The bss is cleared, what was found is stored, and start_kernel begins: its
\* setup_arch reads the parameters through the mapping made here.
mmap_switched(s) ==
    [Uses(s, "parameters",
          s.params = 0 \/ Linear(Sections(s.params, which.len)) \subseteq s.high)
        EXCEPT !.pc = "start_kernel", !.stored = s.params]

\* start_kernel lets the other CPUs out, one at a time (external), and runs on.
Release(s) ==
    IF s.penned = {} THEN {[s EXCEPT !.phase = "kernel"]}
    ELSE {[s EXCEPT !.release = c] : c \in s.penned}

Boot ==
    /\ Runs("head")
    /\ UNCHANGED fails
    /\ \/ st.pc = "stext" /\ Becomes(lookup_processor_type(st))
       \/ st.pc = "vet" /\ Becomes(vet(st))
       \/ st.pc = "fixup" /\ Becomes(fixup(st))
       \/ st.pc = "tables" /\ Becomes(create_page_tables(st))
       \/ st.pc = "enable" /\ Becomes(turn_mmu_on(st))
       \/ st.pc = "switched" /\ Becomes(mmap_switched(st))
       \/ /\ st.pc = "start_kernel"
          /\ st.release \notin st.penned
          /\ \E next \in Release(st) : Becomes(next)

\* secondary_holding_pen: a CPU polls until its own number is called.
Called(c) == st.release = c

\* secondary_startup and __enable_mmu on another CPU, with the tables there are.
SecondaryStartup ==
    /\ Runs("head")
    /\ UNCHANGED fails
    /\ \E c \in st.penned :
        /\ Called(c)
        /\ Becomes([MmuOn(st) EXCEPT !.penned = @ \ {c}, !.told[c] = @ + 1])

HeadInit ==
    \E boot \in Boots :
        /\ which = boot @@ [kind |-> "head"]
        /\ fails = 0
        /\ st = [phase |-> "running", misused |-> {}, pc |-> "stext",
                 told |-> [c \in boot.cpus |-> 0], params |-> 0, stored |-> 0,
                 low |-> {}, high |-> {}, up |-> FALSE, penned |-> boot.cpus, release |-> 0]

-----------------------------------------------------------------------------
EntryInit == ZInit \/ HeadInit

EntryNext == ZStep \/ Boot \/ SecondaryStartup

EntryReady == Runs("zimage") \/ Runs("head")

\* Every CPU keeps executing.
EntryFairness == []<>(~EntryReady) \/ []<><<EntryNext>>_startVars
=============================================================================
