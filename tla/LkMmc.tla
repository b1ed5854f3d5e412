------------------------------- MODULE LkMmc -------------------------------
(***************************************************************************)
(* The eMMC and SD driver of the bootloader, the partition tables on the   *)
(* card and the fastboot commands that write it:                           *)
(* src/bootable/lk/platform/msm_shared/mmc.c and partition_parser.c, and   *)
(* cmd_flash_mmc() and its helpers in app/aboot/aboot.c.                   *)
(*                                                                         *)
(* A function of the driver is the sequence of the steps it takes: the     *)
(* commands it sends, the data it moves, the bits it waits for and what it *)
(* stores.  A step that depends on what earlier ones found is expanded     *)
(* when it is reached.  A step that fails ends the call, unless its field  *)
(* err says how many steps to leave out instead.  The card is external: it *)
(* takes a command in some of its states and goes to another.              *)
(***************************************************************************)
EXTENDS LkStorage, Integers, Sequences, FiniteSets, SequencesExt

CONSTANTS
    Cards,         \* the cards a board may carry: kind ("MMCHC", "STD_MMC", "SDHC" or
                   \* "STD_SD"), erase group in sectors, and the number of sectors at
                   \* which 32 bits of bytes overflow (4 GB): 2^32 div 512, scaled
    Sectors,       \* sectors of the card
    Tables,        \* partition tables: [kind, ent]
    OnCard,        \* the table a new card may carry, or "none"
    Payloads,      \* what the host may download: see cmd_flash_mmc
    NumPartitions, \* NUM_PARTITIONS
    CmdRetry,      \* host->cmd_retry, and the other bounded polls
    MaxXfer        \* sectors of one write command: write_size in mmc_write()

\* Scaled sizes: entries in a sector of the GPT array, sectors of that array
\* and of the zeros that stand for an erase.
PerSector   == 2
ArraySecs   == 4
EraseOut    == 2

\* Bytes of a sector, in the units of a standard capacity card's addresses.
SecBytes == 2

Sector == 0 .. Sectors - 1
IsSD(t)  == t \in {"SDHC", "STD_SD"}
IsMMC(t) == t \in {"MMCHC", "STD_MMC"}
IsHC(t)  == t \in {"MMCHC", "SDHC"}

\* The contents of a sector.
Holds(k, v, i) == [k |-> k, v |-> v, i |-> i, x |-> 0]
HoldsAt(k, v, i, x) == [Holds(k, v, i) EXCEPT !.x = x]
Blank0 == Holds("none", "", 0)
Zeros  == Holds("zero", "", 0)
Half   == Holds("torn", "", 0)

\* A step: what to do, with an address, a number and data; err = 0: a failure
\* ends the call; err = n: it leaves n steps out, this one included.
Step(do, a, n, v) == [do |-> do, a |-> a, n |-> n, v |-> v, err |-> 0]
I(do) == Step(do, 0, 0, <<>>)

\* A failure anywhere in the program goes on after it.
OrElse(prog) == [i \in DOMAIN prog |-> [prog[i] EXCEPT !.err = Len(prog) - i + 1]]

NoSlot == [name |-> "", first |-> 0, size |-> 0]

MmcOff == [pc |-> "mmc_off", fn |-> "none", todo |-> <<>>, buf |-> <<>>, arg |-> "none",
           load |-> "none", r |-> 0]

NoDrv == [type |-> "STD_SD", active |-> FALSE, rate |-> "none", width |-> 1, capacity |-> 0,
          slots |-> [i \in 1 .. NumPartitions |-> NoSlot], count |-> 0, gpt |-> FALSE,
          vfat |-> 0, ext3 |-> 0, hdr |-> Blank0]

(***************************************************************************)
(* The card (external).  For each command the states in which the card     *)
(* takes it, the state it goes to, and the cards that know it.             *)
(***************************************************************************)
Selected == {"tran", "data", "rcv", "prg"}
All      == {"MMCHC", "STD_MMC", "SDHC", "STD_SD"}
Mmc      == {"MMCHC", "STD_MMC"}
Sd       == {"SDHC", "STD_SD"}
Rule(from, to, kinds) == [from |-> from, to |-> to, kinds |-> kinds]
Stay == "same"

CardRules ==
    [CMD0 |-> Rule(Selected \cup {"idle", "ready", "ident", "stby"}, "idle", All),
     CMD1 |-> Rule({"idle"}, "ready", Mmc),
     CMD8 |-> Rule({"idle"}, Stay, {"SDHC"}),   \* a version 1 card does not know it
     CMD55 |-> Rule({"idle", "tran"}, Stay, Sd),
     ACMD41 |-> Rule({"idle"}, "ready", Sd),
     CMD2 |-> Rule({"ready"}, "ident", All),
     CMD3 |-> Rule({"ident"}, "stby", All),
     CMD9 |-> Rule({"stby"}, Stay, All),
     CMD7 |-> Rule({"stby"}, "tran", All),
     CMD8EXT |-> Rule({"tran"}, "data", Mmc),
     CMD6HS |-> Rule({"tran"}, "prg", Mmc),
     CMD6WIDTH |-> Rule({"tran"}, "prg", Mmc),
     CMD6SD |-> Rule({"tran"}, "data", Sd),
     ACMD6 |-> Rule({"tran"}, Stay, Sd),
     CMD13 |-> Rule(Selected \cup {"stby"}, Stay, All),
     CMD16 |-> Rule({"tran"}, Stay, All),
     CMD23 |-> Rule({"tran"}, Stay, Mmc),
     CMD17 |-> Rule({"tran"}, "data", All),
     CMD18 |-> Rule({"tran"}, "data", All),
     CMD24 |-> Rule({"tran"}, "rcv", All),
     CMD25 |-> Rule({"tran"}, "rcv", All),
     CMD12 |-> Rule({"data", "rcv"}, "stop", All),
     CMD35 |-> Rule({"tran"}, Stay, Mmc),
     CMD36 |-> Rule({"tran"}, Stay, Mmc),
     CMD38 |-> Rule({"tran"}, "prg", Mmc)]

\* The sectors of the groups from CMD35's address to CMD36's.
Erased(m) ==
    LET unit(x) == IF board.card = "STD_MMC" THEN x \div SecBytes ELSE x
        g == board.group
    IN  {s \in Sector : /\ s >= (unit(m.from) \div g) * g
                        /\ s < (unit(m.to) \div g + 1) * g}

\* What a command the card takes does to it.
Does(m, s) ==
    LET to == CardRules[s.do].to
        st == CASE to = Stay -> m.st
                [] to = "stop" -> IF m.st = "rcv" THEN "prg" ELSE "tran"
                [] OTHER -> to
        n == [m EXCEPT !.st = st, !.at = IF s.do \in {"CMD17", "CMD18", "CMD24", "CMD25"}
                                         THEN s.a ELSE @]
    IN  CASE s.do = "CMD0" -> [n EXCEPT !.hs = FALSE, !.width = 1, !.count = 0]
          [] s.do \in {"CMD6HS", "CMD6SD"} -> [n EXCEPT !.hs = TRUE]
          [] s.do \in {"CMD6WIDTH", "ACMD6"} -> [n EXCEPT !.width = s.n]
          [] s.do = "CMD23" -> [n EXCEPT !.count = s.n]
          [] s.do = "CMD35" -> [n EXCEPT !.from = s.a]
          [] s.do = "CMD36" -> [n EXCEPT !.to = s.a]
          [] s.do = "CMD38" -> [n EXCEPT !.sec = [x \in Sector |->
                                    IF x \in Erased(m) THEN Blank0 ELSE m.sec[x]]]
          [] OTHER -> n

(***************************************************************************)
(* The driver, mmc.c: programs.                                            *)
(***************************************************************************)
Jump(n) == Step("jump", 0, n, <<>>)

mmc_boot_reset_cards == <<I("CMD0")>>
mmc_boot_send_op_cond == I("CMD1")
mmc_boot_send_app_cmd == I("CMD55")

\* CMD8 at most three times; the operating condition is asked for with the high
\* capacity bit, or, when no CMD8 was answered, with whatever was on the stack.
mmc_boot_sd_init_card ==
    LET try(k) == <<[I("CMD8") EXCEPT !.err = 2], Jump(2 * (3 - k) + 2)>>
    IN  try(1) \o try(2) \o try(3) \o <<I("noarg"), mmc_boot_send_app_cmd, Step("ACMD41", 1, 0, <<>>)>>

\* CMD1 until the card is no longer busy; a card that does not answer it is
\* tried as an SD card.
mmc_boot_init_card ==
    mmc_boot_reset_cards
    \o <<[mmc_boot_send_op_cond EXCEPT !.err = 2], Jump(Len(mmc_boot_sd_init_card) + 1)>>
    \o mmc_boot_sd_init_card

mmc_boot_all_send_cid == I("CMD2")
mmc_boot_send_relative_address == I("CMD3")
mmc_boot_send_csd == I("CMD9")
mmc_boot_select_card == I("CMD7")
mmc_boot_set_block_len(t) == IF IsHC(t) THEN <<>> ELSE <<I("CMD16")>>
mmc_boot_send_stop_transmission == I("CMD12")
mmc_boot_get_card_status == I("CMD13")
mmc_boot_set_block_count(n) == Step("CMD23", 0, n, <<>>)

\* A register of the card comes through the FIFO like a sector.
mmc_boot_send_ext_cmd(t) == mmc_boot_set_block_len(t) \o <<I("CMD8EXT"), I("in")>>
mmc_boot_read_reg(cmd) == <<I(cmd), I("in")>>

mmc_boot_identify_card(t) ==
    <<mmc_boot_all_send_cid, mmc_boot_send_relative_address, mmc_boot_send_csd,
      mmc_boot_select_card, I("active")>>
    \o (IF IsMMC(t) THEN mmc_boot_send_ext_cmd(t) ELSE <<>>)
    \o <<I("csd"), I("timeouts")>>

\* The card switches first, and the host follows once the card is done with it.
mmc_boot_switch_cmd(cmd, n) == Step(cmd, 0, n, <<>>)
mmc_boot_adjust_interface_speed ==
    <<mmc_boot_switch_cmd("CMD6HS", 1), I("poll"), I("rate50")>>
mmc_boot_set_bus_width(w) ==
    <<mmc_boot_switch_cmd("CMD6WIDTH", w), I("poll"), Step("width", 0, w, <<>>)>>
mmc_boot_set_sd_hs == mmc_boot_read_reg("CMD6SD") \o <<I("rate50")>>
mmc_boot_set_sd_bus_width(w) ==
    <<mmc_boot_send_app_cmd, Step("ACMD6", 0, w, <<>>), Step("width", 0, w, <<>>)>>

\* The rest of mmc_boot_init_and_identify_cards() once the card is selected.
SetBus(t) ==
    (IF IsSD(t)
     THEN LET one == mmc_boot_set_sd_bus_width(1)
          IN  mmc_boot_set_sd_hs
              \o OrElse(mmc_boot_set_sd_bus_width(4) \o <<Jump(Len(one) + 1)>>) \o one
     ELSE mmc_boot_adjust_interface_speed \o mmc_boot_set_bus_width(4))
    \o <<mmc_boot_get_card_status, I("tran?")>>

mmc_boot_init_and_identify_cards ==
    <<I("inactive")>> \o mmc_boot_init_card \o <<I("identify"), I("bus")>>

\* Addresses are in sectors for a high capacity card and in bytes otherwise.
CardAddr(t, a) == IF IsHC(t) THEN a ELSE a * SecBytes

mmc_boot_send_read_command(t, a, n) ==
    Step(IF n > 1 THEN "CMD18" ELSE "CMD17", CardAddr(t, a), n, <<>>)
mmc_boot_send_write_command(t, a, n) ==
    Step(IF n > 1 THEN "CMD25" ELSE "CMD24", CardAddr(t, a), n, <<>>)

\* Reads of several sectors: an MMC is told their number, an SD card is stopped.
mmc_boot_read_from_card(t, a, n) ==
    mmc_boot_set_block_len(t)
    \o (IF n > 1 /\ IsMMC(t) THEN <<mmc_boot_set_block_count(n)>> ELSE <<>>)
    \o <<mmc_boot_send_read_command(t, a, n), Step("in", a, n, <<>>)>>
    \o (IF n > 1 /\ ~IsMMC(t) THEN <<mmc_boot_send_stop_transmission>> ELSE <<>>)

\* Mutant: the call returns without waiting for the card to finish programming.
NoProgDone(t, a, data) ==
    LET n == Len(data) IN
    mmc_boot_set_block_len(t)
    \o <<mmc_boot_send_write_command(t, a, n), Step("out", a, n, data)>>
    \o <<IF n > 1 THEN mmc_boot_send_stop_transmission ELSE mmc_boot_get_card_status>>

\* Several sectors are stopped with CMD12, after a failed transfer too; one is
\* followed by CMD13.  Then PROG_DONE is polled for.
mmc_boot_write_to_card(t, a, data) ==
    LET n == Len(data) IN
    mmc_boot_set_block_len(t)
    \o <<mmc_boot_send_write_command(t, a, n)>>
    \o IF n > 1
       THEN <<[Step("out", a, n, data) EXCEPT !.err = 4], mmc_boot_send_stop_transmission,
              I("prog_done"), Jump(3), [mmc_boot_send_stop_transmission EXCEPT !.err = 1], I("fail")>>
       ELSE <<Step("out", a, n, data), mmc_boot_get_card_status, I("prog_done")>>

\* Writes of at most write_size bytes each.
mmc_write(t, a, data) ==
    LET parts == (Len(data) + MaxXfer - 1) \div MaxXfer
        first(k) == (k - 1) * MaxXfer
        last(k) == IF k = parts THEN Len(data) ELSE k * MaxXfer
    IN  FlattenSeq([k \in 1 .. parts |->
            mmc_boot_write_to_card(t, a + first(k), SubSeq(data, first(k) + 1, last(k)))])

mmc_read(t, a, n) == mmc_boot_read_from_card(t, a, n)

mmc_boot_send_erase_group_start(a) == Step("CMD35", a, 0, <<>>)
mmc_boot_send_erase_group_end(a) == Step("CMD36", a, 0, <<>>)
mmc_boot_send_erase == <<I("wait"), I("CMD38"), I("wait")>>

\* Whole erase groups only; less than one is erased by zeros in its first blocks.
\* The end address counts sectors whatever the card's addresses count.
mmc_erase_card(t, a, size) ==
    LET loops == size \div board.group
        from == CardAddr(t, a)
    IN  IF loops < 1 THEN mmc_write(t, a, [i \in 1 .. EraseOut |-> Zeros])
        ELSE <<mmc_boot_send_erase_group_start(from),
               mmc_boot_send_erase_group_end(from + board.group * (loops - 1))>>
             \o mmc_boot_send_erase

mmc_boot_init == <<I("rate400")>>
mmc_boot_main == mmc_boot_init \o mmc_boot_init_and_identify_cards \o <<I("table")>>

(***************************************************************************)
(* The partition tables, partition_parser.c.  A GPT is a header that says  *)
(* where its entries are (x) and sectors of entries, the last partition of *)
(* which ends at x; both twice.  An MBR has four entries, and the chain of *)
(* EBRs its fourth one points to.                                          *)
(***************************************************************************)
HasMbrSignature(s) == s.k \in {"mbr", "pmbr", "ebr"}

\* The unreachable memset in mbr_fill_name() leaves the name an earlier table put
\* there, and memcpy() writes no terminator.
Overlay(name, old) == IF Len(old) > Len(name) THEN "garbled" ELSE name

vfat_partitions == <<"modem", "mdm">>
ext3_partitions == <<"system", "userdata", "persist", "cache", "tombstones">>

\* An entry of type t goes into the next slot of the table in RAM.  The counts of
\* names given out are static and start at zero only with the program.
mbr_fill_name(d, t) ==
    LET old == d.slots[d.count + 1].name
    IN  CASE t = "vfat" /\ d.vfat < Len(vfat_partitions) -> vfat_partitions[d.vfat + 1]
          [] t = "ext3" /\ d.ext3 < Len(ext3_partitions) -> ext3_partitions[d.ext3 + 1]
          [] t \in {"boot", "recovery"} -> Overlay(t, old)
          [] OTHER -> old

AddMbrEntry(d, e) ==
    IF d.count = NumPartitions THEN d
    ELSE [d EXCEPT !.slots[d.count + 1] = [name |-> mbr_fill_name(d, e.type),
                                           first |-> e.first, size |-> e.size],
                   !.count = @ + 1,
                   !.vfat = IF e.type = "vfat" /\ @ < Len(vfat_partitions) THEN @ + 1 ELSE @,
                   !.ext3 = IF e.type = "ext3" /\ @ < Len(ext3_partitions) THEN @ + 1 ELSE @]

\* The byte address of an EBR is a product of unsigned ints: the sector that is
\* read or written for sector a.
EbrSector(a) == a % board.wrap

\* The EBR of sector a is read; its sector number itself does not wrap.
ReadEbr(t, a) ==
    mmc_boot_read_from_card(t, EbrSector(a), 1) \o <<Step("parse_ebr", a, 0, <<>>)>>

\* The sector of EBR n of a table, n > 1, is counted from the first EBR.
EbrAt(tab, n) == tab.ent[4].first + (IF n = 1 THEN 0 ELSE tab.ebr[n - 1].next)

\* The four entries of the sector that is taken for the MBR.  An EBR that was
\* written there has its partition and its link, and no more.
MbrEntries(s) ==
    IF s.k = "mbr" THEN Tables[s.v].ent
    ELSE LET e == Tables[s.v].ebr[s.i]
             none == [type |-> "none", first |-> 0, size |-> 0]
         IN  <<[type |-> e.type, first |-> e.rel, size |-> e.size],
               [none EXCEPT !.type = IF e.next = 0 THEN "none" ELSE "ebr", !.first = e.next],
               none, none>>

write_mbr(t, id) ==
    LET tab == Tables[id]
    IN  mmc_write(t, 0, <<Holds("mbr", id, 0)>>)
        \o FlattenSeq([n \in 1 .. Len(tab.ebr) |->
               mmc_write(t, EbrSector(EbrAt(tab, n)), <<Holds("ebr", id, n)>>)])
        \o mmc_boot_read_from_card(t, 0, 1) \o <<I("parse_mbr")>>

\* A header that cannot be read leaves its buffer as the stack had it.
mmc_boot_read_gpt(t) ==
    OrElse(mmc_boot_read_from_card(t, 1, 1) \o <<Jump(2)>>) \o <<I("stale"), I("parse_gpt")>>

partition_read_table(t) ==
    mmc_boot_read_from_card(t, 0, 1) \o <<I("parse_mbr"), I("gpt?")>>

\* The sectors an image of a table holds for the card; capacity 0 is taken for the
\* largest card below the wrap.
GptCardSize(capacity) == IF capacity = 0 THEN board.wrap - 1 ELSE capacity
LastUsable(size) == size - (ArraySecs + 2)
Array(id, last) == [j \in 1 .. ArraySecs |-> HoldsAt("arr", id, j - 1, last)]

\* Mutant: the backup header keeps the place of its entries that the image names.
PatchHeadersOnly(capacity) ==
    LET size == GptCardSize(capacity)
    IN  [backup |-> size - 1, last |-> LastUsable(size), entries2 |-> 2 + ArraySecs]

\* Where the image is adjusted to the size of the card.
patch_gpt(capacity) ==
    LET size == GptCardSize(capacity)
    IN  [backup |-> size - 1, last |-> LastUsable(size), entries2 |-> size - (ArraySecs + 1)]

write_gpt(t, id) ==
    LET p == patch_gpt(drv.capacity)
    IN  mmc_erase_card(t, 0, drv.capacity)
        \o mmc_write(t, 0, <<Holds("pmbr", id, 0)>>)
        \o mmc_write(t, 1, <<HoldsAt("hdr", id, 0, 2)>>)
        \o mmc_write(t, p.backup, <<HoldsAt("hdr", id, 1, p.entries2)>>)
        \o mmc_write(t, 2, Array(id, p.last))
        \o mmc_write(t, p.entries2, Array(id, p.last))
        \o <<I("gpt_start")>> \o mmc_boot_read_gpt(t)

write_partition(t, p) ==
    IF p.kind # "table" THEN <<I("fail")>>
    ELSE IF Tables[p.id].kind = "mbr" THEN write_mbr(t, p.id) ELSE write_gpt(t, p.id)

\* The entries of a sector of the array, in the order of the table.
GptEntries(s) ==
    LET ent == Tables[s.v].ent
        last == IF Len(ent) < (s.i + 1) * PerSector THEN Len(ent) ELSE (s.i + 1) * PerSector
        entry(j) == LET end == IF j = Len(ent) THEN s.x ELSE ent[j].last
                    IN  [name |-> ent[j].name, first |-> ent[j].first,
                         size |-> end - ent[j].first + 1]
    IN  IF s.k # "arr" THEN <<>>
        ELSE [j \in 1 .. last - s.i * PerSector |-> entry(s.i * PerSector + j)]

\* partition_get_index(): 0 stands for INVALID_PTN.  A full table finds nothing.
partition_get_index(name) ==
    LET here == {n \in 1 .. drv.count : drv.slots[n].name = name}
    IN  IF drv.count >= NumPartitions \/ here = {} THEN 0
        ELSE CHOOSE n \in here : \A m \in here : n <= m
partition_get_offset(n) == IF n = 0 THEN 0 ELSE drv.slots[n].first
partition_get_size(n) == IF n = 0 THEN 0 ELSE drv.slots[n].size

(***************************************************************************)
(* The fastboot commands, aboot.c.  A download is a record: its kind, its  *)
(* length in sectors, whether it starts with the boot image magic, and for *)
(* a sparse image the sizes of its headers, its chunks and their total.    *)
(***************************************************************************)
\* The sectors, or for a sparse image the pieces, of a download.
RawData(id) == [i \in 1 .. Payloads[id].len |-> Holds("img", id, i - 1)]
OutBefore(chunks, k) ==
    FoldLeft(LAMBDA sum, c : sum + c.n, 0, SubSeq(chunks, 1, k - 1))
Flat(id) ==
    LET p == Payloads[id]
        piece(k) == <<Holds("chunk", id, k)>>
                    \o [j \in 1 .. p.chdr - 1 |-> Holds("pad", id, 0)]
                    \o (IF p.chunks[k].type # "raw" THEN <<>>
                        ELSE [j \in 1 .. p.chunks[k].n |->
                                 Holds("img", id, OutBefore(p.chunks, k) + j - 1)])
    IN  [j \in 1 .. p.fhdr |-> Holds("pad", id, 0)]
        \o FlattenSeq([k \in 1 .. Len(p.chunks) |-> piece(k)])

Refuse == <<I("fail")>>

\* n sectors of a download from piece a on, and what is in memory after it.
Pieces(flat, a, n) ==
    [j \in 1 .. n |-> IF a + j - 1 \in DOMAIN flat THEN flat[a + j - 1] ELSE Half]

\* What is found where a chunk header is looked for.  Nothing checks that there
\* is one: data that is taken for a header reads as any type and size.
ChunkAt(a, id) ==
    LET flat == Flat(id)
    IN  IF a \in DOMAIN flat /\ flat[a].k = "chunk" THEN {Payloads[id].chunks[flat[a].i]}
        ELSE [type : {"raw", "dont_care", "crc", "other"}, n : 0 .. 1, sized : {TRUE}]

\* A chunk: where its header is in the download, its number, blocks so far.
Chunk(ptr, k, total) == Step("chunk", ptr, k, <<Holds("total", "", total)>>)

cmd_flash_mmc_sparse_img(arg, id) ==
    LET n == partition_get_index(arg)
        p == Payloads[id]
    IN  IF partition_get_offset(n) = 0 \/ p.len > partition_get_size(n) THEN Refuse
        ELSE <<Chunk(p.fhdr + (IF p.fhdr > 1 THEN p.fhdr - 1 ELSE 0) + 1, 1, 0)>>

cmd_flash_mmc_img(arg, id) ==
    LET n == partition_get_index(arg)
        p == Payloads[id]
    IN  IF arg = "partition" THEN write_partition(drv.type, p)
        ELSE IF \/ partition_get_offset(n) = 0
                \/ arg \in {"boot", "recovery"} /\ ~p.boot
                \/ p.len > partition_get_size(n)
             THEN Refuse
             ELSE mmc_write(drv.type, partition_get_offset(n), RawData(id))

cmd_flash_mmc(arg, id) ==
    IF Payloads[id].kind = "sparse" THEN cmd_flash_mmc_sparse_img(arg, id)
    ELSE cmd_flash_mmc_img(arg, id)

cmd_erase_mmc(arg) ==
    LET at == partition_get_offset(partition_get_index(arg))
    IN  IF at = 0 THEN Refuse
        ELSE mmc_write(drv.type, at, [i \in 1 .. EraseOut |-> Zeros])

\* The loaders read the header and what follows it.
load_image(arg) ==
    LET at == partition_get_offset(partition_get_index(arg))
    IN  IF at = 0 THEN Refuse ELSE mmc_read(drv.type, at, 2)


\* One turn of the loop over the chunks, with chunk header c, or its end.  The
\* size of a chunk's data, chunk_data_sz, is 32 bits of bytes; blocks are counted
\* apart from it.  A CRC chunk must come without data and is skipped as if it had
\* as much as its blocks.
sparse_chunk(s, id, c) ==
    LET p == Payloads[id]
        flat == Flat(id)
        data == s.a + 1 + (p.chdr - 1)
        total == s.v[1].i
        at == partition_get_offset(partition_get_index(call.arg)) + total
        chunk_data_sz == c.n % board.wrap
        next(skip) == <<Chunk(data + skip, s.n + 1, total + c.n)>>
    IN  IF s.n > Len(p.chunks)
        THEN IF total # p.total THEN Refuse ELSE <<>>
        ELSE CASE c.type = "raw" /\ c.sized ->
                    mmc_write(drv.type, at, Pieces(flat, data, chunk_data_sz))
                    \o next(chunk_data_sz)
               [] c.type = "dont_care" -> next(0)
               [] c.type = "crc" /\ c.sized -> next(chunk_data_sz)
               [] OTHER -> Refuse

(***************************************************************************)
(* The steps.                                                              *)
(***************************************************************************)
S    == Head(call.todo)
Rest == Tail(call.todo)
Running(do) == call.pc = "mmc_run" /\ call.todo # <<>> /\ S.do = do
Goto(todo)  == call' = [call EXCEPT !.todo = todo]

\* A step failed: the call ends, or goes on where the step says.
Error ==
    IF S.err = 0 THEN call' = [call EXCEPT !.todo = <<>>, !.r = 1]
    ELSE Goto(SubSeq(call.todo, S.err + 1, Len(call.todo)))

Note(f, wrong) ==
    hist' = [hist EXCEPT !.faulty = @ \/ f, !.ignored = @ \/ (wrong /\ ~hist.faulty /\ ~f)]

\* The sector an address names to the card.
OnCardAt(a) == IF IsHC(board.card) THEN a ELSE a \div SecBytes
OutOfRange(s) ==
    \/ s.do \in {"CMD17", "CMD18", "CMD24", "CMD25"} /\ OnCardAt(s.a) + s.n > Sectors
    \/ s.do \in {"CMD35", "CMD36"} /\ OnCardAt(s.a) >= Sectors

Polled == {"CMD1", "ACMD41", "CMD13"}

\* mmc_boot_send_command(): a command the card does not take times out.  A fault
\* loses the command or only its answer.
mmc_boot_send_command ==
    /\ call.pc = "mmc_run" /\ call.todo # <<>>
    /\ S.do \in DOMAIN CardRules \ Polled
    /\ \E f \in Fails : \E got \in (IF f THEN {FALSE, TRUE} ELSE {TRUE}) :
        LET rule == CardRules[S.do]
            known == board.card \in rule.kinds
            takes == known /\ medium.st \in rule.from /\ ~OutOfRange(S)
        IN  /\ Spend(f)
            /\ medium' = IF takes /\ got THEN Does(medium, S) ELSE medium
            /\ IF takes /\ ~f THEN Goto(Rest) ELSE Error
            /\ Note(f, known /\ medium.st \notin rule.from)
            /\ UNCHANGED <<board, drv>>

\* CMD1 and ACMD41 are sent until the card is no longer busy, at most CmdRetry
\* times.  A card that is busy for longer is faulty.  An MMC still busy is an error;
\* an SD card still busy is taken for a ready one.
OpCond ==
    /\ call.pc = "mmc_run" /\ call.todo # <<>>
    /\ S.do \in {"CMD1", "ACMD41"}
    /\ \E f \in Fails : \E busy \in {FALSE, TRUE} :
        LET rule == CardRules[S.do]
            takes == board.card \in rule.kinds /\ medium.st \in rule.from
            refuses == S.do = "ACMD41" /\ board.card = "SDHC" /\ S.a = 0
            again == [S EXCEPT !.n = @ + 1]
            last == S.n + 1 = CmdRetry
        IN  /\ Spend(f)
            /\ busy => takes
            /\ refuses => busy
            /\ busy /\ last /\ ~refuses => f
            /\ f => ~busy \/ last
            /\ Note(f, FALSE)
            /\ medium' = IF takes /\ ~busy /\ ~f THEN Does(medium, S) ELSE medium
            /\ drv' = IF takes /\ ~busy /\ ~f THEN [drv EXCEPT !.type = board.card] ELSE drv
            /\ IF takes /\ busy
               THEN IF ~last
                    THEN Goto((IF S.do = "CMD1" THEN <<again>>
                               ELSE <<mmc_boot_send_app_cmd, again>>) \o Rest)
                    ELSE IF S.do = "CMD1" THEN call' = [call EXCEPT !.todo = <<>>, !.r = 1]
                         ELSE Goto(Rest)
               ELSE IF takes /\ ~f THEN Goto(Rest) ELSE Error
            /\ UNCHANGED board

\* CMD13: as the end of a single write, as a bounded poll after a switch, as an
\* unbounded one around an erase, and as the last check of the initialisation.
CardStatus ==
    /\ call.pc = "mmc_run" /\ call.todo # <<>>
    /\ S.do \in {"CMD13", "poll", "wait", "tran?"}
    /\ \E f \in Fails :
        /\ S.do = "wait" => f \/ medium.st # "prg"
        /\ Spend(f)
        /\ Note(f, FALSE)
        /\ IF f \/ medium.st \notin CardRules.CMD13.from THEN Error
           ELSE CASE S.do = "poll" ->
                       IF S.n + 1 = CmdRetry THEN Error
                       ELSE IF medium.st = "prg" THEN Goto(<<[S EXCEPT !.n = @ + 1]>> \o Rest)
                       ELSE Goto(Rest)
                  [] S.do = "tran?" -> IF medium.st = "tran" THEN Goto(Rest) ELSE Error
                  [] OTHER -> Goto(Rest)
    /\ UNCHANGED <<board, medium, drv>>

\* The PROG_DONE bit of the controller, polled without a bound.
ProgDone ==
    /\ Running("prog_done")
    /\ medium.st # "prg"
    /\ Goto(Rest)
    /\ UNCHANGED <<board, medium, drv, left, hist>>

\* Host and card agree on the bus.
BusAgrees == drv.width = medium.width /\ (drv.rate = "50M" => medium.hs)

\* mmc_boot_fifo_read(): the data of a register (n = 0) or of n sectors.
mmc_boot_fifo_read ==
    /\ Running("in")
    /\ \E f \in Fails :
        LET ok == ~f /\ BusAgrees
            stays == S.n > 1 /\ IsSD(board.card)
        IN  /\ Spend(f)
            /\ Note(f, ~BusAgrees)
            /\ medium' = IF stays THEN medium ELSE [medium EXCEPT !.st = "tran", !.count = 0]
            /\ IF ~ok THEN Error
               ELSE call' = [call EXCEPT !.todo = Rest,
                                !.buf = IF S.n = 0 THEN @
                                        ELSE [i \in 1 .. S.n |-> medium.sec[S.a + i - 1]]]
    /\ UNCHANGED <<board, drv>>

\* mmc_boot_fifo_write(): a fault stops after some sectors, perhaps inside one.
mmc_boot_fifo_write ==
    /\ Running("out")
    /\ \E f \in Fails :
       \E k \in (IF f \/ ~BusAgrees THEN 0 .. S.n - 1 ELSE {S.n}) :
       \E torn \in (IF f \/ ~BusAgrees THEN {FALSE, TRUE} ELSE {FALSE}) :
        LET ok == ~f /\ BusAgrees
            at == OnCardAt(medium.at)
        IN  /\ Spend(f)
            /\ Note(f, ~BusAgrees)
            /\ medium' = [medium EXCEPT
                   !.st = IF S.n > 1 THEN @ ELSE IF ok THEN "prg" ELSE "tran",
                   !.sec = [x \in Sector |->
                               IF x >= at /\ x < at + k THEN S.v[x - at + 1]
                               ELSE IF torn /\ x = at + k THEN Half ELSE @[x]]]
            /\ IF ok THEN Goto(Rest) ELSE Error
    /\ UNCHANGED <<board, drv>>

\* The card finishes programming, switching or erasing.
CardDone ==
    /\ board.kind = "mmc" /\ medium.st = "prg"
    /\ medium' = [medium EXCEPT !.st = "tran"]
    /\ UNCHANGED <<board, drv, call, left, hist>>

\* mmc_boot_decode_and_save_csd(): 32 bits for an SDHC card, 64 for an MMC.
mmc_boot_decode_and_save_csd ==
    IF drv.type = "SDHC" THEN Sectors % board.wrap ELSE Sectors

\* What the driver stores without touching the card.
Stores ==
    [inactive |-> [drv EXCEPT !.active = FALSE],
     active |-> [drv EXCEPT !.active = TRUE],
     rate400 |-> [drv EXCEPT !.rate = "400K"],
     rate50 |-> [drv EXCEPT !.rate = "50M"],
     width |-> [drv EXCEPT !.width = S.n],
     csd |-> [drv EXCEPT !.capacity = mmc_boot_decode_and_save_csd],
     gpt_start |-> [drv EXCEPT !.count = 0]]

HostStep ==
    /\ call.pc = "mmc_run" /\ call.todo # <<>>
    /\ S.do \in DOMAIN Stores
    /\ drv' = Stores[S.do]
    /\ Goto(Rest)
    /\ UNCHANGED <<board, medium, left, hist>>

\* Steps that depend on what is known by now.
Expansion(s) ==
    CASE s.do = "jump" -> SubSeq(call.todo, s.n + 1, Len(call.todo))
      [] s.do = "identify" -> mmc_boot_identify_card(drv.type) \o Rest
      [] s.do = "bus" -> SetBus(drv.type) \o Rest
      [] s.do = "table" -> partition_read_table(drv.type) \o Rest
      [] s.do = "gpt?" -> (IF drv.gpt THEN <<I("gpt_start")>> \o mmc_boot_read_gpt(drv.type)
                           ELSE <<>>) \o Rest
      [] OTHER -> <<>>

Expand ==
    /\ call.pc = "mmc_run" /\ call.todo # <<>>
    /\ S.do \in {"jump", "identify", "bus", "table", "gpt?"}
    /\ Goto(Expansion(S))
    /\ UNCHANGED <<board, medium, drv, left, hist>>

NextChunk ==
    /\ Running("chunk")
    /\ \E c \in ChunkAt(S.a, call.load) : Goto(sparse_chunk(S, call.load, c) \o Rest)
    /\ UNCHANGED <<board, medium, drv, left, hist>>

Fail ==
    /\ Running("fail")
    /\ call' = [call EXCEPT !.todo = <<>>, !.r = 1]
    /\ UNCHANGED <<board, medium, drv, left, hist>>

\* The operating condition of a card that answered no CMD8 is sent with an
\* uninitialised argument.
NoArg ==
    /\ Running("noarg")
    /\ \E hcs \in {0, 1} : Goto([i \in DOMAIN Rest |-> IF i = 2 THEN [Rest[i] EXCEPT !.a = hcs]
                                                       ELSE Rest[i]])
    /\ UNCHANGED <<board, medium, drv, left, hist>>

\* mmc_boot_set_read_timeout(), mmc_boot_set_write_timeout(): for a card of standard
\* capacity they divide by mclk_rate / 1000000000, which is 0.
Timeouts ==
    /\ Running("timeouts")
    /\ \/ Goto(Rest)
       \/ ~IsHC(drv.type) /\ call' = [call EXCEPT !.pc = "mmc_halt", !.todo = <<>>]
    /\ UNCHANGED <<board, medium, drv, left, hist>>

Halt == call' = [call EXCEPT !.pc = "mmc_halt", !.todo = <<>>]

\* mmc_boot_read_mbr(), the sector read.
mmc_boot_read_mbr ==
    /\ Running("parse_mbr")
    /\ LET s == call.buf[1]
           ent == MbrEntries(s)
           full == FoldLeft(AddMbrEntry, [drv EXCEPT !.count = 0], ent)
       IN  CASE ~HasMbrSignature(s) -> Error /\ UNCHANGED drv
             [] s.k = "pmbr" -> drv' = [drv EXCEPT !.count = 0, !.gpt = TRUE] /\ Goto(Rest)
             [] OTHER ->
                  /\ drv' = full
                  /\ Goto((IF full.count < NumPartitions /\ ent[4].type = "ebr"
                           THEN ReadEbr(drv.type, ent[4].first) ELSE <<>>) \o Rest)
    /\ UNCHANGED <<board, medium, left, hist>>

\* One EBR of the chain: its partition, counted from itself, and the next EBR,
\* counted from the first.
ParseEbr ==
    /\ Running("parse_ebr")
    /\ LET s == call.buf[1]
           e == Tables[s.v].ebr[s.i]
           d == AddMbrEntry(drv, [type |-> e.type, first |-> S.a + e.rel, size |-> e.size])
       IN  IF s.k # "ebr" THEN Goto(Rest) /\ UNCHANGED drv
           ELSE /\ drv' = d
                /\ Goto((IF d.count = NumPartitions \/ e.next = 0 THEN <<>>
                         ELSE ReadEbr(drv.type, drv.slots[4].first + e.next)) \o Rest)
    /\ UNCHANGED <<board, medium, left, hist>>

\* The buffer of a header that was not read: rubbish, or the last header seen.
StaleHeader ==
    /\ Running("stale")
    /\ \E b \in {Half, drv.hdr} : call' = [call EXCEPT !.buf = <<b>>, !.todo = Rest]
    /\ UNCHANGED <<board, medium, drv, left, hist>>

\* partition_parse_gpt_header() of the primary header, and of the backup one at the
\* end of the card when the primary has no signature.
partition_parse_gpt_header ==
    /\ call.pc = "mmc_run" /\ call.todo # <<>>
    /\ S.do \in {"parse_gpt", "parse_backup"}
    /\ LET s == call.buf[1]
       IN  IF s.k = "hdr"
           THEN /\ drv' = [drv EXCEPT !.hdr = s]
                /\ Goto(<<Step("entries", s.x, 0, <<>>)>> \o Rest)
           ELSE /\ UNCHANGED drv
                /\ IF S.do = "parse_backup" THEN Error
                   ELSE IF drv.capacity = 0 THEN Halt
                   ELSE Goto(mmc_boot_read_from_card(drv.type, drv.capacity - 1, 1)
                             \o <<I("parse_backup")>> \o Rest)
    /\ UNCHANGED <<board, medium, left, hist>>

\* The loop over the sectors of entries, its assertion and its end.
GptSector ==
    /\ Running("entries")
    /\ IF S.n >= ArraySecs THEN Goto(Rest)
       ELSE IF drv.count >= NumPartitions THEN Halt
       ELSE Goto(mmc_boot_read_from_card(drv.type, S.a + S.n, 1)
                 \o <<[S EXCEPT !.do = "fill"]>> \o Rest)
    /\ UNCHANGED <<board, medium, drv, left, hist>>

GptFill ==
    /\ Running("fill")
    /\ LET found == GptEntries(call.buf[1])
       IN  /\ drv' = [drv EXCEPT !.count = @ + Len(found),
                          !.slots = [i \in 1 .. NumPartitions |->
                              IF i > drv.count /\ i <= drv.count + Len(found)
                              THEN found[i - drv.count] ELSE @[i]]]
           /\ Goto((IF Len(found) < PerSector THEN <<>>
                    ELSE <<[S EXCEPT !.do = "entries", !.n = @ + 1]>>) \o Rest)
    /\ UNCHANGED <<board, medium, left, hist>>

(***************************************************************************)
(* Calls, their end, and power cuts.                                       *)
(***************************************************************************)
\* A sparse image whose chunk headers are where the code looks for them: its file
\* header is not longer than the code's, or its rest would be skipped twice, and no
\* CRC chunk counts blocks.
WellLaid(id) ==
    LET p == Payloads[id]
    IN  p.kind = "sparse" => /\ p.fhdr = 1
                             /\ \A k \in DOMAIN p.chunks : p.chunks[k].type = "crc" => p.chunks[k].n = 0

\* The entry of an MBR for its chain of EBRs gets no name of its own and keeps the
\* one an earlier table left in its slot.
IsExtended(n) ==
    \E id \in hist.tables : /\ Tables[id].kind = "mbr" /\ Tables[id].ent[4].type = "ebr"
                            /\ n = 4 /\ partition_get_offset(n) = Tables[id].ent[4].first

\* History: a flash or an erase that may write past the end of its partition, or
\* to the sectors of a chain of EBRs by a name that was left there.
Overruns(fn, arg, load) ==
    LET n == partition_get_index(arg)
        size == partition_get_size(n)
    IN  \/ fn = "flash" /\ arg # "partition" /\ ~(WellLaid(load) /\ Payloads[load].total <= size)
        \/ fn = "erase" /\ EraseOut > size
        \/ fn \in {"flash", "erase"} /\ IsExtended(n)

Begin(fn, arg, load, prog) ==
    /\ call' = [MmcOff EXCEPT !.pc = "mmc_run", !.fn = fn, !.todo = prog, !.arg = arg,
                              !.load = load]
    /\ hist' = [hist EXCEPT !.before = medium.sec, !.over = @ \/ Overruns(fn, arg, load),
                  !.tables = IF arg = "partition" THEN @ \cup {Payloads[load].id} ELSE @,
                  !.table = IF arg = "partition" THEN "none" ELSE @]
    /\ UNCHANGED <<board, medium, drv>>

MmcMain ==
    /\ call.pc = "mmc_off"
    /\ Begin("main", "none", "none", mmc_boot_main)
    /\ UNCHANGED left

Names == {"boot", "system"}

MmcCall(fn, arg, load, prog) ==
    /\ call.pc = "mmc_idle" /\ left.calls > 0
    /\ Begin(fn, arg, load, prog)
    /\ left' = [left EXCEPT !.calls = @ - 1]

FlashMmc ==
    /\ call.pc = "mmc_idle"
    /\ \E arg \in Names \cup {"partition"}, id \in DOMAIN Payloads :
        /\ (arg = "partition") = (Payloads[id].kind = "table")
        /\ MmcCall("flash", arg, id, cmd_flash_mmc(arg, id))
EraseMmc == MmcCall("erase", "system", "none", cmd_erase_mmc("system"))
LoadMmc  == MmcCall("read", "boot", "none", load_image("boot"))

\* The end of a call.  When mmc_boot_main() fails there is nothing to boot from.
MmcReturn ==
    /\ call.pc = "mmc_run" /\ call.todo = <<>>
    /\ call' = [call EXCEPT !.pc = IF call.fn = "main" /\ call.r = 1 THEN "mmc_halt"
                                   ELSE "mmc_idle"]
    /\ hist' = IF call.arg = "partition" /\ call.r = 0
               THEN [hist EXCEPT !.table = Payloads[call.load].id, !.over = FALSE]
               ELSE hist
    /\ UNCHANGED <<board, medium, drv, left>>

MmcPowerCut ==
    /\ board.kind = "mmc" /\ left.cuts > 0 /\ call.pc # "mmc_off"
    /\ left' = [left EXCEPT !.cuts = @ - 1]
    /\ call' = MmcOff
    /\ drv' = NoDrv
    /\ medium' = [medium EXCEPT !.st = "idle", !.hs = FALSE, !.width = 1, !.count = 0]
    /\ hist' = [hist EXCEPT !.faulty = FALSE]
    /\ UNCHANGED board

\* What a card carries when the board first comes up.
Formatted(id) ==
    [x \in Sector |->
        IF id = "none" THEN Blank0
        ELSE LET tab == Tables[id]
                 size == Sectors
             IN  IF tab.kind = "mbr"
                 THEN IF x = 0 THEN Holds("mbr", id, 0)
                      ELSE IF \E n \in 1 .. Len(tab.ebr) : EbrAt(tab, n) = x
                      THEN Holds("ebr", id, CHOOSE n \in 1 .. Len(tab.ebr) : EbrAt(tab, n) = x)
                      ELSE Blank0
                 ELSE CASE x = 0 -> Holds("pmbr", id, 0)
                        [] x = 1 -> HoldsAt("hdr", id, 0, 2)
                        [] x \in 2 .. ArraySecs + 1 -> HoldsAt("arr", id, x - 2, LastUsable(size))
                        [] x \in size - ArraySecs - 1 .. size - 2 ->
                             HoldsAt("arr", id, x - (size - ArraySecs - 1), LastUsable(size))
                        [] x = size - 1 -> HoldsAt("hdr", id, 1, size - (ArraySecs + 1))
                        [] OTHER -> Blank0]

MmcInit ==
    /\ \E c \in Cards : board = [kind |-> "mmc", card |-> c.card, group |-> c.group, wrap |-> c.wrap]
    /\ \E id \in OnCard :
          /\ medium = [sec |-> Formatted(id), st |-> "idle", hs |-> FALSE, width |-> 1,
                       count |-> 0, at |-> 0, from |-> 0, to |-> 0]
          /\ hist = [table |-> id, tables |-> {id} \ {"none"}, over |-> FALSE,
                     before |-> medium.sec, faulty |-> FALSE, ignored |-> FALSE]
    /\ drv = NoDrv
    /\ call = MmcOff
    /\ left = AllLeft

MmcNext ==
    \/ MmcMain \/ FlashMmc \/ EraseMmc \/ LoadMmc \/ MmcReturn \/ MmcPowerCut
    \/ mmc_boot_send_command \/ OpCond \/ CardStatus \/ ProgDone \/ CardDone
    \/ mmc_boot_fifo_read \/ mmc_boot_fifo_write \/ HostStep \/ Expand \/ NextChunk \/ Fail \/ NoArg \/ Timeouts
    \/ mmc_boot_read_mbr \/ ParseEbr \/ StaleHeader \/ partition_parse_gpt_header
    \/ GptSector \/ GptFill

-----------------------------------------------------------------------------
\* As long as nothing has failed since power-up, the driver never sends a command
\* the card is not in a state to take, and never moves data while card and host
\* disagree on the bus: it waits for the end of programming before it sends the
\* next command, and switches the host only after the card (mmc.c:1145-1194,
\* 1306-1482).
CommandsLegal == board.kind = "mmc" => ~hist.ignored

\* The table the driver read, against the one that was flashed.
SameTable(id) ==
    LET tab == Tables[id]
        slot(n) == drv.slots[n]
    IN  IF tab.kind = "gpt"
        THEN /\ drv.count = Len(tab.ent)
             /\ \A n \in 1 .. drv.count :
                  /\ slot(n).name = tab.ent[n].name /\ slot(n).first = tab.ent[n].first
                  /\ n < drv.count => slot(n).size = tab.ent[n].last - tab.ent[n].first + 1
                  /\ slot(n).first + slot(n).size <= Sectors - (ArraySecs + 1)
        ELSE /\ drv.count = 4 + Len(tab.ebr)
             /\ \A n \in 1 .. 4 : slot(n).first = tab.ent[n].first /\ slot(n).size = tab.ent[n].size
             /\ \A n \in 1 .. Len(tab.ebr) :
                  /\ slot(4 + n).first = EbrAt(tab, n) + tab.ebr[n].rel
                  /\ slot(4 + n).size = tab.ebr[n].size

\* A partition the driver read is one of a table.
OfTable(id, slot) ==
    LET tab == Tables[id]
    IN  IF tab.kind = "gpt"
        THEN \E n \in DOMAIN tab.ent : slot.name = tab.ent[n].name /\ slot.first = tab.ent[n].first
        ELSE \/ \E n \in 1 .. 4 : slot.first = tab.ent[n].first /\ slot.size = tab.ent[n].size
             \/ \E n \in DOMAIN tab.ebr : /\ slot.first = EbrAt(tab, n) + tab.ebr[n].rel
                                          /\ slot.size = tab.ebr[n].size

\* The EBRs of a table that lie past 4 GB wrap to sectors that nothing else of
\* the table uses.
EbrsClear(id) ==
    LET tab == Tables[id]
        at(n) == EbrSector(EbrAt(tab, n))
        in(x, first, size) == x >= first /\ x < first + size
    IN  tab.kind = "mbr" =>
          \A n \in DOMAIN tab.ebr :
            /\ at(n) # 0
            /\ \A m \in DOMAIN tab.ebr : /\ m # n => at(m) # at(n)
                                         /\ ~in(at(n), EbrAt(tab, m) + tab.ebr[m].rel, tab.ebr[m].size)
            /\ \A e \in 1 .. 3 : ~in(at(n), tab.ent[e].first, tab.ent[e].size)

\* The table on the card is the one it came with, or the one "flash partition"
\* last reported as written: every start-up that succeeds finds exactly its
\* partitions, where it says, the last one of a GPT ending before the backup table,
\* whichever header was read and whatever was flashed or erased in between.  After a
\* "flash partition" that failed, or that a power cut stopped between any two of its
\* writes, a start-up that succeeds may find a mixture, but no partition that is in
\* none of the tables the card has had (partition_parser.c:45-320, 495-692).
\* The code does not keep three things off the table, which are left out: a sparse
\* image or an erase that goes past the end of its partition (aboot.c:964, 1092);
\* one that names the extended partition, by a name an earlier table left in its slot
\* (partition_parser.c:739-806); and an EBR past 4 GB, whose address wraps
\* (partition_parser.c:140, 179, 368), onto the MBR, another EBR or a partition.
TableStable ==
    (/\ board.kind = "mmc" /\ call.pc = "mmc_idle" /\ call.fn = "main" /\ call.r = 0
     /\ ~hist.over /\ \A id \in hist.tables : EbrsClear(id))
    => /\ \A n \in 1 .. drv.count : \E id \in hist.tables : OfTable(id, drv.slots[n])
       /\ hist.table # "none" => SameTable(hist.table)

\* What a partition of size n should hold after a download.
Wanted(id, old, i) ==
    LET p == Payloads[id]
        in == {k \in 1 .. Len(p.chunks) :
                  OutBefore(p.chunks, k) <= i /\ i < OutBefore(p.chunks, k) + p.chunks[k].n}
    IN  IF p.kind = "raw" THEN (IF i < p.len THEN Holds("img", id, i) ELSE old)
        ELSE IF \E k \in in : p.chunks[k].type = "raw" THEN Holds("img", id, i) ELSE old

=============================================================================
