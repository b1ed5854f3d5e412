---------------------------- MODULE MCLkStorage ----------------------------
(* The storage of a board: NAND or a card.  The NAND has four blocks of two *)
(* pages: a partition for the applications of three blocks and one in the   *)
(* modem's layout of one.  The card has fifteen sectors: six for each copy  *)
(* of a GPT, one less for the backup, and four for partitions.              *)
EXTENDS LkNand, LkMmc

MCPtable == [boot |-> [start |-> 0, length |-> 3, type |-> "APPS"],
             modem |-> [start |-> 3, length |-> 1, type |-> "MODEM"]]
MCImages == {[id |-> "a", bytes |-> 6], [id |-> "b", bytes |-> 3]}

\* A card whose capacity wraps to zero is among them, and two past whose 4 GB the
\* second EBR of m1 lies: it wraps to a free sector on one and to the MBR on the other.
Card(k, g, w) == [card |-> k, group |-> g, wrap |-> w]
MCCards == {Card("MMCHC", 5, 9), Card("MMCHC", 5, 10), Card("STD_MMC", 16, 16),
            Card("SDHC", 16, 15), Card("STD_SD", 5, 16)}

\* Two GPTs and two MBRs; g8 fills the driver's table.
E(name, first, last) == [name |-> name, first |-> first, last |-> last]
M(type, first, size) == [type |-> type, first |-> first, size |-> size]
MCTables ==
    [g1 |-> [kind |-> "gpt", ent |-> <<E("boot", 6, 6), E("system", 7, 9)>>],
     g8 |-> [kind |-> "gpt", ent |-> <<E("boot", 6, 6), E("a", 7, 7), E("b", 7, 7),
                                       E("c", 7, 7), E("d", 8, 8), E("e", 8, 8),
                                       E("f", 8, 8), E("system", 9, 9)>>],
     m0 |-> [kind |-> "mbr", ebr |-> <<>>,
             ent |-> <<M("vfat", 1, 1), M("boot", 2, 2), M("recovery", 4, 2), M("ext3", 6, 4)>>],
     m1 |-> [kind |-> "mbr",
             ent |-> <<M("vfat", 2, 1), M("recovery", 3, 1), M("boot", 4, 2), M("ebr", 6, 9)>>,
             ebr |-> <<[type |-> "ext3", rel |-> 1, size |-> 3, next |-> 4],
                       [type |-> "ext3", rel |-> 1, size |-> 2, next |-> 0]>>]]

Raw(len, boot) == [kind |-> "raw", len |-> len, boot |-> boot, id |-> "none",
                   fhdr |-> 0, chdr |-> 0, chunks |-> <<>>, total |-> 0]
Table(id) == [Raw(1, FALSE) EXCEPT !.kind = "table", !.id = id]
C(type, n) == [type |-> type, n |-> n, sized |-> TRUE]

\* A boot image, a sparse image, one with a file header that is too long, one with
\* a CRC chunk that counts a block, and two tables.
MCPayloads ==
    [k |-> Raw(1, TRUE),
     s |-> [Raw(2, FALSE) EXCEPT !.kind = "sparse", !.fhdr = 1, !.chdr = 2, !.total = 3,
                !.chunks = <<C("raw", 1), C("dont_care", 1), C("crc", 0), C("raw", 1)>>],
     h |-> [Raw(1, FALSE) EXCEPT !.kind = "sparse", !.fhdr = 2, !.chdr = 1, !.total = 1,
                !.chunks = <<C("raw", 1)>>],
     c |-> [Raw(1, FALSE) EXCEPT !.kind = "sparse", !.fhdr = 1, !.chdr = 1, !.total = 2,
                !.chunks = <<C("crc", 1), C("raw", 1)>>],
     g |-> Table("g1"), m |-> Table("m1")]

Init == NandInit \/ MmcInit
Next == NandNext \/ MmcNext
Spec == Init /\ [][Next]_vars
=============================================================================
