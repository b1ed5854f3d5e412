-------------------------------- MODULE LkBus --------------------------------
(***************************************************************************)
(* The boot loader's serial links: the QUP I2C master (i2c_qup.c), the     *)
(* OMAP3 I2C controller (i2c.c) and the data-mover UART (uart_dm.c).       *)
(* Every register poll is a step of its own, so the device moves between   *)
(* any two of them.                                                        *)
(***************************************************************************)
EXTENDS LkDevice, Integers, Sequences, FiniteSets, SequencesExt, FiniteSetsExt

CONSTANTS
    OutBlk, OutFifo,   \* QUP output block and FIFO, in tagged bytes
    QupLens,           \* message lengths the callers use
    UartWord,          \* characters in one word of the UART_DM FIFO
    Texts              \* texts written to the console

Keep == UNCHANGED <<part, left, hist>>

-----------------------------------------------------------------------------
(* QUP.  Each byte goes into the output FIFO with a tag.                   *)

Msg(rd, n) == [rd |-> rd, len |-> n]

\* What panel.c and platform.c ask for: a write, or a register number
\* written and its value read.
QupJobs == {<<Msg(FALSE, n)>> : n \in QupLens} \cup
           {<<Msg(FALSE, m), Msg(TRUE, n)>> : m, n \in QupLens}

\* On the wire a message starts, moves its bytes, and only the last write
\* of the call is ended by a STOP; a read is one command and its bytes.
OnWire(msgs) ==
    FlattenSeq([i \in DOMAIN msgs |->
        LET m == msgs[i] IN
        IF m.rd THEN <<Op("RSTART", 0), Op("REC", m.len)>> \o [k \in 1..m.len |-> Op("GOT", k)]
        ELSE <<Op("START", 0)>> \o
             [k \in 1..m.len |-> Op(IF k = m.len /\ i = Len(msgs) THEN "STOP" ELSE "DATA", k)]])

QupIdle == [msgs |-> <<>>, pos |-> 0, cnt |-> 0, wr_sz |-> 0, filled |-> FALSE,
            idx |-> 0, carry |-> <<>>, err |-> "none"]

\* Leaves qup_i2c_xfer: the message is forgotten and the interrupt masked.
OutErr(r) == Return(r) /\ drv' = QupIdle

\* The core changes state; PAUSE can only be entered from RUN.  A poll that
\* does not see the new state in time fails.
qup_update_state(s) ==
    \/ /\ ~(s = "pause" /\ hw.state = "reset")
       /\ hw' = [hw EXCEPT !.state = s]
       /\ UNCHANGED left
    \/ /\ hw.state = "reset" \/ left.faults > 0
       /\ left' = IF hw.state = "reset" THEN left ELSE [left EXCEPT !.faults = @ - 1]
       /\ hw' = [hw EXCEPT !.state = "lost"]

\* qup_i2c_xfer: software reset, then the messages one by one.
QupCall ==
    /\ At("qup", "idle") /\ Takes("jobs")
    /\ \E msgs \in QupJobs :
          /\ cpu' = Begins("outer", OnWire(msgs))
          /\ drv' = [QupIdle EXCEPT !.msgs = msgs, !.cnt = msgs[1].len]
    /\ hw' = [hw EXCEPT !.state = "reset", !.fifo = <<>>, !.infifo = 0, !.nack = FALSE,
                        !.unsettled = FALSE, !.seen = <<>>]
    /\ UNCHANGED <<part, hist>>

\* A long write uses block mode: smaller refills, and nothing before the
\* first interrupt.  Reads do not touch wr_sz.
qup_set_wr_mode == IF drv.cnt >= OutFifo - 1 THEN OutBlk ELSE OutFifo

QupOuter ==
    /\ At("qup", "outer")
    /\ \/ /\ drv.msgs = <<>>
          /\ OutErr("ok") /\ UNCHANGED <<hw, left>>
       \/ /\ drv.msgs # <<>>
          /\ qup_update_state("run")
          /\ IF hw'.state = "lost" THEN OutErr("fail")
             ELSE /\ cpu' = [cpu EXCEPT !.pc = "inner"]
                  /\ LET sz == IF Head(drv.msgs).rd THEN OutFifo ELSE qup_set_wr_mode
                     IN  drv' = [drv EXCEPT !.wr_sz = sz, !.err = "none", !.filled = sz = OutBlk]
    /\ UNCHANGED <<part, hist>>

QupPause ==
    /\ At("qup", "inner")
    /\ qup_update_state("pause")
    /\ IF hw'.state = "lost" THEN OutErr("fail")
       ELSE /\ cpu' = [cpu EXCEPT !.pc = IF drv.filled THEN "run" ELSE "fill"]
            /\ drv' = [drv EXCEPT !.idx = 0, !.carry = <<>>]
    /\ UNCHANGED <<part, hist>>

\* Entries go out two to a word; es has an even number of them.
Word(es) == [hw EXCEPT !.fifo = @ \o es]
NOP == Op("NOP", 0)

\* The START and the read command, behind an entry carried over from the
\* write, if there is one; a lone last entry is padded.
qup_issue_read(m) ==
    LET es == drv.carry \o <<Op("RSTART", 0), Op("REC", m.len)>>
    IN  /\ hw' = Word(IF Len(es) % 2 = 0 THEN es ELSE Append(es, NOP))
        /\ drv' = [drv EXCEPT !.idx = @ + 4, !.carry = <<>>, !.filled = TRUE]
        /\ cpu' = [cpu EXCEPT !.pc = "run"]

\* As many bytes of the message as fit, behind a START or, in a refill, a
\* NOP.  A last entry without a partner is padded when the call ends with it;
\* before a read it is carried over to the read's first word, or padded when
\* that would split the read command from its START.  The read then follows
\* in the same fill unless the FIFO is full.
qup_issue_write(m) ==
    LET k    == Min({drv.cnt + 1, drv.wr_sz})
        es   == <<IF drv.pos = 0 THEN Op("START", 0) ELSE NOP>> \o
                [i \in 1..(k - 1) |-> Op(IF drv.pos + i = m.len /\ Len(drv.msgs) = 1
                                         THEN "STOP" ELSE "DATA", drv.pos + i)]
        odd  == k % 2 = 1
        more == Len(drv.msgs) > 1
        tail == odd /\ more /\ 2 * (k - 1) = 2 * drv.wr_sz - 4
        hold == odd /\ more /\ ~tail
        idx  == 2 * k + (IF tail THEN 2 ELSE 0)
        pos  == drv.pos + k - 1
    IN  /\ hw' = Word(CASE hold -> Front(es) [] odd /\ ~hold -> Append(es, NOP) [] OTHER -> es)
        /\ drv' = IF idx >= 2 * drv.wr_sz \/ ~more
                  THEN [drv EXCEPT !.pos = pos, !.cnt = m.len - pos, !.idx = idx, !.filled = TRUE]
                  ELSE [drv EXCEPT !.msgs = Tail(@), !.pos = 0, !.cnt = drv.msgs[2].len, !.idx = idx,
                                   !.carry = IF hold THEN <<Last(es)>> ELSE <<>>]
        /\ cpu' = [cpu EXCEPT !.pc = IF drv'.filled THEN "run" ELSE "fill"]

\* A read command goes out once, when none of its bytes has arrived.
QupFill ==
    /\ At("qup", "fill")
    /\ LET m == Head(drv.msgs) IN
       \/ m.rd /\ drv.cnt = m.len /\ qup_issue_read(m)
       \/ ~m.rd /\ qup_issue_write(m)
    /\ Keep

QupRun ==
    /\ At("qup", "run")
    /\ qup_update_state("run")
    /\ IF hw'.state = "lost" THEN OutErr("fail")
       ELSE cpu' = [cpu EXCEPT !.pc = "check"] /\ UNCHANGED drv
    /\ UNCHANGED <<part, hist>>

\* A pending interrupt comes first.  After an error the call ends; a read
\* takes what has arrived, a write goes on with the next refill; a finished
\* message makes place for the next.
QupCheck ==
    /\ At("qup", "check") /\ ~hw.nack
    /\ \/ /\ drv.err # "none"
          /\ OutErr("fail") /\ UNCHANGED hw
       \/ /\ drv.err = "none"
          /\ LET m   == Head(drv.msgs)
                 got == IF m.rd THEN Min({hw.infifo, m.len - drv.pos}) ELSE 0
                 cnt == drv.cnt - got
             IN  /\ hw' = [hw EXCEPT !.infifo = @ - got,
                                     !.seen = @ \o [i \in 1..got |-> Op("GOT", drv.pos + i)]]
                 /\ drv' = IF cnt > 0
                           THEN [drv EXCEPT !.pos = @ + got, !.cnt = cnt, !.filled = m.rd]
                           ELSE [drv EXCEPT !.msgs = Tail(@), !.pos = 0,
                                            !.cnt = IF Len(drv.msgs) > 1 THEN drv.msgs[2].len ELSE 0]
                 /\ cpu' = [cpu EXCEPT !.pc = IF cnt > 0 THEN "inner" ELSE "ready"]
    /\ Keep

\* The bus must become idle before the next message: a bounded poll.
qup_i2c_poll_writeready ==
    /\ At("qup", "ready")
    /\ \/ /\ hw.fifo = <<>>
          /\ cpu' = [cpu EXCEPT !.pc = "outer"] /\ UNCHANGED <<drv, left>>
       \/ /\ Takes("faults") /\ OutErr("fail")
    /\ UNCHANGED <<part, hw, hist>>

\* The core sends the next entry, or the slave does not acknowledge it: too
\* late to be noticed when the message has had its last QupCheck.
QupShift ==
    /\ part.kind = "qup" /\ hw.state = "run" /\ hw.fifo # <<>>
    /\ LET e == Head(hw.fifo) IN
       \/ /\ hw' = [hw EXCEPT !.fifo = Tail(@), !.seen = IF e.op = "NOP" THEN @ ELSE Append(@, e),
                              !.infifo = IF e.op = "REC" THEN e.n ELSE @]
          /\ UNCHANGED left
       \/ /\ e.op # "NOP" /\ Takes("faults")
          /\ hw' = [hw EXCEPT !.fifo = <<>>, !.nack = TRUE,
                              !.unsettled = @ \/ cpu.pc \in {"ready", "outer"}]
    /\ UNCHANGED <<part, drv, cpu, hist>>

\* Only errors matter: the one interrupt line is level triggered, so the core
\* is put into RESET to release it.
qup_i2c_interrupt ==
    /\ part.kind = "qup" /\ hw.nack /\ cpu.pc \notin {"idle", "returned"}
    /\ hw' = [hw EXCEPT !.nack = FALSE, !.state = "reset"]
    /\ drv' = [drv EXCEPT !.err = "nack"]
    /\ UNCHANGED <<part, cpu, left, hist>>

QupInit ==
    /\ part = [kind |-> "qup"]
    /\ hw = [state |-> "reset", fifo |-> <<>>, infifo |-> 0, nack |-> FALSE,
             unsettled |-> FALSE, seen |-> <<>>]
    /\ drv = QupIdle
    /\ cpu = [pc |-> "idle", asked |-> <<>>, ret |-> "none"]
    /\ left = FullBounds /\ hist = <<>>

QupNext == \/ QupCall \/ QupOuter \/ QupPause \/ QupFill \/ QupRun \/ QupCheck
           \/ qup_i2c_poll_writeready \/ QupShift \/ qup_i2c_interrupt

-----------------------------------------------------------------------------
(* OMAP3 I2C: a loop over the status register, one byte at a time.         *)

\* i2c_write_reg, i2c_read_reg and the transfers of the board code.
I2cJobs == {<<Msg(FALSE, 2)>>, <<Msg(FALSE, 1), Msg(TRUE, 1)>>, <<Msg(FALSE, 3)>>, <<Msg(TRUE, 3)>>}

Moves(msgs) == FlattenSeq([i \in DOMAIN msgs |->
                    [k \in 1..msgs[i].len |-> Op(IF msgs[i].rd THEN "GOT" ELSE "DATA", k)]])

I2cCall ==
    /\ At("i2c", "idle") /\ Takes("jobs")
    /\ \E msgs \in I2cJobs : /\ cpu' = Begins("bb", Moves(msgs))
                             /\ drv' = [drv EXCEPT !.msgs = msgs]
    /\ hw' = [hw EXCEPT !.seen = <<>>]
    /\ UNCHANGED <<part, hist>>

\* Waits for the bus to be free, clearing whatever is pending, then programs
\* address and count and starts the transfer.
i2c_wait_for_bb ==
    /\ At("i2c", "bb") /\ ~hw.active
    /\ LET m == Head(drv.msgs)
       IN  hw' = [hw EXCEPT !.stat = {}, !.rd = m.rd, !.cnt = m.len, !.buf = 0, !.active = TRUE]
    /\ drv' = [drv EXCEPT !.pos = 0]
    /\ cpu' = [cpu EXCEPT !.pc = "poll"]
    /\ Keep

\* Every exit clears the status and the count; an aborted transfer ends.
I2cOut == [hw EXCEPT !.stat = {}, !.cnt = 0, !.buf = 0, !.active = FALSE]

\* One look at the status: an error ends the call, ARDY ends the message, and
\* a ready byte is moved.
I2cPoll ==
    /\ At("i2c", "poll")
    /\ CASE hw.stat \cap {"NACK", "AL"} # {} ->
              hw' = I2cOut /\ drv' = [drv EXCEPT !.msgs = <<>>] /\ Return("fail")
         [] hw.stat \cap {"NACK", "AL"} = {} /\ "ARDY" \in hw.stat ->
              /\ hw' = I2cOut
              /\ drv' = [drv EXCEPT !.msgs = Tail(@)]
              /\ IF Len(drv.msgs) = 1 THEN Return("ok") ELSE cpu' = [cpu EXCEPT !.pc = "bb"]
         [] OTHER ->
              LET rdy == "RDY" \in hw.stat
                  k   == drv.pos + 1
              IN  /\ drv' = [drv EXCEPT !.stat = hw.stat, !.pos = IF rdy THEN k ELSE @]
                  /\ hw' = CASE rdy /\ hw.rd -> [hw EXCEPT !.buf = 0, !.seen = Append(@, Op("GOT", k))]
                             [] rdy /\ ~hw.rd -> [hw EXCEPT !.buf = k]
                             [] OTHER -> hw
                  /\ cpu' = [cpu EXCEPT !.pc = "clear"]
    /\ Keep

\* Exactly the bits that were read are cleared; the clock is looked at.
I2cClear ==
    /\ At("i2c", "clear")
    /\ \/ /\ hw' = [hw EXCEPT !.stat = @ \ drv.stat]
          /\ cpu' = [cpu EXCEPT !.pc = "poll"] /\ UNCHANGED <<drv, left>>
       \/ /\ Takes("faults")
          /\ hw' = I2cOut /\ drv' = [drv EXCEPT !.msgs = <<>>] /\ Return("fail")
    /\ UNCHANGED <<part, hist>>

\* External: the controller asks for or delivers bytes, and completes when
\* the count is used up and its FIFO is empty.
I2cDevice ==
    /\ part.kind = "i2c" /\ hw.active
    /\ \/ /\ hw.cnt > 0 /\ ~hw.rd /\ hw.buf = 0 /\ "RDY" \notin hw.stat
          /\ hw' = [hw EXCEPT !.stat = @ \cup {"RDY"}] /\ UNCHANGED left
       \/ /\ hw.cnt > 0 /\ ~hw.rd /\ hw.buf # 0
          /\ \/ /\ hw' = [hw EXCEPT !.buf = 0, !.cnt = @ - 1, !.seen = Append(@, Op("DATA", hw.buf))]
                /\ UNCHANGED left
             \/ Takes("faults") /\ hw' = [hw EXCEPT !.stat = @ \cup {"NACK"}, !.buf = 0, !.cnt = 0]
       \/ /\ hw.cnt > 0 /\ hw.rd /\ hw.buf = 0
          /\ hw' = [hw EXCEPT !.buf = 1, !.cnt = @ - 1] /\ UNCHANGED left
       \/ /\ hw.rd /\ hw.buf # 0 /\ "RDY" \notin hw.stat
          /\ hw' = [hw EXCEPT !.stat = @ \cup {"RDY"}] /\ UNCHANGED left
       \/ /\ hw.cnt = 0 /\ hw.buf = 0
          /\ hw' = [hw EXCEPT !.stat = @ \cup {"ARDY"}, !.active = FALSE] /\ UNCHANGED left
    /\ UNCHANGED <<part, drv, cpu, hist>>

\* i2c_init_early has reset and enabled the three buses.
I2cInit ==
    /\ part = [kind |-> "i2c"]
    /\ hw = [stat |-> {}, rd |-> FALSE, cnt |-> 0, buf |-> 0, active |-> FALSE,
             seen |-> <<>>, unsettled |-> FALSE]
    /\ drv = [msgs |-> <<>>, pos |-> 0, stat |-> {}]
    /\ cpu = [pc |-> "idle", asked |-> <<>>, ret |-> "none"]
    /\ left = FullBounds /\ hist = <<>>

I2cNext == I2cCall \/ i2c_wait_for_bb \/ I2cPoll \/ I2cClear \/ I2cDevice

-----------------------------------------------------------------------------
(* UART_DM: the transmitter takes a count and words of characters, the     *)
(* receiver delivers words, a last partial one when the line goes stale.   *)
(* What was asked and what was seen are totals over all the calls, for the *)
(* transmitter still works on a text when the call has returned.           *)

\* "\n" goes out as "\r\n".
msm_boot_uart_replace_lr_with_cr(t) ==
    FlattenSeq([i \in DOMAIN t |-> IF t[i] = "NL" THEN <<"CR", "NL">> ELSE <<t[i]>>])

Chars(t) == [i \in DOMAIN t |-> Op(t[i], 0)]

UartPutc ==
    /\ At("uart_dm", "idle") /\ Takes("jobs")
    /\ \E t \in Texts :
          LET out == msm_boot_uart_replace_lr_with_cr(t) IN
          /\ drv' = [drv EXCEPT !.out = out]
          /\ cpu' = [Begins("txempty", cpu.out \o Chars(out) \o cpu.in) EXCEPT !.out = @ \o Chars(out)]
    /\ UNCHANGED <<part, hw, hist>>

\* The FIFO must be empty before the number of characters may be written.
UartCount ==
    /\ At("uart_dm", "txempty")
    /\ hw.tx = <<>> \/ hw.txready
    /\ hw' = [hw EXCEPT !.chars = Len(drv.out), !.txready = FALSE]
    /\ cpu' = [cpu EXCEPT !.pc = "txword"]
    /\ UNCHANGED drv /\ Keep

\* One word after another, as soon as the FIFO has room.
UartWrite ==
    /\ At("uart_dm", "txword")
    /\ LET k == Min({UartWord, Len(drv.out)}) IN
       \/ /\ drv.out = <<>> /\ Return("ok") /\ UNCHANGED <<drv, hw>>
       \/ /\ drv.out # <<>> /\ Len(hw.tx) < 2
          /\ hw' = [hw EXCEPT !.tx = Append(@, SubSeq(drv.out, 1, k)), !.unsettled = TRUE]
          /\ drv' = [drv EXCEPT !.out = SubSeq(@, k + 1, Len(@))]
          /\ UNCHANGED cpu
    /\ Keep

\* External: a word leaves, as far as the count allows; TX_READY comes when
\* the count is used up.
UartShift ==
    /\ part.kind = "uart_dm" /\ hw.tx # <<>>
    /\ LET k   == Min({UartWord, hw.chars, Len(Head(hw.tx))})
           out == Chars(SubSeq(Head(hw.tx), 1, k))
           nil == Len(hw.tx) = 1
       IN  hw' = [hw EXCEPT !.tx = Tail(@), !.chars = @ - k, !.sent = @ \o out,
                            !.seen = hw.sent \o out \o hw.got, !.txready = hw.chars = k, !.unsettled = ~nil]
    /\ UNCHANGED <<part, drv, cpu, left, hist>>

\* The receive transfer starts anew: the stale event is armed again.
msm_boot_uart_dm_init_rx_transfer(h) == [h EXCEPT !.stale = FALSE, !.total = 0, !.armed = TRUE]

\* A word is taken; once the transfer has ended, by a stale line or by its
\* length, and all its characters have been read, the next one is started.
UartTake ==
    LET read == drv.read + UartWord
        done == drv.snap > 0 \/ hw.stale \/ read >= hw.dmrx
        snap == IF drv.snap > 0 THEN drv.snap ELSE IF done THEN hw.total ELSE 0
        h    == [hw EXCEPT !.rx = Tail(@), !.stale = IF drv.snap = 0 THEN FALSE ELSE @]
    IN  IF ~done \/ snap - read >= 0
        THEN [hw |-> h, read |-> read, snap |-> snap]
        ELSE [hw |-> msm_boot_uart_dm_init_rx_transfer(h), read |-> 0, snap |-> 0]

Got(h, w) == LET got == Append(hw.got, Op("GOT", Head(w)))
             IN  [h EXCEPT !.got = got, !.seen = hw.sent \o got]

\* uart_getc keeps the rest of a word for the following calls.  Without wait
\* an empty FIFO is an error.
UartGetc ==
    /\ At("uart_dm", "getc")
    /\ \/ /\ drv.word # <<>>
          /\ hw' = Got(hw, drv.word) /\ drv' = [drv EXCEPT !.word = Tail(@)]
          /\ Return("ok")
       \/ /\ drv.word = <<>> /\ hw.rx # <<>>
          /\ LET t == UartTake IN
                /\ hw' = Got(t.hw, Head(hw.rx))
                /\ drv' = [drv EXCEPT !.word = Tail(Head(hw.rx)), !.read = t.read, !.snap = t.snap]
          /\ Return("ok")
       \/ /\ drv.word = <<>> /\ hw.rx = <<>> /\ ~drv.wait
          /\ cpu' = [cpu EXCEPT !.pc = "returned", !.ret = "fail", !.in = Front(@)]
          /\ UNCHANGED <<hw, drv>>
    /\ Keep

UartGetcCall ==
    /\ At("uart_dm", "idle") /\ Takes("jobs")
    /\ \E w \in BOOLEAN : drv' = [drv EXCEPT !.wait = w]
    /\ LET in == Append(cpu.in, Op("GOT", Len(cpu.in) + 1))
       IN  cpu' = [Begins("getc", cpu.out \o in) EXCEPT !.in = in]
    /\ UNCHANGED <<part, hw, hist>>

\* External: characters arrive, numbered in their order; a full word, or what
\* there is of one when an armed line goes stale, enters the FIFO.
UartLine ==
    /\ part.kind = "uart_dm"
    /\ \/ /\ Takes("events")
          /\ LET w == Append(hw.part, hw.nth + 1) IN
             hw' = [hw EXCEPT !.nth = @ + 1, !.total = @ + 1,
                              !.part = IF Len(w) = UartWord THEN <<>> ELSE w,
                              !.rx = IF Len(w) = UartWord THEN Append(@, w) ELSE @]
       \/ /\ hw.armed /\ hw.total > 0
          /\ hw' = [hw EXCEPT !.armed = FALSE, !.stale = TRUE, !.part = <<>>,
                              !.rx = IF hw.part = <<>> THEN @ ELSE Append(@, hw.part)]
          /\ UNCHANGED left
    /\ UNCHANGED <<part, drv, cpu, hist>>

\* uart_dm_init: clocks, pins and mode are set, both directions enabled.
UartInit ==
    /\ part = [kind |-> "uart_dm"]
    /\ hw = [tx |-> <<>>, chars |-> 0, txready |-> FALSE, sent |-> <<>>, got |-> <<>>,
             seen |-> <<>>, unsettled |-> FALSE, rx |-> <<>>, part |-> <<>>, nth |-> 0, total |-> 0,
             stale |-> FALSE, armed |-> TRUE, dmrx |-> 2 * UartWord]
    /\ drv = [out |-> <<>>, word |-> <<>>, wait |-> FALSE, read |-> 0, snap |-> 0]
    /\ cpu = [pc |-> "idle", asked |-> <<>>, ret |-> "none", out |-> <<>>, in |-> <<>>]
    /\ left = FullBounds /\ hist = <<>>

UartNext == \/ UartPutc \/ UartCount \/ UartWrite \/ UartShift
            \/ UartGetcCall \/ UartGetc \/ UartLine

-----------------------------------------------------------------------------

BusInit == QupInit \/ I2cInit \/ UartInit

BusNext == QupNext \/ I2cNext \/ UartNext

\* The processor runs, and a controller that can go on does so; the QUP core
\* shifts only between two pauses, but that is when the driver gives it time.
BusCode ==
    \/ QupOuter \/ QupPause \/ QupFill \/ QupRun \/ QupCheck \/ qup_i2c_poll_writeready
    \/ i2c_wait_for_bb \/ I2cPoll \/ I2cClear \/ UartCount \/ UartWrite \/ UartGetc

BusHardware == I2cDevice \/ UartShift \/ qup_i2c_interrupt
=============================================================================
