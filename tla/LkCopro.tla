------------------------------- MODULE LkCopro -------------------------------
(***************************************************************************)
(* Work the boot loader hands to other processors and engines: requests to *)
(* the modem (proc_comm.c) and to the secure world (scm.c), DMA transfers  *)
(* (adm.c) and digests (crypto_hash.c with crypto_eng.c or crypto4_eng.c). *)
(***************************************************************************)
EXTENDS LkDevice, Integers, Sequences, FiniteSets, SequencesExt, FiniteSetsExt

CONSTANTS
    RowLen, MaxRows,   \* ADM box mode limits: bytes in a row, rows
    Transfers,         \* lengths of MMC data
    CeWord, CeSegment, \* bytes of a word and of a segment of the engine
    Images             \* lengths of the data hashed

Stay == UNCHANGED <<part, left, hist>>

Told(s) == [i \in DOMAIN s |-> Op(s[i], i)]

-----------------------------------------------------------------------------
(* proc_comm: one command register shared with the modem.                  *)

\* The functions of proc_comm.c as the commands they send.  Those that have no
\* result ignore that of every command; the others send one and return its.
VoidRequests ==
    {<<"enable", "enable", "enable">>,      \* usb_clock_init
     <<"rate", "enable", "enable">>,        \* lcdc_clock_init
     <<"rate", "enable">>,                  \* mdp_clock_init
     <<"enable", "rate">>,                  \* uart*_clock_init, mddi_clock_init
     <<"enable", "rate", "enable">>,        \* mddi_clock_init on msm7x30
     <<"tamper">>}                          \* set_tamper_flag

\* vreg_*, gpio_tlmm_config, mmc_clock_*.
Requests == VoidRequests \cup {<<"vreg">>, <<"gpio">>, <<"enable">>, <<"disable">>, <<"rate">>}

PcomCall ==
    /\ At("proc_comm", "idle") /\ Takes("jobs")
    /\ \E r \in Requests : /\ cpu' = Begins("ready", Told(r))
                           /\ drv' = [todo |-> r, void |-> r \in VoidRequests]
    /\ hw' = [hw EXCEPT !.seen = <<>>]
    /\ UNCHANGED <<part, hist>>

\* Mutant: the command is written without waiting for the modem.
SendUnready ==
    /\ At("proc_comm", "ready")
    /\ hw' = [hw EXCEPT !.command = "sent", !.data = drv.todo[1]]
    /\ cpu' = [cpu EXCEPT !.pc = "notify"]
    /\ UNCHANGED drv /\ Stay

\* Data first, then the command.
PcomSend ==
    /\ At("proc_comm", "ready") /\ hw.mdm = "READY"
    /\ hw' = [hw EXCEPT !.command = "sent", !.data = drv.todo[1]]
    /\ cpu' = [cpu EXCEPT !.pc = "notify"]
    /\ UNCHANGED drv /\ Stay

notify_other_proc_comm ==
    /\ At("proc_comm", "notify")
    /\ hw' = [hw EXCEPT !.irq = TRUE]
    /\ cpu' = [cpu EXCEPT !.pc = "done"]
    /\ UNCHANGED drv /\ Stay

\* The answer is taken and, unless the command failed, acknowledged: the
\* modem learns that status and data have been read.
PcomDone ==
    /\ At("proc_comm", "done") /\ hw.command = "DONE"
    /\ LET bad  == hw.status = "FAIL"
           last == Len(drv.todo) = 1
       IN  /\ hw' = IF bad THEN hw ELSE [hw EXCEPT !.command = "IDLE"]
           /\ drv' = [drv EXCEPT !.todo = Tail(@)]
           /\ IF last THEN Return(IF drv.void THEN "void" ELSE IF bad THEN "fail" ELSE "ok")
              ELSE cpu' = [cpu EXCEPT !.pc = "ready"]
    /\ Stay

\* External: the modem comes up, takes a command on its interrupt, is busy,
\* and answers.
Modem ==
    /\ part.kind = "proc_comm"
    /\ \/ /\ hw.mdm = "INVALID"
          /\ hw' = [hw EXCEPT !.mdm = "READY", !.irq = FALSE] /\ UNCHANGED left
       \/ /\ hw.mdm = "READY" /\ hw.irq /\ hw.command = "sent"
          /\ hw' = [hw EXCEPT !.mdm = "RUNNING", !.irq = FALSE] /\ UNCHANGED left
       \/ /\ hw.mdm = "RUNNING"
          /\ \/ /\ hw' = [hw EXCEPT !.mdm = "READY", !.command = "DONE", !.status = "SUCCESS",
                                    !.seen = Append(@, Op(hw.data, Len(@) + 1))]
                /\ UNCHANGED left
             \/ /\ Takes("faults")
                /\ hw' = [hw EXCEPT !.mdm = "READY", !.command = "DONE", !.status = "FAIL"]
    /\ UNCHANGED <<part, drv, cpu, hist>>

PcomInit ==
    /\ part = [kind |-> "proc_comm"]
    /\ hw = [mdm |-> "INVALID", command |-> "IDLE", status |-> "SUCCESS", data |-> "none",
             irq |-> FALSE, seen |-> <<>>, unsettled |-> FALSE]
    /\ drv = [todo |-> <<>>, void |-> FALSE]
    /\ cpu = [pc |-> "idle", asked |-> <<>>, ret |-> "none"]
    /\ left = FullBounds /\ hist = <<>>

PcomNext == PcomCall \/ PcomSend \/ notify_other_proc_comm \/ PcomDone \/ Modem

-----------------------------------------------------------------------------
(* SCM: a command block in memory, and a call into the secure world.       *)

\* encrypt_scm, decrypt_scm and set_tamper_fuse_cmd want no response;
\* get_tamper_fuse_cmd and switch_ce_chn_cmd one byte, and return it whether
\* the call succeeded or not.
ScmRequests == {[cmd |-> c, resp |-> FALSE] : c \in {"encrypt", "decrypt", "blow"}} \cup
               {[cmd |-> c, resp |-> TRUE] : c \in {"blown", "channel"}}

\* The command block is built in cached memory and cleaned to main memory,
\* where the secure world reads it.
scm_call ==
    /\ At("scm", "idle") /\ Takes("jobs")
    /\ \E r \in ScmRequests :
          LET answer == IF r.resp THEN <<Op("ANSWER", 0)>> ELSE <<>> IN
          /\ cpu' = Begins("smc", <<Op(r.cmd, 0)>> \o answer)
          /\ drv' = [req |-> r]
          /\ hw' = [hw EXCEPT !.memory = r, !.complete = FALSE, !.answer = FALSE, !.seen = <<>>]
    /\ UNCHANGED <<part, hist>>

\* smc #0: an interrupted call returns 1 and is made again.
smc ==
    /\ At("scm", "smc")
    /\ \/ /\ Takes("events") /\ UNCHANGED <<hw, cpu>>
       \/ /\ hw' = [hw EXCEPT !.seen = Append(@, Op(hw.memory.cmd, 0)), !.working = drv.req.resp]
          /\ IF drv.req.resp THEN cpu' = [cpu EXCEPT !.pc = "complete"] ELSE Return("ok")
          /\ UNCHANGED left
       \/ Takes("faults") /\ Return("fail") /\ UNCHANGED hw
    /\ UNCHANGED <<part, drv, hist>>

\* Waits for the flag in main memory, then takes the response.
ScmResponse ==
    /\ At("scm", "complete") /\ hw.complete
    /\ hw' = IF hw.answer THEN [hw EXCEPT !.seen = Append(@, Op("ANSWER", 0))] ELSE hw
    /\ Return("ok")
    /\ UNCHANGED drv /\ Stay

\* External: the secure world writes the answer, then the flag.
SecureWorld ==
    /\ part.kind = "scm" /\ hw.working
    /\ hw' = IF hw.answer THEN [hw EXCEPT !.complete = TRUE, !.working = FALSE]
             ELSE [hw EXCEPT !.answer = TRUE]
    /\ UNCHANGED <<part, drv, cpu, left, hist>>

ScmInit ==
    /\ part = [kind |-> "scm"]
    /\ hw = [memory |-> [cmd |-> "none", resp |-> FALSE], working |-> FALSE, complete |-> FALSE,
             answer |-> FALSE, seen |-> <<>>, unsettled |-> FALSE]
    /\ drv = [req |-> [cmd |-> "none", resp |-> FALSE]]
    /\ cpu = [pc |-> "idle", asked |-> <<>>, ret |-> "none"]
    /\ left = FullBounds /\ hist = <<>>

ScmNext == scm_call \/ smc \/ ScmResponse \/ SecureWorld

-----------------------------------------------------------------------------
(* ADM: box mode DMA between the MMC FIFO and memory.                      *)

Bytes(first, n) == [i \in 1..n |-> Op("BYTE", first + i)]

AdmCall ==
    /\ At("adm", "idle") /\ Takes("jobs")
    /\ \E n \in Transfers : /\ cpu' = Begins("start", Bytes(0, n))
                            /\ drv' = [ptr |-> 0, left |-> n, rows |-> 0, len |-> 0]
    /\ hw' = [hw EXCEPT !.seen = <<>>]
    /\ UNCHANGED <<part, hist>>

\* Mutant: rows are counted without the limit of the row register.
UnlimitedRows(n) == IF n <= RowLen THEN [len |-> n, rows |-> 1]
                    ELSE [len |-> RowLen, rows |-> n \div RowLen]

\* As many whole rows as fit; what is shorter than a row is a row of its own.
Box(n) == IF n <= RowLen THEN [len |-> n, rows |-> 1]
          ELSE [len |-> RowLen, rows |-> Min({n \div RowLen, MaxRows})]

\* The box is described and its address given to the channel.
adm_transfer_mmc_data ==
    /\ At("adm", "start")
    /\ IF drv.left = 0 THEN Return("ok") /\ UNCHANGED <<hw, drv>>
       ELSE LET b == Box(drv.left) IN
            /\ drv' = [drv EXCEPT !.rows = b.rows, !.len = b.len]
            /\ hw' = [hw EXCEPT !.jobs = Append(@, [ptr |-> drv.ptr, len |-> b.len,
                                                    rows |-> b.rows % (MaxRows + 1)])]
            /\ cpu' = [cpu EXCEPT !.pc = "status"]
    /\ Stay

\* A result in the FIFO ends the wait, as does a second without one; the
\* result of a transfer that was given up stays for the next one to find.
adm_transfer_start ==
    /\ At("adm", "status")
    /\ \/ /\ hw.results # <<>>
          /\ hw' = [hw EXCEPT !.results = Tail(@)]
          /\ IF Head(hw.results) = "error" THEN Return("fail") /\ UNCHANGED drv
             ELSE /\ drv' = [drv EXCEPT !.ptr = @ + drv.len * drv.rows,
                                        !.left = @ - drv.len * drv.rows]
                  /\ cpu' = [cpu EXCEPT !.pc = "start"]
          /\ UNCHANGED left
       \/ /\ hw.results = <<>> /\ Takes("faults")
          /\ Return("fail") /\ hw' = [hw EXCEPT !.unsettled = TRUE] /\ UNCHANGED drv
    /\ UNCHANGED <<part, hist>>

\* External: the channel works off its command list in order.
AdmChannel ==
    /\ part.kind = "adm" /\ hw.jobs # <<>>
    /\ LET j == Head(hw.jobs) IN
       \/ /\ hw' = [hw EXCEPT !.jobs = Tail(@), !.results = Append(@, "done"),
                              !.seen = @ \o Bytes(j.ptr, j.len * j.rows)]
          /\ UNCHANGED left
       \/ /\ Takes("faults")
          /\ hw' = [hw EXCEPT !.jobs = Tail(@), !.results = Append(@, "error")]
    /\ UNCHANGED <<part, drv, cpu, hist>>

AdmInit ==
    /\ part = [kind |-> "adm"]
    /\ hw = [jobs |-> <<>>, results |-> <<>>, seen |-> <<>>, unsettled |-> FALSE]
    /\ drv = [ptr |-> 0, left |-> 0, rows |-> 0, len |-> 0]
    /\ cpu = [pc |-> "idle", asked |-> <<>>, ret |-> "none"]
    /\ left = FullBounds /\ hist = <<>>

AdmNext == AdmCall \/ adm_transfer_mmc_data \/ adm_transfer_start \/ AdmChannel

-----------------------------------------------------------------------------
(* The crypto engine: data in segments, each with the state left by the    *)
(* one before it.  The two engines differ in their registers, and in that  *)
(* the newer one is first switched to register use by the secure world.    *)

\* A digest over n bytes starts with a context of its own.
do_sha(n) == [drv EXCEPT !.size = n, !.written = 0, !.first = TRUE, !.iv = <<>>, !.bytecnt = 0]

\* crypto_init resets the engine only once; the context is started anew.
hash_find ==
    /\ At("crypto", "idle") /\ Takes("jobs")
    /\ \E n \in Images : cpu' = Begins("set", Bytes(0, n)) /\ drv' = do_sha(n)
    /\ hw' = IF drv.init_done THEN [hw EXCEPT !.seen = <<>>]
             ELSE [hw EXCEPT !.seen = <<>>, !.state = "idle", !.fifo = <<>>]
    /\ UNCHANGED <<part, hist>>

\* The length of the next segment.
do_sha_update == Min({CeSegment, drv.size - drv.written})

\* The engine starts the segment from the saved state and byte count, from the
\* initial ones if this is the first.
crypto_set_sha_ctx ==
    /\ At("crypto", "set")
    /\ LET n == do_sha_update IN
       /\ drv' = [drv EXCEPT !.tmp = n, !.sent = 0, !.init_done = TRUE]
       /\ hw' = [hw EXCEPT !.state = "go", !.want = n, !.iv = IF drv.first THEN <<>> ELSE drv.iv,
                           !.last = n = drv.size - drv.written]
    /\ cpu' = [cpu EXCEPT !.pc = "send"]
    /\ Stay

CeError == hw' = [hw EXCEPT !.state = "idle", !.fifo = <<>>] /\ Return("fail") /\ UNCHANGED drv

\* Whole words are written when the engine can take one.  A rest shorter than
\* a word is written only if the engine can take it at that very moment, and
\* left out without an error if it cannot.
crypto_send_data ==
    /\ At("crypto", "send")
    /\ LET rest == drv.tmp - drv.sent
           n    == Min({CeWord, rest})
           word == Bytes(drv.written + drv.sent, n)
       IN  \/ hw.state = "error" /\ rest > 0 /\ CeError /\ UNCHANGED left
           \/ /\ hw.state # "error" /\ rest > 0 /\ hw.fifo = <<>>
              /\ hw' = [hw EXCEPT !.fifo = word]
              /\ drv' = [drv EXCEPT !.sent = @ + n]
              /\ UNCHANGED <<cpu, left>>
           \/ /\ rest = 0 \/ (hw.state # "error" /\ rest < CeWord /\ hw.fifo # <<>>)
              /\ cpu' = [cpu EXCEPT !.pc = "digest"] /\ UNCHANGED <<hw, drv, left>>
    /\ UNCHANGED <<part, hist>>

\* Waits for the engine; the digest so far is kept for the next segment.
crypto_get_digest ==
    /\ At("crypto", "digest")
    /\ \/ hw.state = "error" /\ CeError
       \/ /\ hw.state = "done"
          /\ drv' = [drv EXCEPT !.iv = hw.iv, !.bytecnt = Len(hw.iv), !.written = @ + drv.tmp,
                                !.first = FALSE]
          /\ IF drv.written + drv.tmp = drv.size
             THEN Return("ok") /\ hw' = [hw EXCEPT !.state = "idle", !.seen = hw.iv]
             ELSE cpu' = [cpu EXCEPT !.pc = "set"] /\ hw' = [hw EXCEPT !.state = "idle"]
    /\ Stay

\* External: the engine absorbs a word, and is done with the segment's last.
CryptoEngine ==
    /\ part.kind = "crypto" /\ hw.state = "go"
    /\ \/ /\ hw.fifo # <<>>
          /\ LET k == Len(hw.fifo) IN
             hw' = [hw EXCEPT !.fifo = <<>>, !.iv = @ \o hw.fifo, !.want = @ - k,
                              !.state = IF hw.want = k THEN "done" ELSE "go"]
          /\ UNCHANGED left
       \/ Takes("faults") /\ hw' = [hw EXCEPT !.state = "error"]
    /\ UNCHANGED <<part, drv, cpu, hist>>

CryptoInit ==
    /\ part \in [kind : {"crypto"}, ce : {3, 4}]
    /\ hw = [state |-> "idle", fifo |-> <<>>, want |-> 0, iv |-> <<>>, last |-> FALSE,
             seen |-> <<>>, unsettled |-> FALSE]
    /\ drv = [init_done |-> FALSE, size |-> 0, written |-> 0, first |-> TRUE, iv |-> <<>>,
              bytecnt |-> 0, tmp |-> 0, sent |-> 0]
    /\ cpu = [pc |-> "idle", asked |-> <<>>, ret |-> "none"]
    /\ left = FullBounds /\ hist = <<>>

\* Engine 3, and engine 4: other registers, the same three steps.
Ce3 == /\ part.kind = "crypto" /\ part.ce = 3
       /\ crypto_set_sha_ctx \/ crypto_send_data \/ crypto_get_digest

crypto4_set_sha_ctx == part.kind = "crypto" /\ part.ce = 4 /\ crypto_set_sha_ctx
crypto4_send_data   == part.kind = "crypto" /\ part.ce = 4 /\ crypto_send_data
crypto4_get_digest  == part.kind = "crypto" /\ part.ce = 4 /\ crypto_get_digest

CryptoNext == \/ hash_find \/ Ce3 \/ crypto4_set_sha_ctx \/ crypto4_send_data \/ crypto4_get_digest
              \/ CryptoEngine

-----------------------------------------------------------------------------

CoproInit == PcomInit \/ ScmInit \/ AdmInit \/ CryptoInit

CoproNext == PcomNext \/ ScmNext \/ AdmNext \/ CryptoNext

\* The processor runs, and so do the modem, the secure world and the engines.
CoproCode ==
    \/ PcomSend \/ notify_other_proc_comm \/ PcomDone \/ smc \/ ScmResponse
    \/ adm_transfer_mmc_data \/ adm_transfer_start
    \/ crypto_set_sha_ctx \/ crypto_send_data \/ crypto_get_digest

CoproHardware == Modem \/ SecureWorld \/ AdmChannel \/ CryptoEngine
=============================================================================
