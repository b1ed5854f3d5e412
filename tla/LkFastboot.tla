----------------------------- MODULE LkFastboot -----------------------------
(***************************************************************************)
(* The fastboot protocol thread of aboot (fastboot.c) over the MSM high     *)
(* speed USB device controller (hsusb.c).  Three parties run: the thread,  *)
(* the controller's interrupt (which the thread cannot interrupt), and the *)
(* bus with the host behind it.  The thread owns ONE transfer request for  *)
(* both directions and waits for it on one event; the control endpoint has *)
(* a request of its own that every SETUP packet reuses, queue item and all.*)
(***************************************************************************)
EXTENDS LkDevice, Sequences, FiniteSets

CONSTANTS
    Commands,     \* names of the commands the host may send
    Lengths,      \* lengths it may announce in a download command
    Bulk,         \* MAX_USBFS_BULK_SIZE, in units of data
    MaxDownload,  \* download_max
    MaxSetups     \* control transfers the host starts

ASSUME TransferSizes == Bulk \in Nat /\ Lengths \subseteq Nat

\* The places in ept_list, newest first: the interrupt serves them in this order.
ept_list == [out |-> 1, in |-> 2, ep0in |-> 3, ep0out |-> 4]
Endpoints == {"out", "in", "ep0in", "ep0out"}
BulkEpts == {"in", "out"}

\* The interrupt works on the three records together.
Machine == [hw |-> hw, drv |-> drv, cpu |-> cpu]

Becomes(x) == \E y \in {x} : hw' = y.hw /\ drv' = y.drv /\ cpu' = y.cpu

\* The machine with the thread at c, and a step of the thread alone.
On(c) == [Machine EXCEPT !.cpu = c]
ThreadStep(c) == cpu' = c /\ UNCHANGED <<hw, drv>>

-----------------------------------------------------------------------------
(* Requests.                                                               *)

\* Makes the request's item active, links it to the endpoint and primes it:
\* whatever the endpoint was doing is replaced.
udc_request_queue(x, e, r) ==
    [x EXCEPT !.hw.item[r] = "active", !.hw.primed = @ \cup {e}, !.drv.req[e] = r]

\* fastboot.c: the completion callback of the thread's request.
req_complete(x, actual, ok) ==
    [x EXCEPT !.cpu.ok = ok, !.cpu.len = actual, !.cpu.txn_done = TRUE]

setup_ack(x) == udc_request_queue([x EXCEPT !.drv.ep0cb = "ack"], "ep0in", "ep0")

setup_tx(x) == udc_request_queue([x EXCEPT !.drv.ep0cb = "tx"], "ep0in", "ep0")

\* The data stage went out: receive the status stage.
ep0in_complete(x, ok) ==
    IF ok THEN udc_request_queue([x EXCEPT !.drv.ep0cb = "none"], "ep0out", "ep0")
          ELSE x

\* The acknowledgement went out: only now does a test mode start.
ep0_setup_ack_complete(x) == [x EXCEPT !.hw.testing = x.drv.test_mode]

\* Mutant: the completed request stays linked to its endpoint.
CompleteKeepsLink(x, e) ==
    LET r  == x.drv.req[e]
        ok == r # "none" /\ x.hw.item[r] = "done"
    IN  CASE r = "none" -> x
          [] r = "main" -> req_complete(x, IF ok THEN x.hw.moved[e] ELSE 0, ok)
          [] OTHER -> CASE x.drv.ep0cb = "tx"  -> ep0in_complete(x, ok)
                        [] x.drv.ep0cb = "ack" -> ep0_setup_ack_complete(x)
                        [] OTHER -> x

\* Completes the request linked to endpoint e, if there is one.  The caller
\* has waited for its ACTIVE bit to clear.
handle_ept_complete(x, e) ==
    LET r  == x.drv.req[e]
        y  == [x EXCEPT !.drv.req[e] = "none"]
        ok == r # "none" /\ x.hw.item[r] = "done"
    IN  CASE r = "none" -> x
          [] r = "main" -> req_complete(y, IF ok THEN x.hw.moved[e] ELSE 0, ok)
          [] OTHER -> CASE x.drv.ep0cb = "tx"  -> ep0in_complete(y, ok)
                        [] x.drv.ep0cb = "ack" -> ep0_setup_ack_complete(y)
                        [] OTHER -> y

-----------------------------------------------------------------------------
(* SETUP packets.                                                          *)

\* get: a descriptor, the status or the configuration, and it exists.
\* bad: any request the switch answers with a stall, SET_INTERFACE included.
\* in, out: CLEAR_FEATURE of that endpoint.
Setups == {"get", "bad", "address", "config0", "config1", "feature", "in", "out"}

\* Enables endpoint e.  Its packet size, which is the bus speed's at that
\* moment, is left out.
endpoint_enable(x, e) == [x EXCEPT !.hw.enabled = @ \cup {e}]

\* fastboot.c: only ONLINE is of interest to the gadget.
fastboot_notify(x, event) ==
    IF event = "online" THEN [x EXCEPT !.cpu.usb_online = TRUE] ELSE x

handle_setup(x0) ==
    LET s == x0.hw.setup
        x == [x0 EXCEPT !.hw.setup = "none"]
    IN  CASE s = "get"      -> setup_tx(x)
          [] s = "config1"  -> setup_ack([fastboot_notify(endpoint_enable(endpoint_enable(x,
                                   "out"), "in"), "online")
                                   EXCEPT !.drv.config = 1, !.drv.online = TRUE])
          [] s = "config0"  -> setup_ack([fastboot_notify(x, "offline")
                                   EXCEPT !.hw.enabled = {},
                                          !.drv.config = 0, !.drv.online = FALSE])
          [] s = "address"  -> setup_ack(x)
          [] s = "feature"  -> setup_ack([x EXCEPT !.drv.test_mode = TRUE])
          [] s \in BulkEpts -> setup_ack(endpoint_enable(x, s))
          [] OTHER          -> [x EXCEPT !.hw.stalled = TRUE]

-----------------------------------------------------------------------------
(* The interrupt.  It starts with one atomic part (status, bus reset, port *)
(* change, SETUP) and then serves the endpoints in list order; before each *)
(* it may have to wait, with the whole CPU, for the item's ACTIVE bit.     *)

\* A pending request fails.
ErrorEpt(x, e) ==
    IF x.drv.req[e] = "none" THEN x
    ELSE handle_ept_complete([x EXCEPT !.hw.item[x.drv.req[e]] = "halted"], e)

\* Every pending request fails, in list order.
ErrorOut(x) == ErrorEpt(ErrorEpt(ErrorEpt(ErrorEpt(x, "out"), "in"), "ep0in"), "ep0out")

BusReset(x) ==
    ErrorOut(fastboot_notify(
        [x EXCEPT !.hw.complete = {}, !.hw.setup = "none", !.hw.primed = {},
                  !.hw.enabled = {}, !.drv.online = FALSE, !.drv.config = 0], "offline"))

udc_interrupt ==
    /\ part.kind = "fastboot"
    /\ hw.running /\ hw.sts # {} /\ ~cpu.inirq
    /\ LET x1 == [Machine EXCEPT !.hw.sts = {}]
           x2 == IF "URI" \in hw.sts THEN BusReset(x1) ELSE x1
           x3 == IF "UI" \in hw.sts /\ x2.hw.setup # "none" THEN handle_setup(x2) ELSE x2
           n  == IF "UI" \in hw.sts THEN x3.hw.complete ELSE {}
       IN  Becomes([x3 EXCEPT !.hw.complete = @ \ n,
                              !.cpu.inirq = TRUE,
                              !.cpu.epts = n])
    /\ UNCHANGED <<part, left, hist>>

NextEpt(e) == \A f \in cpu.epts : ept_list[e] <= ept_list[f]

\* The controller still works on the request linked to endpoint e.
Active(e) == drv.req[e] # "none" /\ hw.item[drv.req[e]] = "active"

\* Serves the next endpoint of the interrupt.
ServeEndpoint ==
    /\ part.kind = "fastboot"
    /\ cpu.inirq
    /\ \/ /\ cpu.epts = {}
          /\ ThreadStep([cpu EXCEPT !.inirq = FALSE])
       \/ \E e \in cpu.epts :
             /\ NextEpt(e) /\ ~Active(e)
             /\ Becomes(handle_ept_complete(On([cpu EXCEPT !.epts = @ \ {e}]), e))
    /\ UNCHANGED <<part, left, hist>>

-----------------------------------------------------------------------------
(* The thread.                                                             *)

Runs(pc) == /\ part.kind = "fastboot" /\ cpu.pc = pc /\ ~cpu.inirq
            /\ UNCHANGED <<part, left>>

\* What the handler of a command found in the list sends, in order: every
\* path through the cmd_ functions of aboot.c and cmd_getvar.  A flash
\* command may fail without a word (an image that does not decrypt), and
\* reports a short sparse image as a failure AND a success.
Replies(c) ==
    CASE c = "flash"    -> {<<"OKAY">>, <<"FAIL">>, <<"FAIL", "OKAY">>, <<>>}
      [] c = "devinfo"  -> {<<"INFO", "INFO", "OKAY">>}
      [] c = "boot"     -> {<<"OKAY", "stop">>, <<"FAIL">>}
      [] c = "continue" -> {<<"OKAY", "stop">>}
      [] OTHER          -> {<<"OKAY">>}

\* Sends a message / asks for n units; the thread then waits for txn_done
\* and goes on at program point "then".
usb_write(m, then) ==
    Becomes(udc_request_queue(
        On([cpu EXCEPT !.msg = m, !.pc = "wait", !.then = then]), "in", "main"))

usb_read(n, then) ==
    Becomes(udc_request_queue(
        On([cpu EXCEPT !.asked = n, !.pc = "wait", !.then = then]), "out", "main"))

Goto(pc) == ThreadStep([cpu EXCEPT !.pc = pc])

\* aboot_init's last steps: udc_init, fastboot_init (endpoints, request,
\* gadget, commands, thread) and udc_start, which lets the controller run.
udc_start ==
    /\ Runs("off")
    /\ hw' = [hw EXCEPT !.running = TRUE]
    /\ cpu' = [cpu EXCEPT !.pc = "online?"]
    /\ UNCHANGED <<drv, hist>>

fastboot_handler ==
    /\ Runs("online?") /\ cpu.usb_online
    /\ ThreadStep([cpu EXCEPT !.usb_online = FALSE, !.pc = "loop"])
    /\ UNCHANGED hist

\* Top of the loop: the next command, unless the last one ended in an error.
fastboot_command_loop ==
    /\ Runs("loop")
    /\ IF cpu.state = "ERROR"
       THEN ThreadStep([cpu EXCEPT !.state = "OFFLINE", !.pc = "online?"])
       ELSE usb_read(1, "command")
    /\ UNCHANGED hist

\* event_wait(&txn_done) returns; a failed transfer is an error of the link.
TxnDone ==
    /\ Runs("wait") /\ cpu.txn_done
    /\ ThreadStep([cpu EXCEPT !.txn_done = FALSE,
                              !.pc = IF cpu.ok THEN cpu.then ELSE "loop",
                              !.state = IF cpu.ok THEN @ ELSE "ERROR"])
    /\ UNCHANGED hist

\* Looks the command up and calls its handler.  "unknown" is in no list: its
\* fastboot_fail finds the state not to be COMMAND and sends nothing.
Dispatch ==
    /\ Runs("command")
    /\ LET c == hw.buffer.cmd IN
       \/ /\ c = "unknown"
          /\ Goto("loop")
       \/ /\ c = "download"
          /\ ThreadStep([cpu EXCEPT !.state = "COMMAND", !.pc = "download",
                                    !.want = hw.buffer.len, !.got = 0])
       \/ /\ c \notin {"unknown", "download"}
          /\ \E r \in Replies(c) :
                ThreadStep([cpu EXCEPT !.state = "COMMAND", !.pc = "handler", !.replies = r])
    /\ UNCHANGED hist

\* Mutant: an answer goes out whatever the state.
AckAlways(m, then) ==
    usb_write(m, then)

\* fastboot_okay, fastboot_fail: only the first answer to a command is sent.
fastboot_ack(m, then) ==
    IF cpu.state # "COMMAND" THEN Goto(then)
    ELSE Becomes(udc_request_queue(
            On([cpu EXCEPT !.state = "COMPLETE", !.msg = m, !.pc = "wait", !.then = then]),
            "in", "main"))

fastboot_info(then) ==
    IF cpu.state # "COMMAND" THEN Goto(then) ELSE usb_write("INFO", then)

\* A handler sends its next reply; after a failed one the rest is dropped by
\* the state, which is ERROR then.
Handler ==
    /\ Runs("handler") /\ cpu.replies # <<>>
    /\ LET m == Head(cpu.replies) IN
       \/ /\ m = "stop"
          /\ hw' = [hw EXCEPT !.running = FALSE]
          /\ cpu' = [cpu EXCEPT !.pc = "booting"]
          /\ UNCHANGED drv
       \/ /\ m = "INFO"
          /\ fastboot_info("next")
       \/ /\ m \in {"OKAY", "FAIL"}
          /\ fastboot_ack(m, "next")
    /\ UNCHANGED hist

NextReply ==
    /\ Runs("next")
    /\ ThreadStep([cpu EXCEPT !.replies = Tail(@), !.pc = "handler"])
    /\ UNCHANGED hist

\* Mutant: a handler that said nothing leaves the host without an answer.
NoLastResort ==
    /\ Runs("handler") /\ cpu.replies = <<>>
    /\ Goto("loop")
    /\ UNCHANGED hist

\* The handler returned: one that has not answered gets "unknown reason".
HandlerReturned ==
    /\ Runs("handler") /\ cpu.replies = <<>>
    /\ IF cpu.state = "COMMAND" THEN fastboot_ack("FAIL", "loop") ELSE Goto("loop")
    /\ UNCHANGED hist

\* download: forget the last download, announce DATA, then read it in pieces
\* until it is complete or a piece is short.
cmd_download ==
    /\ \/ /\ Runs("download")
          /\ IF cpu.want > MaxDownload
             THEN ThreadStep([cpu EXCEPT !.size = 0, !.pc = "handler", !.replies = <<"FAIL">>])
             ELSE Becomes(udc_request_queue(
                    On([cpu EXCEPT !.size = 0, !.msg = "DATA", !.pc = "wait", !.then = "data"]),
                    "in", "main"))
       \/ /\ Runs("data")
          /\ IF cpu.got < cpu.want
             THEN usb_read(IF cpu.want - cpu.got > Bulk THEN Bulk ELSE cpu.want - cpu.got,
                           "piece")
             ELSE ThreadStep([cpu EXCEPT !.size = cpu.want, !.pc = "handler", !.replies = <<"OKAY">>])
       \/ /\ Runs("piece")
          /\ LET got == cpu.got + cpu.len IN
             IF cpu.len # cpu.asked
             THEN ThreadStep([cpu EXCEPT !.got = got, !.pc = "loop", !.state = "ERROR"])
             ELSE ThreadStep([cpu EXCEPT !.got = got, !.pc = "data"])
    /\ UNCHANGED hist

-----------------------------------------------------------------------------
(* The bus and the host.                                                   *)

Quiet == UNCHANGED <<part, drv, cpu>>

\* The controller finishes the transfer primed at endpoint e.
Moved(h, e, n) ==
    [h EXCEPT !.primed = @ \ {e}, !.item[drv.req[e]] = "done", !.moved[e] = n,
              !.complete = @ \cup {e}, !.sts = @ \cup {"UI"}]

CanMove(e) == /\ part.kind = "fastboot" /\ hw.running /\ "URI" \notin hw.sts
              /\ e \in hw.primed /\ Active(e)
              /\ e \in BulkEpts => e \in hw.enabled

\* The host starts a control transfer; it may give up an earlier one for it.
HostSetup ==
    /\ part.kind = "fastboot" /\ hw.running /\ "URI" \notin hw.sts /\ hw.setup = "none"
    /\ \E s \in Setups :
          hw' = [hw EXCEPT !.setup = s, !.sts = @ \cup {"UI"}, !.stalled = FALSE]
    /\ Takes("events")
    /\ Quiet /\ UNCHANGED hist

\* It collects the data or the acknowledgement, or sends the status stage.
HostControl ==
    /\ \E e \in {"ep0in", "ep0out"} : CanMove(e) /\ hw' = Moved(hw, e, 0)
    /\ Quiet /\ UNCHANGED <<left, hist>>

\* It sends a command when the last one was answered, one at a time.
HostCommand ==
    /\ CanMove("out") /\ hw.phase = "idle" /\ cpu.then = "command"
    /\ \E c \in Commands : \E n \in IF c = "download" THEN Lengths ELSE {0} :
          hw' = [Moved(hw, "out", 1) EXCEPT !.phase = "sent", !.buffer = [cmd |-> c, len |-> n]]
    /\ Takes("jobs")
    /\ hist' = [hist EXCEPT !.owed = @ + 1, !.cmdsess = hist.sess]
    /\ Quiet

\* It takes the message at the IN endpoint.
HostAnswer ==
    /\ CanMove("in")
    /\ LET final == cpu.msg \in {"OKAY", "FAIL"} IN
       /\ hw' = [Moved(hw, "in", 1) EXCEPT !.phase =
                    CASE final -> "idle" [] cpu.msg = "DATA" -> "data" [] OTHER -> @]
       /\ hist' = IF final
                  THEN [hist EXCEPT !.owed = IF @ = 0 THEN 0 ELSE @ - 1,
                                    !.extra = @ \/ (hist.owed = 0 /\ hist.cmdsess = hist.sess)]
                  ELSE hist
    /\ Quiet /\ UNCHANGED left

\* It sends a piece of the download; at a fault only part of it.
HostData ==
    /\ CanMove("out") /\ hw.phase = "data" /\ cpu.then = "piece"
    /\ \/ /\ hw' = [Moved(hw, "out", cpu.asked) EXCEPT !.phase =
                       IF cpu.got + cpu.asked = cpu.want THEN "sent" ELSE "data"]
          /\ UNCHANGED <<left, hist>>
       \/ /\ Takes("faults")
          /\ \E n \in 0..(cpu.asked - 1) :
                hw' = [Moved(hw, "out", n) EXCEPT !.phase = "gaveup"]
          /\ UNCHANGED hist
    /\ Quiet

\* The bus is reset; the host starts over.
HostReset ==
    /\ part.kind = "fastboot" /\ hw.running /\ hist.sess < MaxFaults
    /\ hw' = [hw EXCEPT !.sts = @ \cup {"URI", "PCI"}, !.phase = "idle"]
    /\ hist' = [hist EXCEPT !.sess = @ + 1, !.owed = 0]
    /\ Quiet /\ UNCHANGED left

-----------------------------------------------------------------------------
FastbootInit ==
    /\ part = [kind |-> "fastboot"]
    /\ hw = [running |-> FALSE, sts |-> {}, setup |-> "none", complete |-> {},
             primed |-> {}, item |-> [r \in {"main", "ep0"} |-> "idle"], enabled |-> {},
             moved |-> [e \in Endpoints |-> 0], testing |-> FALSE, stalled |-> FALSE,
             buffer |-> [cmd |-> "none", len |-> 0], phase |-> "idle"]
    /\ drv = [req |-> [e \in Endpoints |-> "none"], ep0cb |-> "none", config |-> 0,
              online |-> FALSE, test_mode |-> FALSE]
    /\ cpu = [pc |-> "off", then |-> "none", inirq |-> FALSE, epts |-> {},
              state |-> "OFFLINE", ok |-> TRUE, len |-> 0, txn_done |-> FALSE,
              usb_online |-> FALSE, msg |-> "none", replies |-> <<>>,
              asked |-> 0, want |-> 0, got |-> 0, size |-> 0]
    /\ left = [FullBounds EXCEPT !.events = MaxSetups]
    /\ hist = [sess |-> 0, cmdsess |-> 0, owed |-> 0, extra |-> FALSE]

FastbootThread ==
    \/ udc_start \/ fastboot_handler \/ fastboot_command_loop \/ TxnDone \/ Dispatch
    \/ Handler \/ NextReply \/ HandlerReturned \/ cmd_download

FastbootNext ==
    \/ FastbootThread \/ udc_interrupt \/ ServeEndpoint
    \/ HostSetup \/ HostControl \/ HostCommand \/ HostAnswer \/ HostData \/ HostReset

FastbootSpec == FastbootInit /\ [][FastbootNext]_vars

ThreadReady == /\ part.kind = "fastboot" /\ ~cpu.inirq
               /\ cpu.pc # "booting"
               /\ cpu.pc = "online?" => cpu.usb_online
               /\ cpu.pc = "wait" => cpu.txn_done
IrqReady == part.kind = "fastboot" /\ hw.running /\ hw.sts # {} /\ ~cpu.inirq
ServeReady == /\ part.kind = "fastboot" /\ cpu.inirq
              /\ \A e \in cpu.epts : ~(NextEpt(e) /\ Active(e))
DataReady == CanMove("out") /\ hw.phase = "data" /\ cpu.then = "piece"

\* The thread is scheduled, interrupts are delivered, and a host that started
\* a transfer goes on with it: weak fairness, its enabling conditions spelt out.
\* An action that disables itself needs no more than that its condition does
\* not last for ever: udc_interrupt, HostControl, HostAnswer and HostData.
FastbootFairness ==
    /\ []<>(~ThreadReady)    \/ []<><<FastbootThread>>_vars
    /\ []<>(~ServeReady)     \/ []<><<ServeEndpoint>>_vars
    /\ []<>(~IrqReady) /\ []<>(~DataReady)
    /\ \A e \in {"ep0in", "ep0out", "in"} : []<>(~CanMove(e))

-----------------------------------------------------------------------------
(* Properties.                                                             *)

\* txn_done is an auto-unsignal event shared by both directions.  It is only
\* ever signalled for the transfer the thread is waiting for: when it is set
\* the thread is in event_wait and its request hangs at no endpoint, so a
\* later wait cannot be ended by an earlier transfer, bus resets included.
CompletionIsCurrent ==
    part.kind = "fastboot" =>
        /\ cpu.txn_done => cpu.pc = "wait" /\ \A e \in BulkEpts : drv.req[e] = "none"
        /\ \A e \in BulkEpts : drv.req[e] # "none" => cpu.pc = "wait" /\ ~cpu.txn_done

\* fastboot_ack's state check: within one bus session the host never reads
\* more final answers than it sent commands, though handlers call
\* fastboot_fail and then fastboot_okay.
OneAnswer == part.kind = "fastboot" => ~hist.extra

\* A command that some prefix matches is answered, or the bus is reset, or the
\* host cut its own download short: "unknown reason" covers silent handlers.
\* Holds while no SETUP packet disables the endpoints under the thread.
CommandAnswered ==
    (part.kind = "fastboot" /\ hw.phase = "sent" /\ hw.buffer.cmd # "unknown")
        ~> (\/ part.kind # "fastboot" \/ hw.phase \in {"idle", "gaveup"}
            \/ BulkEpts \notin SUBSET hw.enabled)
=============================================================================
