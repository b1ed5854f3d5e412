------------------------------- MODULE LkUsbc -------------------------------
(***************************************************************************)
(* The OMAP3 USB device controller driver (usbc.c): one transfer per        *)
(* endpoint and direction, moved a packet at a time by the interrupt, with *)
(* the endpoint's interrupt enabled only while a transfer is queued.  Bus   *)
(* resets and disconnects cancel what is queued.  Lengths are counted in    *)
(* packets of the endpoint's blocksize (64 bytes on endpoint 0).            *)
(***************************************************************************)
EXTENDS LkDevice, FiniteSets

CONSTANT MaxPackets   \* longest transfer

ASSUME PacketBound == MaxPackets \in Nat

None == [pos |-> 0, len |-> 0]
Queued(t) == t.len > 0
Ends == {"in", "out"}

Both == [hw |-> hw, drv |-> drv, cpu |-> cpu, hist |-> hist]
Update(x) == \E y \in {x} : hw' = y.hw /\ drv' = y.drv /\ cpu' = y.cpu /\ hist' = y.hist

\* A DEBUG_ASSERT that fails stops the machine.
DebugAssert(x, holds, y) == IF holds THEN y ELSE [x EXCEPT !.cpu.pc = "panic"]

\* The endpoint's callback takes the transfer back.
Callback(x, e) == [x EXCEPT !.hist.back[e] = @ + 1]

-----------------------------------------------------------------------------
(* Endpoint 0.                                                             *)

\* The first packet of n; the position is kept if there are more.
usbc_ep0_send(x, n) ==
    [x EXCEPT !.hw.ep0full = TRUE, !.drv.ep0tx = IF n > 1 THEN [pos |-> 1, len |-> n] ELSE None]

ep0_control_send_resume(x) ==
    LET t == [x.drv.ep0tx EXCEPT !.pos = @ + 1]
    IN  DebugAssert(x, x.drv.ep0tx.len > x.drv.ep0tx.pos,
            [x EXCEPT !.hw.ep0full = TRUE, !.drv.ep0tx = IF t.pos >= t.len THEN None ELSE t])

\* Gives every endpoint its FIFO again: the FIFOs are flushed.
setup_dynamic_fifos(x) == [x EXCEPT !.hw.txfull = FALSE, !.hw.rxpkt = "none"]

\* A SETUP packet.  The class driver answers GET_DESCRIPTOR with n packets.
SetupMsg(x0) ==
    LET s == x0.hw.setup
        x == [x0 EXCEPT !.hw.setup = [req |-> "none", n |-> 0]]
    IN  CASE s.req = "get"     -> usbc_ep0_send(x, s.n)
          [] s.req = "address" -> [x EXCEPT !.drv.state = IF s.n = 0 THEN "DEFAULT" ELSE "ADDRESS"]
          [] s.req = "config"  ->
                setup_dynamic_fifos(
                    [x EXCEPT !.drv.active_config = s.n,
                              !.drv.state = IF s.n # 0 THEN "CONFIGURED"
                                            ELSE IF @ = "CONFIGURED" THEN "ADDRESS" ELSE @])

\* Setup end (the host gave up the data stage), more data to send, and then
\* the next SETUP packet.
Ep0Interrupt(x) ==
    LET ended == x.hw.setupend
        x1 == IF ~Queued(x.drv.ep0tx) THEN x
              ELSE IF ended THEN [x EXCEPT !.drv.ep0tx = None]
              ELSE ep0_control_send_resume(x)
        x2 == [x1 EXCEPT !.hw.setupend = FALSE]
    IN  IF x2.hw.setup.req # "none" /\ x2.cpu.pc # "panic" THEN SetupMsg(x2) ELSE x2

-----------------------------------------------------------------------------
(* Transfers.                                                              *)

\* Mutant: a cancelled transfer stays queued.
ShutdownKeeps(x) ==
    LET Cancel(y, e) == IF Queued(y.drv.ep[e]) THEN Callback(y, e) ELSE y
    IN  [Cancel(Cancel(x, "in"), "out") EXCEPT !.drv.ep0tx = None]

usb_shutdown_endpoints(x) ==
    LET Cancel(y, e) == IF Queued(y.drv.ep[e])
                        THEN Callback([y EXCEPT !.drv.ep[e] = None], e) ELSE y
    IN  [Cancel(Cancel(x, "in"), "out") EXCEPT !.drv.ep0tx = None]

\* A disconnect leaves the endpoint interrupts enabled.
usb_disconnect(x) ==
    usb_shutdown_endpoints([x EXCEPT !.drv.state = "DEFAULT", !.drv.active_config = 0])

\* A reset disables the endpoint interrupts and leaves the state.
usb_reset(x) == usb_shutdown_endpoints([x EXCEPT !.hw.enabled = {}])

\* One packet received: the transfer ends when it is full or the packet short.
handle_ep_rx(x) ==
    LET t == x.drv.ep["out"]
        y == [x EXCEPT !.hw.rxpkt = "none"]
    IN  DebugAssert(x, Queued(t),
            IF x.hw.rxpkt = "short" \/ t.pos + 1 >= t.len
            THEN Callback([y EXCEPT !.drv.ep["out"] = None, !.hw.enabled = @ \ {"out"}], "out")
            ELSE [y EXCEPT !.drv.ep["out"].pos = @ + 1])

\* A packet was sent: the next one, or the transfer is done.
TxInterrupt(x) ==
    LET t == x.drv.ep["in"]
    IN  DebugAssert(x, Queued(t),
            IF t.pos < t.len
            THEN [x EXCEPT !.drv.ep["in"].pos = @ + 1, !.hw.txfull = TRUE]
            ELSE Callback([x EXCEPT !.drv.ep["in"] = None, !.hw.enabled = @ \ {"in"}], "in"))

\* Reading the status registers clears them; the endpoint bits are masked
\* only after the bus events have been handled.
hsusb_interrupt ==
    /\ part.kind = "usbc" /\ cpu.pc = "run"
    /\ hw.usb # {} \/ "ep0" \in hw.irq \/ hw.irq \cap hw.enabled # {}
    /\ LET x0 == [Both EXCEPT !.hw.irq = {}, !.hw.usb = {}]
           x1 == IF "reset" \in hw.usb THEN usb_reset(x0) ELSE x0
           x2 == IF "disconnect" \in hw.usb THEN usb_disconnect(x1) ELSE x1
           x3 == IF "ep0" \in hw.irq THEN Ep0Interrupt(x2) ELSE x2
           on == hw.irq \cap x3.hw.enabled
           x4 == IF "in" \in on /\ x3.cpu.pc # "panic" THEN TxInterrupt(x3) ELSE x3
           x5 == IF "out" \in on /\ x4.hw.rxpkt # "none" /\ x4.cpu.pc # "panic"
                 THEN handle_ep_rx(x4) ELSE x4
       IN  Update(x5)
    /\ UNCHANGED <<part, left>>

\* The class driver queues a transfer of n packets; each is a whole critical
\* section.  A packet that waits already is taken at once.
usbc_queue_rx ==
    /\ part.kind = "usbc" /\ cpu.pc = "run" /\ ~Queued(drv.ep["out"])
    /\ drv.state = "CONFIGURED"
    /\ \E n \in 1..MaxPackets :
          LET x == [Both EXCEPT !.drv.ep["out"] = [pos |-> 0, len |-> n],
                                !.hist.given["out"] = @ + 1]
              y == handle_ep_rx(x)
          IN  Update(IF hw.rxpkt # "none" /\ ~Queued(y.drv.ep["out"]) THEN y
                     ELSE [(IF hw.rxpkt # "none" THEN y ELSE x) EXCEPT !.hw.enabled = @ \cup {"out"}])
    /\ Takes("jobs") /\ UNCHANGED part

usbc_queue_tx ==
    /\ part.kind = "usbc" /\ cpu.pc = "run" /\ ~Queued(drv.ep["in"])
    /\ drv.state = "CONFIGURED"
    /\ \E n \in 1..MaxPackets :
          LET x == [Both EXCEPT !.hw.enabled = @ \cup {"in"}, !.hist.given["in"] = @ + 1]
          IN  Update([x EXCEPT !.drv.ep["in"] = [pos |-> IF hw.txfull THEN 0 ELSE 1, len |-> n],
                               !.hw.txfull = TRUE])
    /\ Takes("jobs") /\ UNCHANGED part

-----------------------------------------------------------------------------
(* The bus.                                                                *)

UsbcBus(h) == /\ hw' = h
              /\ UNCHANGED <<part, drv, cpu, hist>>

\* A packet leaves, or arrives.
BusPacket ==
    /\ part.kind = "usbc" /\ cpu.pc = "run"
    /\ \/ hw.ep0full /\ UsbcBus([hw EXCEPT !.ep0full = FALSE, !.irq = @ \cup {"ep0"}])
       \/ hw.txfull /\ UsbcBus([hw EXCEPT !.txfull = FALSE, !.irq = @ \cup {"in"}])
       \/ /\ drv.state = "CONFIGURED" /\ hw.rxpkt = "none"
          /\ \E p \in {"full", "short"} :
                UsbcBus([hw EXCEPT !.rxpkt = p, !.irq = @ \cup {"out"}])
    /\ UNCHANGED left

\* The host starts a control transfer, giving up one whose data it did not
\* take; the bus is reset, the cable drawn.
BusEvent ==
    /\ part.kind = "usbc" /\ cpu.pc = "run"
    /\ \/ /\ hw.setup.req = "none"
          /\ \E r \in {"get", "address", "config"}, n \in 0..MaxPackets :
                /\ r = "get" => n > 0
                /\ r # "get" => n < 2
                /\ UsbcBus([hw EXCEPT !.setup = [req |-> r, n |-> n], !.irq = @ \cup {"ep0"},
                                      !.setupend = hw.ep0full \/ Queued(drv.ep0tx),
                                      !.ep0full = FALSE])
       \/ \E u \in {"reset", "disconnect"} : UsbcBus([hw EXCEPT !.usb = @ \cup {u}])
    /\ Takes("events")

-----------------------------------------------------------------------------
UsbcInit ==
    /\ part = [kind |-> "usbc"]
    /\ hw = [irq |-> {}, usb |-> {}, enabled |-> {}, setup |-> [req |-> "none", n |-> 0],
             setupend |-> FALSE, ep0full |-> FALSE, txfull |-> FALSE, rxpkt |-> "none"]
    /\ drv = [state |-> "DEFAULT", active_config |-> 0, ep0tx |-> None, ep |-> [e \in Ends |-> None]]
    /\ cpu = [pc |-> "run"]
    /\ left = FullBounds
    /\ hist = [given |-> [e \in Ends |-> 0], back |-> [e \in Ends |-> 0]]

UsbcNext == hsusb_interrupt \/ usbc_queue_rx \/ usbc_queue_tx \/ BusPacket \/ BusEvent

UsbcSpec == UsbcInit /\ [][UsbcNext]_vars

-----------------------------------------------------------------------------
(* Properties.                                                             *)

\* A transfer handed to usbc_queue_rx or usbc_queue_tx comes back through the
\* endpoint's callback exactly once, completed or cancelled, whatever order
\* packets, resets, disconnects and SETUP packets are seen in.
TransferOnce ==
    part.kind = "usbc" =>
        \A e \in Ends : hist.given[e] = hist.back[e] + (IF Queued(drv.ep[e]) THEN 1 ELSE 0)
=============================================================================
