--------------------------- MODULE LkDeviceProofs ---------------------------
(***************************************************************************)
(* Proofs about drivers of the boot loader: interrupts are not lost, the   *)
(* clock does not go back and delays last what they should, and the OMAP3  *)
(* controller gives every transfer back once.                              *)
(***************************************************************************)
EXTENDS LkUsbc, LkIrq, TLAPS

(* What is tried, and for how long, for a leaf that names no prover.       *)
USE SMTT(15), ZenonT(30), SMTT(60)

-----------------------------------------------------------------------------
(* Interrupt controllers.                                                  *)

IrqTyped ==
    /\ IsIrq
    /\ hw \in [on : SUBSET Vectors, latch : SUBSET Vectors, work : SUBSET Vectors,
               cascade : BOOLEAN]
    /\ drv \subseteq Vectors
    /\ cpu \in [pc : {"run", "vector", "handler", "ack"}, v : Vectors \cup {0}]

(* Work announced by an edge is latched, unless its handler is about to    *)
(* run; and the second controller is heard when a vector of it is open,    *)
(* but not all are.                                                        *)
Remembered ==
    /\ Ctl.clear # "after" =>
         \A v \in hw.work \cap Ctl.edge : v \in hw.latch \/ (cpu.pc = "handler" /\ cpu.v = v)
    /\ hw.on \cap Ctl.slaves # {} /\ ~(Ctl.slaves \subseteq hw.on) => hw.cascade

IrqInv == IrqTyped /\ Remembered

LEMMA IrqStart == IrqInit => IrqInv
  BY DEF IrqInit, IrqInv, IrqTyped, Remembered, IsIrq

(* enable of pc/interrupts.c leaves the second controller heard.           *)
LEMMA CascadeHeard ==
    ASSUME hw.cascade \in BOOLEAN, NEW v, NEW on,
           v \notin Ctl.slaves =>
               (on \cap Ctl.slaves # {} /\ ~(Ctl.slaves \subseteq on) => hw.cascade)
    PROVE  /\ Cascade(v, on) \in BOOLEAN
           /\ on \cap Ctl.slaves # {} /\ ~(Ctl.slaves \subseteq on) => Cascade(v, on)
  BY Zenon DEF Cascade

LEMMA IrqStep == IrqInv /\ [IrqNext]_vars => IrqInv'
  <1> SUFFICES ASSUME IrqInv, [IrqNext]_vars PROVE IrqInv'
    OBVIOUS
  <1> USE DEF IrqInv, IrqTyped
  <1>1. CASE DeviceEvent
    <2>1. part' = part /\ drv' = drv /\ cpu' = cpu
      BY Zenon, <1>1 DEF DeviceEvent
    <2>2. PICK v \in drv : hw' = [hw EXCEPT !.work = @ \cup {v},
                                            !.latch = IF v \in Ctl.edge THEN @ \cup {v} ELSE @]
      BY Zenon, <1>1 DEF DeviceEvent
    <2>3. IrqTyped'
      BY ZenonT(30), <2>1, <2>2 DEF IsIrq
    <2>4. Remembered'
      BY <2>1, <2>2 DEF Remembered, Ctl
    <2> QED BY <2>3, <2>4
  <1>2. CASE register_int_handler
    BY <1>2 DEF register_int_handler, IsIrq, Remembered, Ctl
  <1>3. CASE unmask_interrupt
    <2>1. part' = part /\ drv' = drv /\ cpu' = cpu
      BY Zenon, <1>3 DEF unmask_interrupt
    <2>2. PICK v \in drv :
            hw' = [hw EXCEPT !.on = @ \cup {v}, !.cascade = Cascade(v, hw.on \cup {v})]
      BY Zenon, <1>3 DEF unmask_interrupt
    <2>a. hw.cascade \in BOOLEAN
      OBVIOUS
    <2> DEFINE on == hw.on \cup {v}
    <2>b. v \notin Ctl.slaves =>
              (on \cap Ctl.slaves # {} /\ ~(Ctl.slaves \subseteq on) => hw.cascade)
      BY DEF Remembered
    <2>3. /\ Cascade(v, on) \in BOOLEAN
          /\ on \cap Ctl.slaves # {} /\ ~(Ctl.slaves \subseteq on) => Cascade(v, on)
      BY <2>2, <2>a, <2>b, CascadeHeard
    <2>5. IrqTyped'
      BY Zenon, <2>1, <2>2, <2>3 DEF IsIrq
    <2>6. Remembered'
      BY <2>1, <2>2, <2>3 DEF Remembered, Ctl
    <2> QED BY <2>5, <2>6
  <1>4. CASE mask_interrupt
    <2>1. part' = part /\ drv' = drv /\ cpu' = cpu
      BY Zenon, <1>4 DEF mask_interrupt
    <2>2. PICK v \in hw.on :
            hw' = [hw EXCEPT !.on = @ \ {v}, !.cascade = Cascade(v, hw.on \ {v})]
      BY Zenon, <1>4 DEF mask_interrupt
    <2>a. hw.cascade \in BOOLEAN
      OBVIOUS
    <2> DEFINE on == hw.on \ {v}
    <2>b. v \notin Ctl.slaves =>
              (on \cap Ctl.slaves # {} /\ ~(Ctl.slaves \subseteq on) => hw.cascade)
      BY DEF Remembered
    <2>3. /\ Cascade(v, on) \in BOOLEAN
          /\ on \cap Ctl.slaves # {} /\ ~(Ctl.slaves \subseteq on) => Cascade(v, on)
      BY <2>2, <2>a, <2>b, CascadeHeard
    <2>5. IrqTyped'
      BY Zenon, <2>1, <2>2, <2>3 DEF IsIrq
    <2>6. Remembered'
      BY <2>1, <2>2, <2>3 DEF Remembered, Ctl
    <2> QED BY <2>5, <2>6
  <1>5. CASE IrqException
    BY <1>5 DEF IrqException, OnIrq, At, IsIrq, Remembered, Ctl
  <1>6. CASE Withdrawn
    <2>1. part' = part /\ drv' = drv /\ cpu' = cpu
      BY <1>6 DEF Withdrawn
    <2>2. PICK v \in hw.work : hw' = [hw EXCEPT !.work = @ \ {v}]
      BY Zenon, <1>6 DEF Withdrawn
    <2> QED BY <2>1, <2>2 DEF IsIrq, Remembered, Ctl
  <1>7. CASE platform_irq
    <2>1. part' = part /\ drv' = drv /\ cpu.pc = "vector"
      BY <1>7 DEF platform_irq, OnIrq, At
    <2>2. PICK v \in Vectors :
            /\ cpu' = [cpu EXCEPT !.pc = "handler", !.v = v]
            /\ hw' = [hw EXCEPT !.latch = IF Ctl.clear = "after" THEN @ ELSE @ \ {v}]
      BY Zenon, <1>7 DEF platform_irq
    <2>3. IrqTyped'
      BY Zenon, <2>1, <2>2 DEF IsIrq
    <2>4. Remembered'
      BY <2>1, <2>2 DEF Remembered, Ctl
    <2> QED BY <2>3, <2>4
  <1>8. CASE Spurious
    BY <1>8 DEF Spurious, OnIrq, At, IsIrq, Remembered, Ctl
  <1>9. CASE HandlerServes
    BY <1>9 DEF HandlerServes, OnIrq, At, IsIrq, Remembered, Ctl
  <1>10. CASE AckInterrupt
    BY <1>10 DEF AckInterrupt, OnIrq, At, IsIrq, Remembered, Ctl
  <1>11. CASE UNCHANGED vars
    BY <1>11 DEF vars, IsIrq, Remembered, Ctl
  <1> QED
    BY <1>1, <1>2, <1>3, <1>4, <1>5, <1>6, <1>7, <1>8, <1>9, <1>10, <1>11 DEF IrqNext

(* platform_irq on every controller but the edges of the OMAP5912, and but *)
(* for a PC whose second controller has ALL its lines open: work that a    *)
(* device has announced on an open vector is asked for, whatever was       *)
(* raised, masked or taken back while an earlier interrupt was served.     *)
THEOREM InterruptsNotLost == IrqSpec => []NothingStranded
  <1>1. IrqInv => NothingStranded
    BY DEF IrqInv, IrqTyped, Remembered, NothingStranded, Pending, AllSlavesOpen
  <1> QED
    BY <1>1, IrqStart, IrqStep, PTL DEF IrqSpec

-----------------------------------------------------------------------------
(* The OMAP3 USB controller.  What its routines do to transfers, given as  *)
(* records x of all that they work on.                                     *)

Transfer == [pos : Nat, len : Nat]
UsbcHw == [irq : SUBSET {"ep0", "in", "out"}, usb : SUBSET {"reset", "disconnect"},
           enabled : SUBSET Ends, setup : [req : {"none", "get", "address", "config"}, n : Nat],
           setupend : BOOLEAN, ep0full : BOOLEAN, txfull : BOOLEAN,
           rxpkt : {"none", "full", "short"}]
UsbcDrv == [state : {"DEFAULT", "ADDRESS", "CONFIGURED"}, active_config : Nat,
            ep0tx : Transfer, ep : [Ends -> Transfer]]
UsbcHist == [given : [Ends -> Nat], back : [Ends -> Nat]]
UsbcMachine == [hw : UsbcHw, drv : UsbcDrv, cpu : [pc : {"run", "panic"}], hist : UsbcHist]

(* A transfer that was given to the driver and has not come back is queued.*)
Balanced(x, e) ==
    x.hist.given[e] = x.hist.back[e] + (IF Queued(x.drv.ep[e]) THEN 1 ELSE 0)

UsbcSound(x) == x \in UsbcMachine /\ \A e \in Ends : Balanced(x, e)

(* A step that leaves transfers and callbacks alone.                       *)
LEMMA UsbcQuiet ==
    ASSUME NEW x, NEW y, UsbcSound(x), y \in UsbcMachine,
           y.drv.ep = x.drv.ep, y.hist = x.hist
    PROVE  UsbcSound(y)
  BY DEF UsbcSound, Balanced

(* A queued transfer is taken from its endpoint and called back.           *)
LEMMA UsbcBack ==
    ASSUME NEW x, NEW y, UsbcSound(x), y \in UsbcMachine, NEW e \in Ends,
           Queued(x.drv.ep[e]), y.drv.ep = [x.drv.ep EXCEPT ![e] = None], y.hist = x.hist
    PROVE  UsbcSound(Callback(y, e))
  <1> DEFINE z == Callback(y, e)
  <1>1. /\ z \in UsbcMachine /\ z.drv = y.drv /\ z.hist.given = x.hist.given
        /\ z.hist.back = [x.hist.back EXCEPT ![e] = @ + 1]
    BY DEF Callback, UsbcMachine, UsbcHist
  <1>2. x.drv.ep \in [Ends -> Transfer] /\ x.hist.back \in [Ends -> Nat]
        /\ x.hist.given \in [Ends -> Nat]
    BY DEF UsbcSound, UsbcMachine, UsbcDrv, UsbcHist
  <1> HIDE DEF z
  <1>3. ASSUME NEW f \in Ends PROVE Balanced(z, f)
    <2>1. CASE f = e
      <3>1. ~Queued(z.drv.ep[f])
        BY <1>1, <1>2, <2>1 DEF Queued, None
      <3> QED BY <1>1, <1>2, <2>1, <3>1 DEF UsbcSound, Balanced
    <2>2. CASE f # e
      <3>1. z.drv.ep[f] = x.drv.ep[f] /\ z.hist.back[f] = x.hist.back[f]
        BY <1>1, <1>2, <2>2
      <3> QED BY <1>1, <3>1 DEF UsbcSound, Balanced
    <2> QED BY <2>1, <2>2
  <1> QED BY <1>1, <1>3 DEF UsbcSound, z

(* Both endpoints in turn, each called back if it has a transfer.          *)
LEMMA ShutdownSound ==
    ASSUME NEW x, UsbcSound(x)
    PROVE  UsbcSound(usb_shutdown_endpoints(x))
  <1> DEFINE Cancel(y, e) == IF Queued(y.drv.ep[e])
                             THEN Callback([y EXCEPT !.drv.ep[e] = None], e) ELSE y
  <1>1. ASSUME NEW y, UsbcSound(y), NEW e \in Ends PROVE UsbcSound(Cancel(y, e))
    <2> DEFINE c == [y EXCEPT !.drv.ep[e] = None]
    <2>1. /\ c \in UsbcMachine /\ c.drv.ep = [y.drv.ep EXCEPT ![e] = None]
          /\ c.hist = y.hist
      BY Zenon, <1>1 DEF UsbcSound, UsbcMachine, UsbcDrv, None, Transfer
    <2>2. CASE Queued(y.drv.ep[e])
      <3> HIDE DEF c
      <3>1. UsbcSound(Callback(c, e))
        BY <1>1, <2>1, <2>2, UsbcBack
      <3> QED BY <2>2, <3>1 DEF c
    <2>3. CASE ~Queued(y.drv.ep[e])
      BY <1>1, <2>3
    <2> QED BY <2>2, <2>3
  <1> DEFINE z == Cancel(Cancel(x, "in"), "out")
  <1>2. UsbcSound(z)
    <2>1. UsbcSound(Cancel(x, "in"))
      BY Zenon, <1>1 DEF Ends
    <2> HIDE DEF Cancel
    <2> QED BY <1>1, <2>1 DEF Ends
  <1> HIDE DEF z, Cancel
  <1> DEFINE w == [z EXCEPT !.drv.ep0tx = None]
  <1>3. w \in UsbcMachine /\ w.drv.ep = z.drv.ep /\ w.hist = z.hist
    BY Zenon, <1>2 DEF UsbcSound, UsbcMachine, UsbcDrv, None, Transfer
  <1> HIDE DEF w
  <1>4. UsbcSound(w)
    BY <1>2, <1>3, UsbcQuiet
  <1>5. w = usb_shutdown_endpoints(x)
    BY DEF usb_shutdown_endpoints, w, z, Cancel
  <1> QED BY <1>4, <1>5

LEMMA ResetSound ==
    ASSUME NEW x, UsbcSound(x)
    PROVE  UsbcSound(usb_reset(x)) /\ UsbcSound(usb_disconnect(x))
  <1> DEFINE r == [x EXCEPT !.hw.enabled = {}]
             d == [x EXCEPT !.drv.state = "DEFAULT", !.drv.active_config = 0]
  <1>1. r \in UsbcMachine /\ r.drv.ep = x.drv.ep /\ r.hist = x.hist
    BY DEF UsbcSound, UsbcMachine, UsbcHw
  <1>2. d \in UsbcMachine /\ d.drv.ep = x.drv.ep /\ d.hist = x.hist
    BY Zenon DEF UsbcSound, UsbcMachine, UsbcDrv
  <1>3. usb_reset(x) = usb_shutdown_endpoints(r) /\ usb_disconnect(x) = usb_shutdown_endpoints(d)
    BY DEF usb_reset, usb_disconnect
  <1> HIDE DEF r, d
  <1>4. UsbcSound(r) /\ UsbcSound(d)
    BY <1>1, <1>2, UsbcQuiet
  <1> QED BY <1>3, <1>4, ShutdownSound

LEMMA PanicSound ==
    ASSUME NEW x, UsbcSound(x)
    PROVE  UsbcSound([x EXCEPT !.cpu.pc = "panic"])
  <1> DEFINE p == [x EXCEPT !.cpu.pc = "panic"]
  <1>1. p \in UsbcMachine /\ p.drv = x.drv /\ p.hist = x.hist
    BY DEF UsbcSound, UsbcMachine
  <1> HIDE DEF p
  <1>2. UsbcSound(p)
    BY <1>1, UsbcQuiet
  <1> QED BY <1>2 DEF p

LEMMA ReceiveSound ==
    ASSUME NEW x, UsbcSound(x)
    PROVE  UsbcSound(handle_ep_rx(x))
  <1> DEFINE t == x.drv.ep["out"]
             y == [x EXCEPT !.hw.rxpkt = "none"]
             c == [y EXCEPT !.drv.ep["out"] = None, !.hw.enabled = @ \ {"out"}]
             m == [y EXCEPT !.drv.ep["out"].pos = @ + 1]
  <1>0. "out" \in Ends /\ x \in UsbcMachine /\ x.drv \in UsbcDrv /\ x.hw \in UsbcHw
    BY DEF Ends, UsbcSound, UsbcMachine
  <1>t. t \in Transfer /\ x.drv.ep \in [Ends -> Transfer]
    BY <1>0 DEF UsbcDrv
  <1>1. y \in UsbcMachine /\ y.drv = x.drv /\ y.hist = x.hist
    BY <1>0 DEF UsbcMachine, UsbcHw
  <1>2. /\ c \in UsbcMachine /\ c.drv.ep = [x.drv.ep EXCEPT !["out"] = None]
        /\ c.hist = x.hist
    <2> HIDE DEF y
    <2> QED BY ZenonT(30), <1>0, <1>1 DEF UsbcMachine, UsbcHw, UsbcDrv, None, Transfer
  <1>3. /\ m \in UsbcMachine /\ m.hist = x.hist
        /\ m.drv.ep = [x.drv.ep EXCEPT !["out"] = [t EXCEPT !.pos = @ + 1]]
    <2>1. [t EXCEPT !.pos = @ + 1] \in Transfer
      BY <1>t DEF Transfer
    <2> HIDE DEF y
    <2> QED BY <1>0, <1>1, <1>t, <2>1 DEF UsbcMachine, UsbcDrv
  <1>4. CASE ~Queued(t)
    <2>1. handle_ep_rx(x) = [x EXCEPT !.cpu.pc = "panic"]
      BY <1>4 DEF handle_ep_rx, DebugAssert
    <2> QED BY <2>1, PanicSound
  <1>5. CASE Queued(t) /\ (x.hw.rxpkt = "short" \/ t.pos + 1 >= t.len)
    <2>1. handle_ep_rx(x) = Callback(c, "out")
      BY <1>5 DEF handle_ep_rx, DebugAssert
    <2> HIDE DEF c
    <2> QED BY <1>0, <1>2, <1>5, <2>1, UsbcBack
  <1>6. CASE Queued(t) /\ ~(x.hw.rxpkt = "short" \/ t.pos + 1 >= t.len)
    <2>1. handle_ep_rx(x) = m
      BY <1>6 DEF handle_ep_rx, DebugAssert
    <2> HIDE DEF m
    <2>2. \A e \in Ends : Queued(m.drv.ep[e]) = Queued(x.drv.ep[e])
      BY <1>3, <1>t DEF Queued, Transfer
    <2>3. UsbcSound(m)
      BY <1>3, <2>2 DEF UsbcSound, Balanced
    <2> QED BY <2>1, <2>3
  <1> QED BY <1>4, <1>5, <1>6

LEMMA SendSound ==
    ASSUME NEW x, UsbcSound(x)
    PROVE  UsbcSound(TxInterrupt(x))
  <1> DEFINE t == x.drv.ep["in"]
             c == [x EXCEPT !.drv.ep["in"] = None, !.hw.enabled = @ \ {"in"}]
             m == [x EXCEPT !.drv.ep["in"].pos = @ + 1, !.hw.txfull = TRUE]
  <1>0. "in" \in Ends /\ x \in UsbcMachine /\ x.drv \in UsbcDrv /\ x.hw \in UsbcHw
    BY DEF Ends, UsbcSound, UsbcMachine
  <1>t. t \in Transfer /\ x.drv.ep \in [Ends -> Transfer]
    BY <1>0 DEF UsbcDrv
  <1>2. /\ c \in UsbcMachine /\ c.drv.ep = [x.drv.ep EXCEPT !["in"] = None]
        /\ c.hist = x.hist
    BY ZenonT(30), <1>0 DEF UsbcMachine, UsbcHw, UsbcDrv, None, Transfer
  <1>3. /\ m \in UsbcMachine /\ m.hist = x.hist
        /\ m.drv.ep = [x.drv.ep EXCEPT !["in"] = [t EXCEPT !.pos = @ + 1]]
    <2>1. [t EXCEPT !.pos = @ + 1] \in Transfer
      BY <1>t DEF Transfer
    <2> QED BY Zenon, <1>0, <1>t, <2>1 DEF UsbcMachine, UsbcDrv, UsbcHw
  <1>4. CASE ~Queued(t)
    <2>1. TxInterrupt(x) = [x EXCEPT !.cpu.pc = "panic"]
      BY <1>4 DEF TxInterrupt, DebugAssert
    <2> QED BY <2>1, PanicSound
  <1>5. CASE Queued(t) /\ ~(t.pos < t.len)
    <2>1. TxInterrupt(x) = Callback(c, "in")
      BY <1>5 DEF TxInterrupt, DebugAssert
    <2> HIDE DEF c
    <2> QED BY <1>0, <1>2, <1>5, <2>1, UsbcBack
  <1>6. CASE Queued(t) /\ t.pos < t.len
    <2>1. TxInterrupt(x) = m
      BY <1>6 DEF TxInterrupt, DebugAssert
    <2> HIDE DEF m
    <2>2. \A e \in Ends : Queued(m.drv.ep[e]) = Queued(x.drv.ep[e])
      BY <1>3, <1>t DEF Queued, Transfer
    <2>3. UsbcSound(m)
      BY <1>3, <2>2 DEF UsbcSound, Balanced
    <2> QED BY <2>1, <2>3
  <1> QED BY <1>4, <1>5, <1>6

(* Endpoint 0 has no transfers of its own.                                 *)
LEMMA ControlSound ==
    ASSUME NEW x, UsbcSound(x)
    PROVE  UsbcSound(Ep0Interrupt(x))
  <1> DEFINE Quiet0(y) == y \in UsbcMachine /\ y.drv.ep = x.drv.ep /\ y.hist = x.hist
             t == [x.drv.ep0tx EXCEPT !.pos = @ + 1]
             x1 == IF ~Queued(x.drv.ep0tx) THEN x
                   ELSE IF x.hw.setupend THEN [x EXCEPT !.drv.ep0tx = None]
                   ELSE ep0_control_send_resume(x)
             x2 == [x1 EXCEPT !.hw.setupend = FALSE]
  <1>0. x \in UsbcMachine /\ x.drv \in UsbcDrv /\ x.hw \in UsbcHw /\ None \in Transfer
    BY DEF UsbcSound, UsbcMachine, None, Transfer
  <1>t. t \in Transfer
    BY <1>0 DEF UsbcDrv, Transfer
  <1>1. Quiet0([x EXCEPT !.drv.ep0tx = None])
    BY <1>0 DEF UsbcMachine, UsbcDrv
  <1>2. Quiet0(ep0_control_send_resume(x))
    <2> DEFINE e == IF t.pos >= t.len THEN None ELSE t
    <2>1. Quiet0([x EXCEPT !.cpu.pc = "panic"])
      BY <1>0 DEF UsbcMachine
    <2>2. e \in Transfer
      BY <1>0, <1>t
    <2> HIDE DEF e
    <2>3. Quiet0([x EXCEPT !.hw.ep0full = TRUE, !.drv.ep0tx = e])
      BY Zenon, <1>0, <2>2 DEF UsbcMachine, UsbcDrv, UsbcHw
    <2> QED BY <2>1, <2>3 DEF ep0_control_send_resume, DebugAssert, e
  <1>3. Quiet0(x1)
    BY <1>0, <1>1, <1>2
  <1> HIDE DEF x1
  <1>4. Quiet0(x2)
    BY Zenon, <1>3 DEF UsbcMachine, UsbcHw
  <1> HIDE DEF x2
  <1>5. ASSUME x2.hw.setup.req # "none" PROVE Quiet0(SetupMsg(x2))
    <2> DEFINE r == x2.hw.setup
               y == [x2 EXCEPT !.hw.setup = [req |-> "none", n |-> 0]]
    <2>0. r \in [req : {"none", "get", "address", "config"}, n : Nat] /\ r.req # "none"
      BY <1>4, <1>5 DEF UsbcMachine, UsbcHw
    <2>1. Quiet0(y)
      BY <1>4 DEF UsbcMachine, UsbcHw
    <2>7. SetupMsg(x2) =
            CASE r.req = "get" -> usbc_ep0_send(y, r.n)
              [] r.req = "address" -> [y EXCEPT !.drv.state = IF r.n = 0 THEN "DEFAULT" ELSE "ADDRESS"]
              [] r.req = "config" ->
                   setup_dynamic_fifos(
                       [y EXCEPT !.drv.active_config = r.n,
                                 !.drv.state = IF r.n # 0 THEN "CONFIGURED"
                                               ELSE IF @ = "CONFIGURED" THEN "ADDRESS" ELSE @])
      BY DEF SetupMsg
    <2> HIDE DEF y, r
    <2>2. CASE r.req = "get"
      <3> DEFINE e == IF r.n > 1 THEN [pos |-> 1, len |-> r.n] ELSE None
      <3>1. e \in Transfer
        BY <1>0, <2>0 DEF Transfer
      <3> HIDE DEF e
      <3>2. Quiet0([y EXCEPT !.hw.ep0full = TRUE, !.drv.ep0tx = e])
        BY Zenon, <2>1, <3>1 DEF UsbcMachine, UsbcDrv, UsbcHw
      <3> QED BY Zenon, <2>2, <2>7, <3>2 DEF usbc_ep0_send, e
    <2>3. CASE r.req = "address"
      <3>1. Quiet0([y EXCEPT !.drv.state = IF r.n = 0 THEN "DEFAULT" ELSE "ADDRESS"])
        BY <2>1 DEF UsbcMachine, UsbcDrv
      <3> QED BY Zenon, <2>3, <2>7, <3>1
    <2>4. CASE r.req = "config"
      <3> DEFINE d == [y EXCEPT !.drv.active_config = r.n,
                                !.drv.state = IF r.n # 0 THEN "CONFIGURED"
                                              ELSE IF @ = "CONFIGURED" THEN "ADDRESS" ELSE @]
      <3>1. Quiet0(d)
        BY Zenon, <2>0, <2>1 DEF UsbcMachine, UsbcDrv
      <3>2. SetupMsg(x2) = setup_dynamic_fifos(d)
        BY <2>4, <2>7
      <3> HIDE DEF d
      <3>3. Quiet0(setup_dynamic_fifos(d))
        BY ZenonT(30), <3>1 DEF setup_dynamic_fifos, UsbcMachine, UsbcHw
      <3> QED BY <3>2, <3>3
    <2> QED BY <2>0, <2>2, <2>3, <2>4
  <1>6. Ep0Interrupt(x) = IF x2.hw.setup.req # "none" /\ x2.cpu.pc # "panic"
                          THEN SetupMsg(x2) ELSE x2
    BY DEF Ep0Interrupt, x2, x1
  <1>7. Quiet0(Ep0Interrupt(x))
    BY <1>4, <1>5, <1>6
  <1> QED BY <1>7, UsbcQuiet

UsbcInv == part.kind = "usbc" /\ UsbcSound(Both)

LEMMA UpdateSound ==
    ASSUME NEW x, UsbcSound(x), Update(x)
    PROVE  UsbcSound(Both)'
  <1>1. hw' = x.hw /\ drv' = x.drv /\ cpu' = x.cpu /\ hist' = x.hist
    BY DEF Update
  <1>2. x = [hw |-> x.hw, drv |-> x.drv, cpu |-> x.cpu, hist |-> x.hist]
    BY DEF UsbcSound, UsbcMachine
  <1>3. Both' = x
    BY <1>1, <1>2 DEF Both
  <1>4. UsbcSound(Both')
    BY <1>3
  <1> QED BY <1>4 DEF UsbcSound, Balanced, Queued

(* Both as a record of the variables' types.                               *)
LEMMA BothTyped ==
    ASSUME UsbcSound(Both)
    PROVE  /\ Both \in UsbcMachine /\ hw \in UsbcHw /\ drv \in UsbcDrv
           /\ cpu \in [pc : {"run", "panic"}] /\ hist \in UsbcHist
           /\ Both.hw = hw /\ Both.drv = drv /\ Both.cpu = cpu /\ Both.hist = hist
  BY DEF UsbcSound, UsbcMachine, Both

LEMMA InterruptSound ==
    ASSUME UsbcSound(Both), hsusb_interrupt
    PROVE  UsbcSound(Both)'
  <1> DEFINE x0 == [Both EXCEPT !.hw.irq = {}, !.hw.usb = {}]
             x1 == IF "reset" \in hw.usb THEN usb_reset(x0) ELSE x0
             x2 == IF "disconnect" \in hw.usb THEN usb_disconnect(x1) ELSE x1
             x3 == IF "ep0" \in hw.irq THEN Ep0Interrupt(x2) ELSE x2
             on == hw.irq \cap x3.hw.enabled
             x4 == IF "in" \in on /\ x3.cpu.pc # "panic" THEN TxInterrupt(x3) ELSE x3
             x5 == IF "out" \in on /\ x4.hw.rxpkt # "none" /\ x4.cpu.pc # "panic"
                   THEN handle_ep_rx(x4) ELSE x4
  <1>0. x0 \in UsbcMachine /\ x0.drv.ep = Both.drv.ep /\ x0.hist = Both.hist
    <2> HIDE DEF Both
    <2> QED BY Zenon, BothTyped DEF UsbcMachine, UsbcHw
  <1>u. Update(x5)
    BY Zenon DEF hsusb_interrupt
  <1> HIDE DEF x0
  <1>1. UsbcSound(x0)
    <2> HIDE DEF Both
    <2> QED BY <1>0, UsbcQuiet
  <1>2. UsbcSound(x1)
    BY <1>1, ResetSound
  <1> HIDE DEF x1
  <1>3. UsbcSound(x2)
    BY <1>2, ResetSound
  <1> HIDE DEF x2
  <1>4. UsbcSound(x3)
    BY <1>3, ControlSound
  <1> HIDE DEF x3
  <1>5. UsbcSound(x4)
    BY <1>4, SendSound
  <1> HIDE DEF x4
  <1>6. UsbcSound(x5)
    BY <1>5, ReceiveSound
  <1> HIDE DEF x5
  <1> QED BY <1>6, <1>u, UpdateSound

(* A transfer that is queued where there was none, and counted.            *)
LEMMA GivenSound ==
    ASSUME NEW x, NEW y, NEW e \in Ends, NEW t \in Transfer, UsbcSound(x),
           ~Queued(x.drv.ep[e]), Queued(t), y \in UsbcMachine,
           y.drv.ep = [x.drv.ep EXCEPT ![e] = t],
           y.hist = [x.hist EXCEPT !.given = [x.hist.given EXCEPT ![e] = @ + 1]]
    PROVE  UsbcSound(y)
  <1>1. /\ x.drv.ep \in [Ends -> Transfer] /\ x.hist.given \in [Ends -> Nat]
        /\ x.hist.back \in [Ends -> Nat] /\ x.hist \in UsbcHist
    BY DEF UsbcSound, UsbcMachine, UsbcDrv, UsbcHist
  <1>2. y.hist.back = x.hist.back /\ y.hist.given = [x.hist.given EXCEPT ![e] = @ + 1]
    BY <1>1 DEF UsbcHist
  <1>3. ASSUME NEW f \in Ends PROVE Balanced(y, f)
    <2>1. CASE f = e
      <3>1. y.drv.ep[f] = t /\ y.hist.given[f] = x.hist.given[f] + 1
        BY <1>1, <1>2, <2>1
      <3> QED BY <1>1, <1>2, <2>1, <3>1 DEF UsbcSound, Balanced
    <2>2. CASE f # e
      <3>1. y.drv.ep[f] = x.drv.ep[f] /\ y.hist.given[f] = x.hist.given[f]
        BY <1>1, <1>2, <2>2
      <3> QED BY <1>2, <3>1 DEF UsbcSound, Balanced
    <2> QED BY <2>1, <2>2
  <1> QED BY <1>3 DEF UsbcSound

LEMMA EnabledSound ==
    ASSUME NEW x, UsbcSound(x), NEW e \in Ends
    PROVE  UsbcSound([x EXCEPT !.hw.enabled = @ \cup {e}])
  <1> DEFINE y == [x EXCEPT !.hw.enabled = @ \cup {e}]
  <1>1. y \in UsbcMachine /\ y.drv = x.drv /\ y.hist = x.hist
    BY DEF UsbcSound, UsbcMachine, UsbcHw
  <1> HIDE DEF y
  <1>2. UsbcSound(y)
    BY <1>1, UsbcQuiet
  <1> QED BY <1>2 DEF y

LEMMA QueueRxSound ==
    ASSUME UsbcSound(Both), usbc_queue_rx
    PROVE  UsbcSound(Both)'
  <1>1. PICK n \in 1..MaxPackets :
          LET x == [Both EXCEPT !.drv.ep["out"] = [pos |-> 0, len |-> n],
                                !.hist.given["out"] = @ + 1]
              y == handle_ep_rx(x)
          IN  Update(IF hw.rxpkt # "none" /\ ~Queued(y.drv.ep["out"]) THEN y
                     ELSE [(IF hw.rxpkt # "none" THEN y ELSE x) EXCEPT !.hw.enabled = @ \cup {"out"}])
    BY ZenonT(30) DEF usbc_queue_rx
  <1> DEFINE t == [pos |-> 0, len |-> n]
             x == [Both EXCEPT !.drv.ep["out"] = t, !.hist.given["out"] = @ + 1]
             y == handle_ep_rx(x)
             w == IF hw.rxpkt # "none" THEN y ELSE x
             z == IF hw.rxpkt # "none" /\ ~Queued(y.drv.ep["out"]) THEN y
                  ELSE [w EXCEPT !.hw.enabled = @ \cup {"out"}]
  <1>2. Update(z)
    BY Zenon, <1>1
  <1>3. /\ t \in Transfer /\ Queued(t) /\ ~Queued(Both.drv.ep["out"]) /\ "out" \in Ends
    <2>1. n \in Nat /\ n >= 1
      BY PacketBound
    <2>2. t \in Transfer /\ Queued(t)
      BY <2>1 DEF Transfer, Queued
    <2>3. ~Queued(Both.drv.ep["out"]) /\ "out" \in Ends
      BY DEF usbc_queue_rx, Both, Ends
    <2> QED BY <2>2, <2>3
  <1> HIDE DEF t
  <1>4. /\ x \in UsbcMachine /\ x.drv.ep = [Both.drv.ep EXCEPT !["out"] = t]
        /\ x.hist = [Both.hist EXCEPT !.given = [Both.hist.given EXCEPT !["out"] = @ + 1]]
    <2> DEFINE d == [drv EXCEPT !.ep["out"] = t]
               h == [hist EXCEPT !.given["out"] = @ + 1]
    <2>1. d \in UsbcDrv /\ d.ep = [drv.ep EXCEPT !["out"] = t]
      BY BothTyped, <1>3 DEF UsbcDrv
    <2>2. h \in UsbcHist /\ h = [hist EXCEPT !.given = [hist.given EXCEPT !["out"] = @ + 1]]
      BY BothTyped, <1>3 DEF UsbcHist
    <2>3. x = [hw |-> hw, drv |-> d, cpu |-> cpu, hist |-> h]
      <3> DEFINE c == [Both EXCEPT !.drv.ep["out"] = t]
      <3>1. c = [hw |-> hw, drv |-> d, cpu |-> cpu, hist |-> hist] /\ Both.hist = hist
        BY DEF Both
      <3>2. x = [c EXCEPT !.hist = [c.hist EXCEPT !.given =
                    [c.hist.given EXCEPT !["out"] = Both.hist.given["out"] + 1]]]
        OBVIOUS
      <3> HIDE DEF c, d, x
      <3> QED BY <3>1, <3>2 DEF h
    <2> HIDE DEF d, h, x
    <2> QED BY BothTyped, <2>1, <2>2, <2>3 DEF UsbcMachine
  <1> HIDE DEF x
  <1>5. UsbcSound(x)
    BY <1>3, <1>4, GivenSound
  <1>6. UsbcSound(y)
    BY <1>5, ReceiveSound
  <1> HIDE DEF y
  <1>7. UsbcSound(w)
    BY <1>5, <1>6
  <1> HIDE DEF w
  <1>8. UsbcSound([w EXCEPT !.hw.enabled = @ \cup {"out"}])
    BY Zenon, <1>3, <1>7, EnabledSound
  <1>9. UsbcSound(z)
    BY Zenon, <1>6, <1>8
  <1> HIDE DEF z
  <1> QED BY Zenon, <1>2, <1>9, UpdateSound

LEMMA QueueTxSound ==
    ASSUME UsbcSound(Both), usbc_queue_tx
    PROVE  UsbcSound(Both)'
  <1>1. PICK n \in 1..MaxPackets :
          LET x == [Both EXCEPT !.hw.enabled = @ \cup {"in"}, !.hist.given["in"] = @ + 1]
          IN  Update([x EXCEPT !.drv.ep["in"] = [pos |-> IF hw.txfull THEN 0 ELSE 1, len |-> n],
                               !.hw.txfull = TRUE])
    BY Zenon DEF usbc_queue_tx
  <1> DEFINE t == [pos |-> IF hw.txfull THEN 0 ELSE 1, len |-> n]
             x == [Both EXCEPT !.hw.enabled = @ \cup {"in"}, !.hist.given["in"] = @ + 1]
             y == [x EXCEPT !.drv.ep["in"] = t, !.hw.txfull = TRUE]
  <1>2. Update(y)
    BY <1>1
  <1>3. /\ t \in Transfer /\ Queued(t) /\ ~Queued(Both.drv.ep["in"]) /\ "in" \in Ends
    BY PacketBound DEF Transfer, Queued, usbc_queue_tx, Both, Ends
  <1> HIDE DEF t
  <1>4. /\ x \in UsbcMachine /\ x.drv = Both.drv
        /\ x.hist = [Both.hist EXCEPT !.given = [Both.hist.given EXCEPT !["in"] = @ + 1]]
    <2> DEFINE r == [hw EXCEPT !.enabled = @ \cup {"in"}]
               h == [hist EXCEPT !.given["in"] = @ + 1]
    <2>1. r \in UsbcHw
      BY BothTyped, <1>3 DEF UsbcHw
    <2>2. h \in UsbcHist /\ h = [hist EXCEPT !.given = [hist.given EXCEPT !["in"] = @ + 1]]
      BY BothTyped, <1>3 DEF UsbcHist
    <2>3. x = [hw |-> r, drv |-> drv, cpu |-> cpu, hist |-> h]
      <3> DEFINE c == [Both EXCEPT !.hw.enabled = @ \cup {"in"}]
      <3>1. c = [hw |-> r, drv |-> drv, cpu |-> cpu, hist |-> hist] /\ Both.hist = hist
        BY DEF Both
      <3>2. x = [c EXCEPT !.hist = [c.hist EXCEPT !.given =
                    [c.hist.given EXCEPT !["in"] = Both.hist.given["in"] + 1]]]
        OBVIOUS
      <3> HIDE DEF c, r, x
      <3> QED BY <3>1, <3>2 DEF h
    <2> HIDE DEF r, h, x
    <2> QED BY BothTyped, <2>1, <2>2, <2>3 DEF UsbcMachine
  <1> HIDE DEF x
  <1>5. /\ y \in UsbcMachine /\ y.drv.ep = [Both.drv.ep EXCEPT !["in"] = t]
        /\ y.hist = x.hist
    BY Zenon, <1>3, <1>4 DEF UsbcMachine, UsbcHw, UsbcDrv
  <1> HIDE DEF y
  <1>6. UsbcSound(y)
    BY <1>3, <1>4, <1>5, GivenSound
  <1> QED BY <1>2, <1>6, UpdateSound

(* Packets, SETUP packets and bus events change registers only.            *)
LEMMA BusSound ==
    ASSUME UsbcSound(Both), NEW h \in UsbcHw, UsbcBus(h)
    PROVE  UsbcSound(Both)'
  <1>1. Both' = [hw |-> h, drv |-> drv, cpu |-> cpu, hist |-> hist]
    BY DEF UsbcBus, Both
  <1>2. Both' \in UsbcMachine /\ Both'.drv = Both.drv /\ Both'.hist = Both.hist
    BY <1>1, BothTyped DEF UsbcMachine
  <1> DEFINE b == Both'
  <1> HIDE DEF b
  <1>3. UsbcSound(b)
    BY <1>2, UsbcQuiet DEF b
  <1> QED BY <1>3 DEF b, UsbcSound, Balanced, Queued

LEMMA UsbcStart == UsbcInit => UsbcInv
  <1> SUFFICES ASSUME UsbcInit PROVE UsbcInv
    OBVIOUS
  <1>1. None \in Transfer
    BY DEF None, Transfer
  <1>2. hw \in UsbcHw /\ cpu \in [pc : {"run", "panic"}]
    BY DEF UsbcInit, UsbcHw
  <1>3. drv \in UsbcDrv /\ hist \in UsbcHist
    BY <1>1 DEF UsbcInit, UsbcDrv, UsbcHist
  <1>4. Both \in UsbcMachine
    BY <1>2, <1>3 DEF Both, UsbcMachine
  <1>5. \A e \in Ends : Balanced(Both, e)
    BY DEF UsbcInit, Both, Balanced, Queued, None
  <1> QED BY <1>4, <1>5 DEF UsbcInv, UsbcSound, UsbcInit

LEMMA UsbcStep == UsbcInv /\ [UsbcNext]_vars => UsbcInv'
  <1> SUFFICES ASSUME UsbcInv, [UsbcNext]_vars PROVE UsbcInv'
    OBVIOUS
  <1>0. UsbcSound(Both) /\ part.kind = "usbc"
    BY Zenon DEF UsbcInv
  <1>p. part' = part
    BY Zenon DEF UsbcNext, hsusb_interrupt, usbc_queue_rx, usbc_queue_tx, BusPacket, BusEvent,
           UsbcBus, vars
  <1>t. hw \in UsbcHw
    BY <1>0, BothTyped
  <1>1. CASE hsusb_interrupt
    BY <1>0, <1>1, <1>p, InterruptSound DEF UsbcInv
  <1>2. CASE usbc_queue_rx
    BY <1>0, <1>2, <1>p, QueueRxSound DEF UsbcInv
  <1>3. CASE usbc_queue_tx
    BY Zenon, <1>0, <1>3, <1>p, QueueTxSound DEF UsbcInv
  <1>4. CASE BusPacket \/ BusEvent
    <2>1. PICK h \in UsbcHw : UsbcBus(h)
      <3>1. CASE hw.ep0full /\ UsbcBus([hw EXCEPT !.ep0full = FALSE, !.irq = @ \cup {"ep0"}])
        BY Zenon, <1>t, <3>1 DEF UsbcHw
      <3>2. CASE hw.txfull /\ UsbcBus([hw EXCEPT !.txfull = FALSE, !.irq = @ \cup {"in"}])
        BY Zenon, <1>t, <3>2 DEF UsbcHw
      <3>3. CASE \E q \in {"full", "short"} :
                   UsbcBus([hw EXCEPT !.rxpkt = q, !.irq = @ \cup {"out"}])
        BY ZenonT(30), <1>t, <3>3 DEF UsbcHw
      <3>4. CASE \E r \in {"get", "address", "config"}, n \in 0..MaxPackets :
                   UsbcBus([hw EXCEPT !.setup = [req |-> r, n |-> n], !.irq = @ \cup {"ep0"},
                                      !.setupend = hw.ep0full \/ Queued(drv.ep0tx),
                                      !.ep0full = FALSE])
        <4>1. PICK r \in {"get", "address", "config"}, n \in 0..MaxPackets :
                   UsbcBus([hw EXCEPT !.setup = [req |-> r, n |-> n], !.irq = @ \cup {"ep0"},
                                      !.setupend = hw.ep0full \/ Queued(drv.ep0tx),
                                      !.ep0full = FALSE])
          BY Zenon, <3>4
        <4> DEFINE q == [req |-> r, n |-> n]
                   e == hw.ep0full \/ Queued(drv.ep0tx)
        <4>2. q \in [req : {"none", "get", "address", "config"}, n : Nat] /\ e \in BOOLEAN
          BY PacketBound
        <4> HIDE DEF q, e
        <4>3. [hw EXCEPT !.setup = q, !.irq = @ \cup {"ep0"}, !.setupend = e,
                         !.ep0full = FALSE] \in UsbcHw
          BY Zenon, <1>t, <4>2 DEF UsbcHw
        <4> QED BY Zenon, <4>1, <4>3 DEF q, e
      <3>5. CASE \E u \in {"reset", "disconnect"} : UsbcBus([hw EXCEPT !.usb = @ \cup {u}])
        BY <1>t, <3>5 DEF UsbcHw
      <3> QED BY Zenon, <1>4, <3>1, <3>2, <3>3, <3>4, <3>5 DEF BusPacket, BusEvent
    <2> QED BY Zenon, <1>0, <1>p, <2>1, BusSound DEF UsbcInv
  <1>5. CASE UNCHANGED vars
    BY <1>0, <1>5 DEF vars, UsbcInv, UsbcSound, Balanced, Both, Queued
  <1> QED BY Zenon, <1>1, <1>2, <1>3, <1>4, <1>5 DEF UsbcNext

(* usbc_queue_rx, usbc_queue_tx and hsusb_interrupt: a transfer comes back *)
(* through its callback exactly once, completed or cancelled, for any      *)
(* number and length of transfers, packets, resets and disconnects.        *)
THEOREM TransfersComeBackOnce == UsbcSpec => []TransferOnce
  <1>1. UsbcInv => TransferOnce
    BY DEF UsbcInv, UsbcSound, Balanced, Both, TransferOnce
  <1> QED
    BY <1>1, UsbcStart, UsbcStep, PTL DEF UsbcSpec

-----------------------------------------------------------------------------
(* Clocks and delays.                                                      *)

ClockPlaces == {"run", "first", "time", "second", "zero", "count", "wrap", "reach"}

GptRecords == [count : Nat, on : BOOLEAN, clear : BOOLEAN]
HwRecords(p) == [now : Nat, down : 0..p, pend : Nat, gpt : GptRecords]
CpuRecords == [pc : ClockPlaces, first : Nat, t : Nat, cnt : Nat, n : Nat, unit : Units,
               from : Nat]
HistRecords == [prev : Nat, got : Nat, at : Nat, asked : Nat, unit : Units, waited : Int]

ClockTyped ==
    /\ IsTimer /\ part.name \in DOMAIN clocks
    /\ hw \in HwRecords(Board.period)
    /\ drv \in [sys : Nat, ints : BOOLEAN, trigger : Int]
    /\ cpu \in CpuRecords /\ hist \in HistRecords

(* What every clock of the table satisfies.                                *)
ClockSound(b) ==
    /\ b.reads \in {"ticks", "counter", "latch", "both"}
    /\ b.period \in Nat \ {0} /\ b.adds \in Nat \ {0} /\ b.unit \in Nat \ {0}
    /\ b.rate \in Nat \ {0}
    /\ b.reads = "latch" => b.rate = Milli * Milli
    /\ b.reads = "both" => ~b.counts /\ ~b.stops /\ b.unit = 1 /\ b.adds = Interval

(* What the timer has counted of the running tick of p counts.             *)
Counted(d, p) == IF d = 0 THEN 0 ELSE p - d

(* The ticks served, those pending and the running one are not ahead.      *)
TimelyOf(b, sys, pend, down, now) ==
    sys * b.period + b.adds * (b.period * pend + Counted(down, b.period)) <= now * b.adds

Timely == TimelyOf(Board, drv.sys, hw.pend, hw.down, hw.now)

(* The milliseconds of a tick of p counts that are over, d before its end. *)
Part(p, d) == ((p - d) * Interval) \div p

(* The same, with a pending tick for a whole one.                          *)
PartOf(b, down, pend) == IF pend = 0 THEN Part(b.period, down) ELSE Interval

(* The time that current_time is to report.                                *)
TimeOf(b, sys, now, down, pend) ==
    IF b.reads = "ticks" THEN sys \div b.unit
    ELSE IF b.reads = "counter" THEN (now * Milli) \div b.rate
    ELSE IF b.reads = "latch" THEN latched_ms(now)
    ELSE sys + PartOf(b, down, pend)

(* What was reported last is behind what is to be reported next.           *)
Reported ==
    /\ hist.prev <= hist.got /\ NotAhead(hist.got, hist.at)
    /\ hist.got <= TimeOf(Board, drv.sys, hw.now, hw.down, hw.pend)
    /\ Board.reads = "both" => hw.down >= 1 /\ hw.pend <= 1

(* The OMAP5912 between its reads of timer, time and timer.                *)
Reading ==
    /\ cpu.pc \in {"first", "time", "second"} => Board.reads \in {"counter", "both"}
    /\ Board.reads = "both" /\ cpu.pc \in {"time", "second"} =>
        /\ cpu.first \in 1..Board.period
        /\ drv.ints => hist.got <= (IF cpu.pc = "time" THEN drv.sys ELSE cpu.t)
                                   + Part(Board.period, cpu.first)
        /\ cpu.pc = "second" => cpu.t <= drv.sys

(* The counter was read at time s, and has wrapped before if it had to.    *)
ReadAt(s) ==
    /\ s >= cpu.from /\ s <= hw.now /\ cpu.cnt = s % CountSize
    /\ cpu.pc = "reach" /\ cpu.t < cpu.first => s - cpu.cnt >= cpu.from - cpu.first + CountSize

WasRead == \E s \in Nat : ReadAt(s)

(* The end of qtimer.c's delay, and the counter at its start.              *)
Aimed == /\ cpu.first = cpu.from % CountSize
         /\ cpu.t = (cpu.first + to_ticks(cpu.n, cpu.unit)) % CountSize

Delaying ==
    /\ cpu.pc \in {"zero", "count", "wrap", "reach"} => cpu.from <= hw.now
    /\ cpu.pc \in {"zero", "count"} => part.name = "msm"
    /\ cpu.pc \in {"wrap", "reach"} => part.name = "qtimer"
    /\ cpu.pc = "count" => hw.gpt.count <= hw.now - cpu.from
    /\ cpu.pc \in {"wrap", "reach"} => Aimed /\ WasRead

Waited == LongEnough(hist.asked, hist.unit, hist.waited)

ClockInv == ClockTyped /\ Timely /\ Reported /\ Reading /\ Delaying /\ Waited

-----------------------------------------------------------------------------
(* Arithmetic of clocks.                                                   *)

LEMMA Quotient ==
    ASSUME NEW a \in Nat, NEW b \in Nat \ {0}
    PROVE  a \div b \in Nat /\ (a \div b) * b <= a /\ a < (a \div b) * b + b
  <1> DEFINE q == a \div b
             r == a % b
  <1>1. q \in Nat /\ r \in 0..(b - 1) /\ a = b * q + r
    OBVIOUS
  <1> HIDE DEF q, r
  <1>2. b * q = q * b /\ b * q \in Nat
    BY <1>1
  <1>3. q \in Nat /\ q * b <= a /\ a < q * b + b
    BY <1>1, <1>2
  <1> QED BY <1>3 DEF q

LEMMA Times ==
    ASSUME NEW a \in Nat, NEW b \in Nat, NEW c \in Nat
    PROVE  /\ a * c \in Nat /\ a * c = c * a
           /\ a <= b => a * c <= b * c
           /\ (a + b) * c = a * c + b * c
           /\ (a * b) * c = a * (b * c)
  OBVIOUS

(* Quotients of numbers in order are in order.                             *)
LEMMA QuotientsInOrder ==
    ASSUME NEW q \in Nat, NEW r \in Nat, NEW d \in Nat, NEW x \in Nat, NEW y \in Nat,
           q * d <= x, x <= y, y < r * d + d
    PROVE  q <= r
  <1> SUFFICES ASSUME r + 1 <= q PROVE FALSE
    OBVIOUS
  <1>1. (r + 1) * d <= q * d /\ (r + 1) * d = r * d + 1 * d
    BY Times
  <1>2. q * d \in Nat /\ r * d \in Nat /\ 1 * d = d
    BY Times
  <1> QED BY <1>1, <1>2

LEMMA DivInOrder ==
    ASSUME NEW x \in Nat, NEW y \in Nat, NEW d \in Nat \ {0}, x <= y
    PROVE  x \div d <= y \div d
  <1> DEFINE q == x \div d
             r == y \div d
  <1>1. q \in Nat /\ r \in Nat /\ q * d <= x /\ y < r * d + d
    BY Quotient
  <1> HIDE DEF q, r
  <1>2. q <= r
    BY <1>1, QuotientsInOrder
  <1> QED BY <1>2 DEF q, r

LEMMA MilliFacts ==
    /\ Milli \in Nat \ {0} /\ Milli * Milli \in Nat \ {0} /\ Milli * Milli >= Milli
    /\ Interval \in Nat \ {0} /\ CountSize \in Nat \ {0} /\ WordSize \in Nat \ {0}
    /\ TicksPerSec \in Nat \ {0} /\ SleepRate \in Nat \ {0} /\ GptFactor \in Nat \ {0}
  <1>1. /\ Milli \in Nat \ {0} /\ Interval \in Nat \ {0} /\ CountSize \in Nat \ {0}
        /\ WordSize \in Nat \ {0} /\ TicksPerSec \in Nat \ {0} /\ SleepRate \in Nat \ {0}
        /\ GptFactor \in Nat \ {0}
    BY ClockConstants
  <1>2. 1 * Milli <= Milli * Milli /\ 1 * Milli = Milli /\ Milli * Milli \in Nat
    BY <1>1, Times
  <1> QED BY <1>1, <1>2

(* The seconds and microseconds of armemu's clock make milliseconds.       *)
LEMMA LatchedExact ==
    ASSUME NEW us \in Nat
    PROVE  /\ latched_ms(us) \in Nat
           /\ latched_ms(us) * Milli <= us /\ us < latched_ms(us) * Milli + Milli
  <1> DEFINE M == Milli
             S == M * M
             a == us \div S
             r == us % S
             b == r \div M
  <1>1. M \in Nat \ {0} /\ S \in Nat \ {0}
    BY MilliFacts
  <1>2. a \in Nat /\ r \in Nat /\ us = S * a + r
    <2> HIDE DEF S
    <2> QED BY <1>1
  <1>3. b \in Nat /\ b * M <= r /\ r < b * M + M
    <2> HIDE DEF r, M, S
    <2> QED BY <1>1, <1>2, Quotient
  <1>4. latched_ms(us) = a * M + b
    BY DEF latched_ms
  <1> HIDE DEF a, r, b, M
  <1>5. a * M \in Nat /\ b * M \in Nat /\ (a * M + b) * M = (a * M) * M + b * M
    BY <1>1, <1>2, <1>3, Times
  <1>6. (a * M) * M = S * a /\ S * a \in Nat
    BY <1>1, <1>2, Times
  <1> HIDE DEF S
  <1>7. a * M + b \in Nat /\ (a * M + b) * M <= us /\ us < (a * M + b) * M + M
    BY <1>1, <1>2, <1>3, <1>5, <1>6
  <1> QED BY <1>4, <1>7 DEF M

LEMMA PartFacts ==
    ASSUME NEW p \in Nat \ {0}, NEW d \in 1..p
    PROVE  /\ Part(p, d) \in Nat /\ Part(p, d) <= Interval
           /\ Part(p, d) * p <= (p - d) * Interval
           /\ \A e \in 1..d : Part(p, d) <= Part(p, e)
  <1> DEFINE x == (p - d) * Interval
  <1>1. Interval \in Nat /\ p - d \in Nat /\ p - d <= p
    BY MilliFacts
  <1>2. x \in Nat /\ x <= p * Interval /\ p * Interval = Interval * p
    BY <1>1, Times
  <1>3. Part(p, d) = x \div p
    BY DEF Part
  <1> HIDE DEF x
  <1>4. x \div p \in Nat /\ (x \div p) * p <= x
    BY <1>2, Quotient
  <1> DEFINE q == x \div p
  <1>5. q <= Interval
    <2> HIDE DEF q
    <2>1. Interval * p \in Nat /\ Interval * p < Interval * p + p
      BY <1>1, <1>2, Times
    <2> QED BY <1>1, <1>2, <1>4, <2>1, QuotientsInOrder DEF q
  <1>6. \A e \in 1..d : Part(p, d) <= Part(p, e)
    <2> TAKE e \in 1..d
    <2> DEFINE y == (p - e) * Interval
    <2>1. p - e \in Nat /\ p - d <= p - e
      BY <1>1
    <2>2. y \in Nat /\ x <= y
      BY <1>1, <2>1, Times DEF x
    <2>3. Part(p, e) = y \div p
      BY DEF Part
    <2> HIDE DEF y
    <2> QED BY <1>2, <1>3, <2>2, <2>3, DivInOrder
  <1> QED BY <1>3, <1>4, <1>5, <1>6 DEF x

LEMMA ClocksSound ==
    ASSUME part.name \in DOMAIN clocks
    PROVE  ClockSound(Board)
  <1> DEFINE P(rate) == (Interval * rate) \div Milli
             Q == (TicksPerSec \div Milli) * Interval
  <1>1. \A rate \in Nat : rate >= Milli => P(rate) \in Nat \ {0}
    <2> TAKE rate \in Nat
    <2> HAVE rate >= Milli
    <2> DEFINE x == Interval * rate
    <2>1. 1 * rate <= Interval * rate /\ 1 * rate = rate /\ x \in Nat /\ Milli \in Nat \ {0}
      BY MilliFacts, Times
    <2> HIDE DEF x
    <2>2. x >= Milli
      BY <2>1 DEF x
    <2>3. x \div Milli \in Nat /\ x < (x \div Milli) * Milli + Milli
      BY <2>1, Quotient
    <2> DEFINE q == x \div Milli
    <2>4. q # 0
      <3> HIDE DEF q
      <3>1. q = 0 => q * Milli = 0
        BY <2>1
      <3> QED BY <2>1, <2>2, <2>3, <3>1 DEF q
    <2> QED BY <2>3, <2>4 DEF x
  <1>2. Q \in Nat \ {0}
    <2> DEFINE q == TicksPerSec \div Milli
    <2>1. q \in Nat /\ TicksPerSec < q * Milli + Milli /\ Milli \in Nat /\ TicksPerSec \in Nat
          /\ TicksPerSec >= Milli /\ Interval \in Nat \ {0}
      BY MilliFacts, Quotient, ClockConstants
    <2> HIDE DEF q
    <2>2. q # 0
      <3>1. q = 0 => q * Milli = 0
        BY <2>1
      <3> QED BY <2>1, <3>1
    <2>3. 1 * Interval <= q * Interval /\ q * Interval \in Nat /\ 1 * Interval = Interval
      BY <2>1, <2>2, Times
    <2>4. q * Interval \in Nat \ {0}
      BY <2>1, <2>3
    <2> QED BY <2>4 DEF q
  <1>3. P(SleepRate) \in Nat \ {0} /\ P(TicksPerSec) \in Nat \ {0} /\ P(Milli * Milli) \in Nat \ {0}
    <2>1. SleepRate >= Milli /\ TicksPerSec >= Milli
      BY ClockConstants
    <2> HIDE DEF P
    <2> QED BY <1>1, <2>1, MilliFacts
  <1>4. PitCount \in Nat \ {0} /\ PitDelta \in Nat \ {0} /\ PitUnit \in Nat \ {0}
    BY ClockConstants
  <1> HIDE DEF P, Q
  <1>5. \A reads, rate :
          Clock(reads, rate) = [reads |-> reads, rate |-> rate, period |-> P(rate),
                                adds |-> Interval, unit |-> 1, counts |-> FALSE, stops |-> FALSE]
    BY Zenon DEF Clock, P
  <1>6. ClockSound(clock_msm) /\ ClockSound(clock_omap3) /\ ClockSound(clock_omap5912)
    BY <1>3, <1>5, MilliFacts DEF ClockSound, clock_msm, clock_omap3, clock_omap5912
  <1>7. ClockSound(clock_armemu)
    BY <1>3, <1>5, MilliFacts DEF ClockSound, clock_armemu
  <1>8. ClockSound(clock_qtimer) /\ ClockSound(clock_pc)
    BY <1>3, <1>4, <1>5, MilliFacts DEF ClockSound, clock_qtimer, clock_pc
  <1>9. ClockSound(clock_at91sam7)
    <2>1. clock_at91sam7 = [Clock("ticks", TicksPerSec) EXCEPT !.counts = TRUE, !.period = Q]
      BY DEF clock_at91sam7, Q
    <2> QED BY <1>2, <1>5, <2>1, MilliFacts DEF ClockSound
  <1>10. part.name \in {"msm", "qtimer", "pc", "at91sam7", "omap3", "armemu", "omap5912"}
    BY DEF clocks
  <1>11. Board \in {clock_msm, clock_qtimer, clock_pc, clock_at91sam7, clock_omap3, clock_armemu,
                    clock_omap5912}
    BY <1>10 DEF clocks, Board
  <1> QED BY Zenon, <1>6, <1>7, <1>8, <1>9, <1>11

(* Later ticks, counts and parts of a tick make a later time.              *)
LEMMA TimeInOrder ==
    ASSUME NEW b, ClockSound(b), NEW sys \in Nat, NEW now \in Nat, NEW sys2 \in Nat,
           NEW now2 \in Nat, NEW down, NEW pend, NEW down2, NEW pend2,
           sys <= sys2, now <= now2,
           b.reads = "both" => sys + PartOf(b, down, pend) <= sys2 + PartOf(b, down2, pend2)
    PROVE  TimeOf(b, sys, now, down, pend) <= TimeOf(b, sys2, now2, down2, pend2)
  <1>1. CASE b.reads = "ticks"
    <2>1. b.unit \in Nat \ {0}
      BY DEF ClockSound
    <2>2. sys \div b.unit <= sys2 \div b.unit
      BY <2>1, DivInOrder
    <2> QED BY <1>1, <2>2 DEF TimeOf
  <1>2. CASE b.reads = "counter"
    <2>1. b.rate \in Nat \ {0} /\ now * Milli \in Nat /\ now2 * Milli \in Nat
          /\ now * Milli <= now2 * Milli
      BY MilliFacts, Times DEF ClockSound
    <2>2. (now * Milli) \div b.rate <= (now2 * Milli) \div b.rate
      BY Zenon, <2>1, DivInOrder
    <2> QED BY Zenon, <1>2, <2>2 DEF TimeOf
  <1>3. CASE b.reads = "latch"
    <2> DEFINE q == latched_ms(now)
               r == latched_ms(now2)
    <2>1. q \in Nat /\ q * Milli <= now /\ r \in Nat /\ now2 < r * Milli + Milli
      BY LatchedExact
    <2> HIDE DEF q, r
    <2>2. q <= r
      BY <2>1, MilliFacts, QuotientsInOrder
    <2> QED BY <1>3, <2>2 DEF TimeOf, q, r
  <1>4. CASE b.reads = "both"
    BY <1>4 DEF TimeOf
  <1> QED BY <1>1, <1>2, <1>3, <1>4 DEF ClockSound

LEMMA TimeTyped ==
    ASSUME NEW b, ClockSound(b), NEW sys \in Nat, NEW now \in Nat, NEW down, NEW pend,
           b.reads = "both" => PartOf(b, down, pend) \in Nat
    PROVE  TimeOf(b, sys, now, down, pend) \in Nat
  <1>1. sys \div b.unit \in Nat
    BY Quotient DEF ClockSound
  <1>2. (now * Milli) \div b.rate \in Nat
    <2>1. now * Milli \in Nat /\ b.rate \in Nat \ {0}
      BY MilliFacts, Times DEF ClockSound
    <2> QED BY <2>1, Quotient
  <1>3. latched_ms(now) \in Nat
    BY LatchedExact
  <1> QED BY <1>1, <1>2, <1>3 DEF TimeOf, ClockSound

(* A count: what the timer has counted grows by one at most.               *)
LEMMA TimelyCount ==
    ASSUME NEW A \in Nat, NEW s \in Nat, NEW x \in Nat, NEW y \in Nat, NEW n \in Nat,
           s + A * x <= n * A, y <= x + 1
    PROVE  s + A * y <= (n + 1) * A
  <1>1. y * A <= (x + 1) * A /\ (x + 1) * A = x * A + 1 * A /\ (n + 1) * A = n * A + 1 * A
    BY Times
  <1>2. /\ y * A = A * y /\ x * A = A * x /\ 1 * A = A
        /\ A * x \in Nat /\ A * y \in Nat /\ n * A \in Nat
    BY Times
  <1> QED BY <1>1, <1>2

(* Ticks are served: what was pending becomes time.                        *)
LEMMA TimelyServed ==
    ASSUME NEW A \in Nat, NEW P \in Nat, NEW s \in Nat, NEW q \in Nat, NEW c \in Nat, NEW d \in Nat,
           NEW n \in Nat, s * P + A * (P * q + c) <= n * A, d <= c
    PROVE  (s + A * q) * P + A * (P * 0 + d) <= n * A
  <1>1. (s + A * q) * P = s * P + (A * q) * P
    BY Times
  <1>2. (A * q) * P = A * (q * P) /\ q * P = P * q /\ P * q \in Nat /\ P * 0 = 0
    BY Times
  <1>3. A * (P * q + c) = A * (P * q) + A * c
    <2> DEFINE x == P * q
    <2>1. x \in Nat
      BY <1>2
    <2> HIDE DEF x
    <2>2. (x + c) * A = x * A + c * A /\ (x + c) * A = A * (x + c) /\ x * A = A * x /\ c * A = A * c
      BY <2>1, Times
    <2> QED BY <2>2 DEF x
  <1>4. d * A <= c * A /\ d * A = A * d /\ c * A = A * c
    BY Times
  <1>5. s * P \in Nat /\ A * (P * q) \in Nat /\ A * c \in Nat /\ A * d \in Nat /\ n * A \in Nat
    BY <1>2, Times
  <1>6. P * 0 + d = d
    BY <1>2
  <1> QED BY <1>1, <1>2, <1>3, <1>4, <1>5, <1>6

(* Ticks served and the part of the running tick are not ahead.            *)
LEMMA TimelyShown ==
    ASSUME NEW A \in Nat, NEW P \in Nat, NEW s \in Nat, NEW q \in Nat, NEW c \in Nat, NEW n \in Nat,
           NEW t \in Nat, NEW k \in Nat, s * P + A * (P * q + c) <= n * A,
           t <= s, k * P <= c * A
    PROVE  (t + k) * P <= n * A
  <1>1. (t + k) * P = t * P + k * P /\ t * P <= s * P
    BY Times
  <1>2. P * q \in Nat
    BY Times
  <1>3. c * A <= (P * q + c) * A /\ (P * q + c) * A = A * (P * q + c)
    <2> DEFINE x == P * q + c
    <2>1. x \in Nat /\ c <= x
      BY <1>2
    <2> HIDE DEF x
    <2>2. c * A <= x * A /\ x * A = A * x
      BY <2>1, Times
    <2> QED BY <2>2 DEF x
  <1>4. t * P \in Nat /\ k * P \in Nat /\ s * P \in Nat /\ c * A \in Nat /\ n * A \in Nat
    BY Times
  <1>5. A * (P * q + c) \in Nat
    BY <1>2, Times
  <1> QED BY <1>1, <1>3, <1>4, <1>5

LEMMA PerSecFacts ==
    ASSUME NEW u \in Units
    PROVE  PerSec(u) \in Nat \ {0} /\ PerSec(u) >= Milli
  BY MilliFacts DEF PerSec, Units

(* qtimer.c's conversion is rounded down to less than a turn of the        *)
(* counter.                                                                *)
LEMMA TicksShort ==
    ASSUME NEW n \in Nat, NEW u \in Units
    PROVE  /\ to_ticks(n, u) \in Nat /\ to_ticks(n, u) < CountSize
           /\ n * TicksPerSec < WordSize => n * TicksPerSec < (to_ticks(n, u) + 1) * PerSec(u)
  <1> DEFINE p == n * TicksPerSec
             x == p % WordSize
             D == PerSec(u)
             q == x \div D
             C == CountSize
  <1>1. /\ p \in Nat /\ WordSize \in Nat \ {0} /\ D \in Nat \ {0} /\ D >= Milli /\ Milli \in Nat
        /\ C \in Nat /\ WordSize <= Milli * C
    BY MilliFacts, PerSecFacts, Times, ClockConstants
  <1>2. x \in Nat /\ x < WordSize /\ (p < WordSize => x = p)
    <2> HIDE DEF p
    <2> QED BY <1>1
  <1>3. to_ticks(n, u) = q
    BY DEF to_ticks
  <1> HIDE DEF x, D, p
  <1>4. q \in Nat /\ q * D <= x /\ x < q * D + D
    BY <1>1, <1>2, Quotient
  <1> HIDE DEF q, C
  <1>5. (q + 1) * D = q * D + 1 * D /\ 1 * D = D /\ q * D \in Nat
    BY <1>1, <1>4, Times
  <1>6. q < C
    <2> SUFFICES ASSUME C <= q PROVE FALSE
      BY <1>1, <1>4
    <2>1. C * D <= q * D /\ Milli * C <= D * C /\ D * C = C * D /\ Milli * C \in Nat /\ C * D \in Nat
      BY <1>1, <1>4, Times
    <2> QED BY <1>1, <1>2, <1>4, <1>5, <2>1
  <1>7. p < WordSize => p < (q + 1) * D
    BY <1>1, <1>2, <1>4, <1>5
  <1> QED BY <1>3, <1>4, <1>6, <1>7 DEF p, D, C

(* A longer wait is long enough as well.                                   *)
LEMMA QtimerLong ==
    ASSUME part.name = "qtimer", NEW n \in Nat, NEW u \in Units, NEW w \in Nat, w >= to_ticks(n, u)
    PROVE  LongEnough(n, u, w)
  <1> DEFINE k == to_ticks(n, u)
             D == PerSec(u)
             p == n * TicksPerSec
  <1>1. k \in Nat /\ D \in Nat /\ p \in Nat /\ (p < WordSize => p < (k + 1) * D)
    BY TicksShort, PerSecFacts, MilliFacts, Times
  <1>2. (k + 1) * D <= (w + 1) * D /\ (k + 1) * D \in Nat /\ (w + 1) * D \in Nat
    <2> HIDE DEF D
    <2>1. k + 1 \in Nat /\ w + 1 \in Nat /\ k + 1 <= w + 1
      BY <1>1
    <2> HIDE DEF k
    <2> QED BY <1>1, <2>1, Times
  <1> HIDE DEF k, D, p
  <1>3. p < WordSize => (w + 1) * D > p
    BY <1>1, <1>2
  <1> QED BY <1>3 DEF LongEnough, p, D

(* The delays of msm_shared/timer.c: GptFactor counts for a millisecond    *)
(* are enough, and what udelay rounds off is less than a microsecond.      *)
LEMMA GptLong ==
    ASSUME part.name = "msm", NEW n \in Nat, NEW u \in Units, NEW w \in Nat, w >= gpt_ticks(n, u)
    PROVE  LongEnough(n, u, w)
  <1> DEFINE G == GptFactor
             M == Milli
             R == SleepRate
             p == n * G
  <1>1. /\ G \in Nat \ {0} /\ M \in Nat \ {0} /\ R \in Nat \ {0} /\ G <= M /\ G * M >= R
        /\ WordSize \in Nat \ {0} /\ p \in Nat
    BY MilliFacts, ClockConstants, Times
  <1> SUFFICES ASSUME p + M - G < WordSize
               PROVE  IF u = "ms" THEN w * M >= n * R ELSE w * (M * M) > (n - 1) * R
    BY DEF LongEnough
  <1> HIDE DEF G, M, R, p
  <1>2. \A k \in Nat : R * k <= (G * M) * k
    BY <1>1, Times
  <1>3. CASE u = "ms"
    <2>1. p < WordSize
      BY <1>1
    <2>2. p % WordSize = p
      BY <1>1, <2>1
    <2>3. w >= p
      BY <1>3, <2>2 DEF gpt_ticks, p, G
    <2>4. p * M <= w * M /\ p * M = n * (G * M) /\ p * M \in Nat
      BY <1>1, <2>3, Times DEF p
    <2>5. n * R <= n * (G * M) /\ n * R \in Nat
      <3> DEFINE g == G * M
      <3>1. g \in Nat /\ R <= g
        BY <1>1, Times
      <3> HIDE DEF g
      <3>2. R * n <= g * n /\ R * n = n * R /\ g * n = n * g /\ n * R \in Nat
        BY <1>1, <3>1, Times
      <3> QED BY <3>2 DEF g
    <2>6. w * M \in Nat
      BY <1>1, Times
    <2> QED BY <1>3, <2>4, <2>5, <2>6
  <1>4. CASE u # "ms"
    <2> DEFINE x == p + M - G
               q == x \div M
    <2>1. x \in Nat /\ x < WordSize
      BY <1>1
    <2> HIDE DEF x
    <2>2. x % WordSize = x
      BY <1>1, <2>1
    <2>3. w >= q
      BY <1>4, <2>2 DEF gpt_ticks, p, G, M, x
    <2>4. q \in Nat /\ x < q * M + M
      BY <1>1, <2>1, Quotient
    <2> HIDE DEF q
    <2>5. q * M <= w * M /\ q * M \in Nat /\ w * M \in Nat
      BY <1>1, <2>3, <2>4, Times
    <2>6. p - G < w * M
      BY <1>1, <2>1, <2>4, <2>5 DEF x
    <2>7. CASE n = 0
      <3>1. (n - 1) * R < 0 /\ (n - 1) * R \in Int
        BY <1>1, <2>7
      <3>3. w * (M * M) \in Nat
        BY <1>1, Times
      <3> QED BY <1>4, <3>1, <3>3
    <2>8. CASE n # 0
      <3> DEFINE m == n - 1
                 y == w * M
      <3>1. m \in Nat /\ n = m + 1
        BY <2>8
      <3> HIDE DEF m
      <3>2. p = m * G + 1 * G /\ 1 * G = G /\ m * G \in Nat
        BY <1>1, <3>1, Times DEF p
      <3>3. m * G < y /\ y \in Nat
        BY <1>1, <2>5, <2>6, <3>2
      <3> HIDE DEF y
      <3> DEFINE z == m * G
      <3>4. z \in Nat /\ z + 1 <= y
        BY <3>2, <3>3
      <3>5. (m * G) * M = m * (G * M) /\ R * m <= (G * M) * m /\ (G * M) * m = m * (G * M)
            /\ R * m = m * R /\ m * R \in Nat /\ m * (G * M) \in Nat
        BY <1>1, <3>1, Times
      <3> HIDE DEF z
      <3>6. (z + 1) * M <= y * M /\ (z + 1) * M = z * M + 1 * M /\ 1 * M = M /\ z * M \in Nat
            /\ y * M \in Nat
        BY <1>1, <3>3, <3>4, Times
      <3>7. y * M = w * (M * M)
        BY <1>1, Times DEF y
      <3>8. z * M = (m * G) * M
        BY DEF z
      <3>9. m * R < y * M
        BY <1>1, <3>5, <3>6, <3>8
      <3> QED BY <1>4, <3>7, <3>9 DEF m
    <2> QED BY <2>7, <2>8
  <1> QED BY <1>3, <1>4

(* Two readings of the counter are in the same turn of it, or in different *)
(* ones.                                                                   *)
LEMMA Turns ==
    ASSUME NEW f \in Nat, NEW s \in Nat, f <= s
    PROVE  /\ f % CountSize \in 0..(CountSize - 1) /\ s % CountSize \in 0..(CountSize - 1)
           /\ \/ s - (s % CountSize) = f - (f % CountSize)
              \/ s - (s % CountSize) >= f - (f % CountSize) + CountSize
  <1> DEFINE C == CountSize
             q == f \div C
             r == s \div C
  <1>1. C \in Nat \ {0}
    BY ClockConstants
  <1> HIDE DEF C
  <1>2. /\ q \in Nat /\ f % C \in 0..(C - 1) /\ f = C * q + (f % C)
        /\ r \in Nat /\ s % C \in 0..(C - 1) /\ s = C * r + (s % C)
    BY <1>1
  <1> HIDE DEF q, r
  <1>3. CASE r = q
    BY <1>1, <1>2, <1>3 DEF C
  <1>4. CASE r >= q + 1
    <2>1. C * r >= C * (q + 1)
      BY <1>1, <1>2, <1>4
    <2>2. C * (q + 1) = C * q + C
      BY <1>1, <1>2
    <2> QED BY <1>1, <1>2, <2>1, <2>2 DEF C
  <1>5. CASE r + 1 <= q
    <2>1. C * q >= C * (r + 1)
      BY <1>1, <1>2, <1>5
    <2>2. C * (r + 1) = C * r + C
      BY <1>1, <1>2
    <2> QED BY <1>1, <1>2, <2>1, <2>2 DEF C
  <1> QED BY <1>2, <1>3, <1>4, <1>5

-----------------------------------------------------------------------------
(* The steps.                                                              *)

(* One step of the general purpose timer adds at most one to its count.    *)
LEMMA GptStep ==
    ASSUME NEW g \in GptRecords
    PROVE  /\ GptCounts(g) \in GptRecords
           /\ GptCounts(g).count <= g.count + 1
  <1> USE DEF GptRecords
  <1>1. CASE g.clear
    <2>1. GptCounts(g) = [g EXCEPT !.count = 0, !.clear = FALSE]
      BY <1>1 DEF GptCounts
    <2>2. GptCounts(g) = [count |-> 0, on |-> g.on, clear |-> FALSE]
      BY Zenon, <2>1
    <2> HIDE DEF GptCounts
    <2> QED BY <2>2
  <1>2. CASE ~g.clear /\ g.on
    <2>1. GptCounts(g) = [g EXCEPT !.count = g.count + 1]
      BY <1>2 DEF GptCounts
    <2> QED BY <2>1
  <1>3. CASE ~g.clear /\ ~g.on
    <2>1. GptCounts(g) = [g EXCEPT !.count = g.count]
      BY <1>3 DEF GptCounts
    <2> QED BY <2>1
  <1> QED BY <1>1, <1>2, <1>3

(* The operators of the model that read the board, when the board stays.   *)
LEMMA BoardStays ==
    ASSUME part' = part
    PROVE  /\ Board' = Board /\ Reads' = Reads /\ part'.name = part.name
           /\ \A t, c : NotAhead(t, c)' = NotAhead(t, c)
           /\ \A n, u, w : LongEnough(n, u, w)' = LongEnough(n, u, w)
  BY DEF Board, Reads, NotAhead, LongEnough, PerSec

(* Reported of the next state, spelled out.                                *)
LEMMA ReportedNext ==
    ASSUME part' = part,
           hist'.prev <= hist'.got, NotAhead(hist'.got, hist'.at),
           hist'.got <= TimeOf(Board, drv'.sys, hw'.now, hw'.down, hw'.pend),
           Board.reads = "both" => hw'.down >= 1 /\ hw'.pend <= 1
    PROVE  Reported'
  <1>1. Board' = Board /\ Reads' = Reads
    BY BoardStays
  <1>2. NotAhead(hist.got, hist.at)'
    BY <1>1 DEF NotAhead
  <1>3. TimeOf(Board, drv.sys, hw.now, hw.down, hw.pend)'
          = TimeOf(Board, drv'.sys, hw'.now, hw'.down, hw'.pend)
    BY <1>1 DEF TimeOf, PartOf, Part
  <1> QED BY <1>1, <1>2, <1>3 DEF Reported

LEMMA TimelyNext ==
    ASSUME part' = part, TimelyOf(Board, drv'.sys, hw'.pend, hw'.down, hw'.now)
    PROVE  Timely'
  BY BoardStays DEF Timely, TimelyOf, Counted

LEMMA WaitedNext ==
    ASSUME part' = part, LongEnough(hist'.asked, hist'.unit, hist'.waited)
    PROVE  Waited'
  BY BoardStays DEF Waited, LongEnough, PerSec

(* A step that leaves the timer, its time and what was reported alone.     *)
LEMMA ClockRests ==
    ASSUME ClockInv, part' = part, hw'.now = hw.now, hw'.down = hw.down, hw'.pend = hw.pend,
           drv'.sys = drv.sys, hist' = hist
    PROVE  Timely' /\ Reported' /\ Waited'
  <1>1. Timely'
    BY TimelyNext DEF ClockInv, Timely
  <1>2. Reported'
    BY ReportedNext DEF ClockInv, Reported
  <1>3. Waited'
    BY WaitedNext DEF ClockInv, Waited
  <1> QED BY <1>1, <1>2, <1>3

LEMMA CountedStep ==
    ASSUME NEW p \in Nat, NEW d \in 0..p, NEW e, d # 1, e = IF d = 0 THEN 0 ELSE d - 1
    PROVE  /\ Counted(e, p) <= Counted(d, p) + 1
           /\ Counted(e, p) \in Nat /\ Counted(d, p) \in Nat
  BY DEF Counted

LEMMA TimePassesKeeps ==
    ASSUME ClockInv, TimePasses
    PROVE  ClockInv'
  <1> USE DEF ClockInv
  <1> DEFINE P == Board.period
             tick == hw.down = 1
             down == IF tick THEN (IF Board.stops THEN 0 ELSE P)
                     ELSE IF hw.down = 0 THEN 0 ELSE hw.down - 1
             pend == IF ~tick THEN hw.pend ELSE IF Board.counts THEN hw.pend + 1 ELSE 1
             gpt == GptCounts(hw.gpt)
  <1>1. UNCHANGED <<part, drv, cpu, hist>>
    BY DEF TimePasses
  <1>2. hw' = [hw EXCEPT !.now = @ + 1, !.gpt = gpt, !.down = down, !.pend = pend]
    BY DEF TimePasses
  <1>s. ClockSound(Board)
    BY ClocksSound DEF ClockTyped
  <1>3. /\ hw.now \in Nat /\ hw.down \in 0..P /\ hw.pend \in Nat /\ hw.gpt \in GptRecords
        /\ P \in Nat \ {0} /\ Board.adds \in Nat /\ drv.sys \in Nat /\ hist.got \in Nat
    BY <1>s DEF ClockTyped, ClockSound, HwRecords, HistRecords
  <1> HIDE DEF P
  <1>4. down \in 0..P /\ pend \in Nat
    BY <1>3
  <1>5. gpt \in GptRecords /\ gpt.count <= hw.gpt.count + 1 /\ gpt.count \in Nat
    <2>1. gpt \in GptRecords /\ gpt.count <= hw.gpt.count + 1
      BY <1>3, GptStep
    <2> HIDE DEF gpt
    <2> QED BY <2>1 DEF GptRecords
  <1>6. /\ P * pend + Counted(down, P) <= (P * hw.pend + Counted(hw.down, P)) + 1
        /\ P * pend + Counted(down, P) \in Nat /\ P * hw.pend + Counted(hw.down, P) \in Nat
    <2>1. /\ P * hw.pend \in Nat /\ P * (hw.pend + 1) = P * hw.pend + P /\ P * 1 = P
      BY <1>3
    <2>2. CASE ~tick
      <3>1. pend = hw.pend /\ (hw.down = 0 => down = 0) /\ (hw.down > 1 => down = hw.down - 1)
        BY <2>2, <1>3
      <3> HIDE DEF pend, down
      <3> DEFINE x == P * hw.pend
      <3>2. x \in Nat /\ P * pend = x
        BY <2>1, <3>1
      <3> HIDE DEF x
      <3>4. hw.down # 1 /\ down = IF hw.down = 0 THEN 0 ELSE hw.down - 1
        BY <1>3, <2>2, <3>1
      <3>5. /\ Counted(down, P) <= Counted(hw.down, P) + 1
            /\ Counted(down, P) \in Nat /\ Counted(hw.down, P) \in Nat
        BY <1>3, <3>4, CountedStep
      <3>3. /\ x + Counted(down, P) <= (x + Counted(hw.down, P)) + 1
            /\ x + Counted(down, P) \in Nat /\ x + Counted(hw.down, P) \in Nat
        BY <3>2, <3>5
      <3> QED BY <3>2, <3>3 DEF x
    <2>3. CASE tick
      <3>1. (pend = hw.pend + 1 \/ pend = 1) /\ (down = 0 \/ down = P)
        BY <2>3, <1>3
      <3> HIDE DEF pend, down
      <3>2. P * pend <= P * hw.pend + P /\ P * pend \in Nat
        <4>1. CASE pend = hw.pend + 1
          BY <1>3, <2>1, <4>1
        <4>2. CASE pend = 1
          BY <1>3, <2>1, <4>2
        <4> QED BY <3>1, <4>1, <4>2
      <3>3. Counted(down, P) = 0 /\ Counted(hw.down, P) = P - 1
        BY <1>3, <2>3, <3>1 DEF Counted
      <3> QED BY <1>3, <2>1, <3>2, <3>3
    <2> QED BY <2>2, <2>3
  <1>8. Board.reads = "both" /\ hw.down >= 1 /\ hw.pend <= 1 =>
          /\ down >= 1 /\ pend <= 1
          /\ PartOf(Board, hw.down, hw.pend) <= PartOf(Board, down, pend)
          /\ PartOf(Board, hw.down, hw.pend) \in Nat /\ PartOf(Board, down, pend) \in Nat
    <2> SUFFICES ASSUME Board.reads = "both", hw.down >= 1, hw.pend <= 1
                 PROVE  /\ down >= 1 /\ pend <= 1
                        /\ PartOf(Board, hw.down, hw.pend) <= PartOf(Board, down, pend)
                        /\ PartOf(Board, hw.down, hw.pend) \in Nat /\ PartOf(Board, down, pend) \in Nat
      OBVIOUS
    <2>1. ~Board.stops /\ ~Board.counts
      BY <1>s DEF ClockSound
    <2>2. /\ tick => down = P /\ pend = 1
          /\ ~tick => down = hw.down - 1 /\ down >= 1 /\ pend = hw.pend
      BY <1>3, <2>1
    <2> HIDE DEF down, pend, tick
    <2>3. Interval \in Nat /\ hw.down \in 1..P /\ down \in 1..P /\ pend <= 1
      BY <1>3, <2>2, MilliFacts
    <2>4. /\ Part(P, hw.down) \in Nat /\ Part(P, hw.down) <= Interval /\ Part(P, down) \in Nat
          /\ \A e \in 1..hw.down : Part(P, hw.down) <= Part(P, e)
      BY <1>3, <2>3, PartFacts
    <2>5. ~tick => Part(P, hw.down) <= Part(P, down)
      <3>1. ~tick => down \in 1..hw.down
        BY <1>3, <2>2, <2>3
      <3> QED BY <2>4, <3>1
    <2>6. /\ PartOf(Board, hw.down, hw.pend) = IF hw.pend = 0 THEN Part(P, hw.down) ELSE Interval
          /\ PartOf(Board, down, pend) = IF pend = 0 THEN Part(P, down) ELSE Interval
      BY DEF PartOf, P
    <2> QED BY <2>2, <2>3, <2>4, <2>5, <2>6
  <1> HIDE DEF down, pend, gpt, tick
  <1>9. /\ hw'.now = hw.now + 1 /\ hw'.gpt = gpt /\ hw'.down = down /\ hw'.pend = pend
        /\ hw' \in HwRecords(P)
    <2>1. hw \in HwRecords(P)
      BY DEF ClockTyped, P
    <2> HIDE DEF ClockInv
    <2>2. hw' = [now |-> hw.now + 1, down |-> down, pend |-> pend, gpt |-> gpt]
      BY Zenon, <2>1, <1>2 DEF HwRecords
    <2> QED BY <2>2, <1>3, <1>4, <1>5 DEF HwRecords
  <1>b. Board' = Board
    BY <1>1, BoardStays
  <1>10. ClockTyped'
    BY <1>1, <1>9, <1>b DEF ClockTyped, IsTimer, P
  <1>11. Timely'
    <2> DEFINE x == P * hw.pend + Counted(hw.down, P)
               y == P * pend + Counted(down, P)
               s == drv.sys * P
    <2>1. s + Board.adds * x <= hw.now * Board.adds /\ s \in Nat
      BY <1>3, Times DEF Timely, TimelyOf, P
    <2>2. x \in Nat /\ y \in Nat /\ y <= x + 1
      BY <1>6
    <2> HIDE DEF x, y, s
    <2>3. s + Board.adds * y <= (hw.now + 1) * Board.adds
      BY <1>3, <2>1, <2>2, TimelyCount
    <2>4. TimelyOf(Board, drv'.sys, hw'.pend, hw'.down, hw'.now)
      BY <1>1, <1>9, <2>3 DEF TimelyOf, P, s, y
    <2> QED BY <1>1, <2>4, TimelyNext
  <1>12. Reported'
    <2>1. Board.reads = "both" =>
            /\ down >= 1 /\ pend <= 1
            /\ drv.sys + PartOf(Board, hw.down, hw.pend) <= drv.sys + PartOf(Board, down, pend)
      BY <1>3, <1>8 DEF Reported
    <2>2. TimeOf(Board, drv.sys, hw.now, hw.down, hw.pend)
            <= TimeOf(Board, drv.sys, hw.now + 1, down, pend)
      BY <1>3, <1>s, <2>1, TimeInOrder
    <2> DEFINE T1 == TimeOf(Board, drv.sys, hw.now, hw.down, hw.pend)
               T2 == TimeOf(Board, drv.sys, hw.now + 1, down, pend)
    <2>4. T1 \in Nat /\ T2 \in Nat
      <3>1. /\ Board.reads = "both" => PartOf(Board, hw.down, hw.pend) \in Nat
            /\ Board.reads = "both" => PartOf(Board, down, pend) \in Nat
            /\ hw.now + 1 \in Nat
        BY <1>3, <1>8 DEF Reported
      <3> QED BY Zenon, <1>3, <1>s, <3>1, TimeTyped
    <2>5. hist.got <= T1
      BY DEF Reported
    <2>3. hist.got <= T2
      <3> HIDE DEF T1, T2, ClockInv
      <3>1. T1 <= T2
        BY <2>2 DEF T1, T2
      <3> QED BY <1>3, <2>4, <2>5, <3>1
    <2> QED BY <1>1, <1>9, <2>1, <2>3, ReportedNext DEF Reported
  <1>13. Reading' /\ Waited'
    <2>1. Waited'
      BY <1>1, WaitedNext DEF Waited
    <2>2. Reading'
      BY <1>1, <1>b DEF Reading, Part
    <2> QED BY <2>1, <2>2
  <1>14. Delaying'
    <2>1. \A s \in Nat : ReadAt(s) => ReadAt(s)'
      BY <1>1, <1>3, <1>9 DEF ReadAt
    <2>2. cpu.from \in Nat /\ hw.gpt.count \in Nat
      BY DEF ClockTyped, CpuRecords, HwRecords, GptRecords
    <2>3. cpu.pc = "count" => gpt.count <= hw.now + 1 - cpu.from
      BY <1>3, <1>5, <2>2 DEF Delaying
    <2>4. cpu.from <= hw.now => cpu.from <= hw.now + 1
      BY <1>3, <2>2
    <2> HIDE DEF ClockInv
    <2>5. Delaying
      BY DEF ClockInv
    <2>6. WasRead => WasRead'
      BY <2>1 DEF WasRead
    <2>7. hw'.now = hw.now + 1 /\ hw'.gpt.count = gpt.count /\ cpu' = cpu /\ part' = part
      BY <1>1, <1>9
    <2>8. Aimed => Aimed'
      BY <2>7 DEF Aimed, to_ticks, PerSec
    <2>9. (cpu.pc \in {"zero", "count", "wrap", "reach"} => cpu.from <= hw.now)'
      BY <2>4, <2>5, <2>7 DEF Delaying
    <2>10. (cpu.pc = "count" => hw.gpt.count <= hw.now - cpu.from)'
      BY <1>3, <1>5, <2>2, <2>3, <2>7
    <2>11. (/\ cpu.pc \in {"zero", "count"} => part.name = "msm"
            /\ cpu.pc \in {"wrap", "reach"} => part.name = "qtimer")'
      BY <2>5, <2>7 DEF Delaying
    <2>12. (cpu.pc \in {"wrap", "reach"} => Aimed /\ WasRead)'
      BY <2>5, <2>6, <2>7, <2>8 DEF Delaying
    <2> QED BY <2>9, <2>10, <2>11, <2>12 DEF Delaying
  <1> QED BY <1>10, <1>11, <1>12, <1>13, <1>14

LEMMA TimerIrqKeeps ==
    ASSUME ClockInv, timer_irq
    PROVE  ClockInv'
  <1> DEFINE P == Board.period
             A == Board.adds
             sys == drv.sys + A * hw.pend
             trigger == IF sys >= drv.trigger
                        THEN sys + Interval * Board.unit - (sys - drv.trigger) ELSE drv.trigger
             down == IF Board.stops THEN P ELSE hw.down
  <1>1. ClockTyped /\ Timely /\ Reported /\ Reading /\ Delaying /\ Waited
    BY DEF ClockInv
  <1>2. UNCHANGED <<part, cpu, hist>> /\ hw.pend > 0 /\ drv.ints
    BY DEF timer_irq
  <1>3. /\ hw' = [hw EXCEPT !.pend = 0, !.down = down]
        /\ drv' = [drv EXCEPT !.sys = sys, !.trigger = trigger]
    BY DEF timer_irq
  <1>s. ClockSound(Board)
    BY <1>1, ClocksSound DEF ClockTyped
  <1>4. hw \in HwRecords(P) /\ drv \in [sys : Nat, ints : BOOLEAN, trigger : Int]
    BY <1>1 DEF ClockTyped
  <1>5. /\ hw.now \in Nat /\ hw.down \in 0..P /\ hw.pend \in Nat /\ drv.sys \in Nat
        /\ drv.trigger \in Int /\ hist.got \in Nat /\ cpu.first \in Nat /\ cpu.t \in Nat
    BY <1>1, <1>4 DEF ClockTyped, HwRecords, CpuRecords, HistRecords
  <1>a. P \in Nat \ {0} /\ A \in Nat \ {0} /\ Board.unit \in Nat \ {0} /\ Interval \in Nat
    BY <1>s, MilliFacts DEF ClockSound
  <1> HIDE DEF P, A
  <1>6. A * hw.pend \in Nat /\ (hw.pend = 1 => A * hw.pend = A)
    BY <1>5, <1>a
  <1>7. sys \in Nat /\ sys >= drv.sys /\ (hw.pend = 1 => sys = drv.sys + A)
    BY <1>5, <1>6, <1>a
  <1>8. Interval * Board.unit \in Nat
    BY <1>a, Times
  <1> HIDE DEF sys
  <1>9. trigger \in Int
    BY <1>5, <1>7, <1>8
  <1>10. /\ down \in 0..P /\ (~Board.stops => down = hw.down)
         /\ Counted(down, P) <= Counted(hw.down, P) /\ Counted(down, P) \in Nat
         /\ Counted(hw.down, P) \in Nat
    BY <1>5, <1>a DEF Counted
  <1> HIDE DEF trigger, down
  <1>11. /\ hw' = [now |-> hw.now, down |-> down, pend |-> 0, gpt |-> hw.gpt]
         /\ drv' = [sys |-> sys, ints |-> drv.ints, trigger |-> trigger]
    BY Zenon, <1>3, <1>4 DEF HwRecords
  <1>12. /\ hw'.now = hw.now /\ hw'.down = down /\ hw'.pend = 0 /\ hw'.gpt = hw.gpt
         /\ drv'.sys = sys /\ drv'.ints = drv.ints
    BY <1>11
  <1>b. Board' = Board
    BY <1>2, BoardStays
  <1>13. ClockTyped'
    <2>1. hw' \in HwRecords(P)
      BY <1>4, <1>5, <1>10, <1>11 DEF HwRecords
    <2>2. drv' \in [sys : Nat, ints : BOOLEAN, trigger : Int]
      BY <1>4, <1>7, <1>9, <1>11
    <2> QED BY <1>1, <1>2, <1>b, <2>1, <2>2 DEF ClockTyped, IsTimer, P
  <1>14. Timely'
    <2>1. drv.sys * P + A * (P * hw.pend + Counted(hw.down, P)) <= hw.now * A
      BY <1>1 DEF Timely, TimelyOf, P, A
    <2>2. (drv.sys + A * hw.pend) * P + A * (P * 0 + Counted(down, P)) <= hw.now * A
      BY <1>5, <1>10, <1>a, <2>1, TimelyServed
    <2>3. TimelyOf(Board, drv'.sys, hw'.pend, hw'.down, hw'.now)
      BY <1>12, <2>2 DEF TimelyOf, P, A, sys
    <2> QED BY <1>2, <2>3, TimelyNext
  <1>15. Reported'
    <2>1. Board.reads = "both" =>
            /\ down >= 1 /\ PartOf(Board, hw.down, hw.pend) \in Nat /\ PartOf(Board, down, 0) \in Nat
            /\ drv.sys + PartOf(Board, hw.down, hw.pend) <= sys + PartOf(Board, down, 0)
      <3> SUFFICES ASSUME Board.reads = "both"
                   PROVE  /\ down >= 1 /\ PartOf(Board, hw.down, hw.pend) \in Nat
                          /\ PartOf(Board, down, 0) \in Nat
                          /\ drv.sys + PartOf(Board, hw.down, hw.pend) <= sys + PartOf(Board, down, 0)
        OBVIOUS
      <3>1. down = hw.down /\ A = Interval /\ hw.down >= 1 /\ hw.pend = 1
        BY <1>1, <1>2, <1>5, <1>10, <1>s DEF ClockSound, Reported, A
      <3>2. Part(P, down) \in Nat
        BY <1>5, <1>a, <3>1, PartFacts
      <3>3. PartOf(Board, hw.down, hw.pend) = Interval /\ PartOf(Board, down, 0) = Part(P, down)
        BY <3>1 DEF PartOf, P
      <3> QED BY <1>5, <1>7, <1>a, <3>1, <3>2, <3>3
    <2> DEFINE T1 == TimeOf(Board, drv.sys, hw.now, hw.down, hw.pend)
               T2 == TimeOf(Board, sys, hw.now, down, 0)
    <2>2. T1 <= T2
      <3>1. drv.sys <= sys /\ hw.now <= hw.now
        BY <1>5, <1>7
      <3> QED BY <1>5, <1>7, <1>s, <2>1, <3>1, TimeInOrder
    <2>3. T1 \in Nat /\ T2 \in Nat
      BY Zenon, <1>5, <1>7, <1>s, <2>1, TimeTyped
    <2>4. hist.got <= T1
      BY <1>1 DEF Reported
    <2> HIDE DEF T1
    <2>5. hist.got <= T2
      <3> HIDE DEF T2
      <3> QED BY <1>5, <2>2, <2>3, <2>4
    <2>6. hist'.prev <= hist'.got /\ NotAhead(hist'.got, hist'.at)
      BY <1>1, <1>2 DEF Reported
    <2>7. hist'.got <= TimeOf(Board, drv'.sys, hw'.now, hw'.down, hw'.pend)
      BY <1>2, <1>12, <2>5
    <2>8. Board.reads = "both" => hw'.down >= 1 /\ hw'.pend <= 1
      BY <1>12, <2>1
    <2> QED BY <1>2, <2>6, <2>7, <2>8, ReportedNext
  <1>16. Reading'
    <2>1. Board.reads = "both" /\ cpu.pc \in {"time", "second"} =>
            /\ drv.ints => hist.got <= (IF cpu.pc = "time" THEN sys ELSE cpu.t)
                                       + Part(P, cpu.first)
            /\ cpu.pc = "second" => cpu.t <= sys
      <3> SUFFICES ASSUME Board.reads = "both", cpu.pc \in {"time", "second"}
                   PROVE  /\ hist.got <= (IF cpu.pc = "time" THEN sys ELSE cpu.t)
                                         + Part(P, cpu.first)
                          /\ cpu.pc = "second" => cpu.t <= sys
        BY <1>2
      <3>1. /\ cpu.first \in 1..P
            /\ hist.got <= (IF cpu.pc = "time" THEN drv.sys ELSE cpu.t) + Part(P, cpu.first)
            /\ cpu.pc = "second" => cpu.t <= drv.sys
        BY <1>1, <1>2 DEF Reading, P
      <3>2. Part(P, cpu.first) \in Nat
        BY <1>a, <3>1, PartFacts
      <3> QED BY <1>5, <1>7, <3>1, <3>2
    <2> QED BY <1>1, <1>2, <1>12, <1>b, <2>1 DEF Reading, P, Part
  <1>17. Delaying' /\ Waited'
    <2>1. Aimed' = Aimed /\ WasRead' = WasRead
      BY <1>2, <1>12 DEF Aimed, WasRead, ReadAt, to_ticks, PerSec
    <2>2. Delaying'
      BY <1>1, <1>2, <1>12, <2>1 DEF Delaying
    <2>3. Waited'
      BY <1>1, <1>2, WaitedNext DEF Waited
    <2> QED BY <2>2, <2>3
  <1> QED BY <1>13, <1>14, <1>15, <1>16, <1>17 DEF ClockInv

(* The caller of current_time gets a time that is neither behind the last  *)
(* one nor ahead of the clock.                                             *)
LEMMA ReportsKeeps ==
    ASSUME ClockInv, NEW t \in Nat, Reports(t), UNCHANGED <<part, hw, drv>>,
           drv.ints => /\ hist.got <= t /\ NotAhead(t, hw.now)
                       /\ t <= TimeOf(Board, drv.sys, hw.now, hw.down, hw.pend)
    PROVE  ClockInv'
  <1>1. ClockTyped /\ Timely /\ Reported /\ Reading /\ Delaying /\ Waited
    BY DEF ClockInv
  <1>2. cpu \in CpuRecords /\ hist \in HistRecords /\ hw.now \in Nat
    BY <1>1 DEF ClockTyped, HwRecords
  <1>3. cpu' = [cpu EXCEPT !.pc = "run"]
    BY DEF Reports
  <1>4. cpu' \in CpuRecords /\ cpu'.pc = "run"
    BY <1>2, <1>3 DEF ClockPlaces, CpuRecords
  <1>5. Reading' /\ Delaying'
    BY <1>4 DEF Reading, Delaying
  <1>6. Timely' /\ Board' = Board
    BY <1>1, BoardStays, TimelyNext DEF Timely
  <1>7. CASE ~drv.ints
    <2>1. hist' = hist
      BY <1>7 DEF Reports
    <2>2. Reported' /\ Waited'
      BY <2>1, ClockRests
    <2>3. ClockTyped'
      BY <1>1, <1>4, <1>6, <2>1 DEF ClockTyped, IsTimer
    <2> QED BY <1>5, <1>6, <2>2, <2>3 DEF ClockInv
  <1>8. CASE drv.ints
    <2>1. hist' = [hist EXCEPT !.prev = hist.got, !.got = t, !.at = hw.now]
      BY <1>8 DEF Reports
    <2>2. hist' = [prev |-> hist.got, got |-> t, at |-> hw.now, asked |-> hist.asked,
                   unit |-> hist.unit, waited |-> hist.waited]
      BY Zenon, <1>2, <2>1 DEF HistRecords
    <2>a. hist' \in HistRecords
      BY <1>2, <2>2 DEF HistRecords
    <2>3. ClockTyped'
      BY <1>1, <1>4, <1>6, <2>a DEF ClockTyped, IsTimer
    <2>4. /\ hist'.prev = hist.got /\ hist'.got = t /\ hist'.at = hw.now
          /\ hist'.asked = hist.asked /\ hist'.unit = hist.unit /\ hist'.waited = hist.waited
      BY <2>2
    <2>5. Waited'
      BY <1>1, <2>4, WaitedNext DEF Waited
    <2>6. Reported'
      BY <1>1, <1>8, <2>4, ReportedNext DEF Reported
    <2> QED BY <1>5, <1>6, <2>3, <2>5, <2>6 DEF ClockInv
  <1> QED BY <1>7, <1>8

(* A step of the caller alone.                                             *)
LEMMA CallerMoves ==
    ASSUME ClockInv, UNCHANGED <<part, hw, drv, hist>>, cpu' \in CpuRecords
    PROVE  ClockTyped' /\ Timely' /\ Reported' /\ Waited'
  <1>1. Timely' /\ Reported' /\ Waited'
    BY ClockRests
  <1>2. ClockTyped'
    BY BoardStays DEF ClockInv, ClockTyped, IsTimer
  <1> QED BY <1>1, <1>2

LEMMA CriticalKeeps ==
    ASSUME ClockInv, Critical
    PROVE  ClockInv'
  <1>1. UNCHANGED <<part, hw, cpu, hist>> /\ cpu.pc = "run"
    BY DEF Critical, OnTimer, At
  <1>2. drv \in [sys : Nat, ints : BOOLEAN, trigger : Int]
    BY DEF ClockInv, ClockTyped
  <1>3. drv' = [drv EXCEPT !.ints = ~drv.ints]
    BY DEF Critical
  <1>4. drv' \in [sys : Nat, ints : BOOLEAN, trigger : Int] /\ drv'.sys = drv.sys
    BY Zenon, <1>2, <1>3
  <1>5. Reading' /\ Delaying'
    BY <1>1 DEF Reading, Delaying
  <1>6. Timely' /\ Reported' /\ Waited'
    BY <1>1, <1>4, ClockRests
  <1>7. ClockTyped'
    BY <1>1, <1>4, BoardStays DEF ClockInv, ClockTyped, IsTimer
  <1> QED BY <1>5, <1>6, <1>7 DEF ClockInv

(* The numbers of a sound state.                                           *)
LEMMA ClockNumbers ==
    ASSUME ClockInv
    PROVE  /\ ClockSound(Board) /\ Board.period \in Nat \ {0} /\ Board.adds \in Nat \ {0}
           /\ drv.sys \in Nat /\ hw.now \in Nat /\ hw.pend \in Nat /\ hw.down \in 0..Board.period
           /\ hist.got \in Nat /\ hist.at \in Nat /\ cpu.t \in Nat /\ cpu.first \in Nat
           /\ cpu.cnt \in Nat /\ cpu.n \in Nat /\ cpu.unit \in Units /\ cpu.from \in Nat
           /\ Counted(hw.down, Board.period) \in Nat
  <1>1. ClockSound(Board)
    BY ClocksSound DEF ClockInv, ClockTyped
  <1>2. Board.period \in Nat \ {0} /\ Board.adds \in Nat \ {0}
    BY <1>1 DEF ClockSound
  <1>3. /\ drv.sys \in Nat /\ hw.now \in Nat /\ hw.pend \in Nat /\ hw.down \in 0..Board.period
        /\ hist.got \in Nat /\ hist.at \in Nat /\ cpu.t \in Nat /\ cpu.first \in Nat
        /\ cpu.cnt \in Nat /\ cpu.n \in Nat /\ cpu.unit \in Units /\ cpu.from \in Nat
    BY DEF ClockInv, ClockTyped, HwRecords, CpuRecords, HistRecords
  <1>4. Counted(hw.down, Board.period) \in Nat
    BY <1>2, <1>3 DEF Counted
  <1> QED BY <1>1, <1>2, <1>3, <1>4

(* The time and a part of the running tick are not ahead of the counts.    *)
LEMMA ShownNotAhead ==
    ASSUME ClockInv, NEW t \in Nat, NEW k \in Nat, t <= drv.sys,
           k * Board.period <= Counted(hw.down, Board.period) * Board.adds
    PROVE  (t + k) * Board.period <= hw.now * Board.adds
  <1>1. drv.sys * Board.period
          + Board.adds * (Board.period * hw.pend + Counted(hw.down, Board.period))
          <= hw.now * Board.adds
    BY DEF ClockInv, Timely, TimelyOf
  <1> QED BY <1>1, ClockNumbers, TimelyShown

(* current_time of the tick counters and of armemu, one read.              *)
LEMMA CurrentTimeTicksKeeps ==
    ASSUME ClockInv, current_time_ticks
    PROVE  ClockInv'
  <1> DEFINE t == IF Reads = "ticks" THEN drv.sys \div Board.unit ELSE latched_ms(hw.now)
  <1>1. Reports(t) /\ UNCHANGED <<part, hw, drv>> /\ Reads \in {"ticks", "latch"}
    BY DEF current_time_ticks
  <1>2. Reads = Board.reads
    BY DEF Reads
  <1>3. t = TimeOf(Board, drv.sys, hw.now, hw.down, hw.pend)
    BY <1>1, <1>2 DEF TimeOf
  <1>4. t \in Nat
    BY <1>1, <1>2, <1>3, ClockNumbers, TimeTyped
  <1>5. NotAhead(t, hw.now)
    <2>1. CASE Reads = "ticks"
      <3> DEFINE q == drv.sys \div Board.unit
                 k == q * Board.unit
      <3>1. Board.unit \in Nat \ {0}
        BY ClockNumbers DEF ClockSound
      <3>2. q \in Nat /\ k <= drv.sys
        BY <3>1, ClockNumbers, Quotient
      <3> HIDE DEF q
      <3>3. k \in Nat
        BY <3>1, <3>2, Times
      <3> HIDE DEF k
      <3>4. 0 * Board.period <= Counted(hw.down, Board.period) * Board.adds /\ k + 0 = k
        <4>1. Counted(hw.down, Board.period) * Board.adds \in Nat /\ 0 * Board.period = 0
          BY ClockNumbers, Times
        <4> QED BY <3>3, <4>1
      <3>5. (k + 0) * Board.period <= hw.now * Board.adds
        BY <3>2, <3>3, <3>4, ShownNotAhead
      <3>6. (q * Board.unit) * Board.period <= hw.now * Board.adds
        BY <3>4, <3>5 DEF k
      <3> QED BY <2>1, <3>6 DEF NotAhead, q
    <2>2. CASE Reads = "latch"
      <3> DEFINE q == latched_ms(hw.now)
      <3>1. q \in Nat /\ q * Milli <= hw.now /\ hw.now \in Nat /\ Milli \in Nat
        BY ClockNumbers, LatchedExact, MilliFacts
      <3> HIDE DEF q
      <3>2. (q * Milli) * Milli <= hw.now * Milli /\ (q * Milli) * Milli = q * (Milli * Milli)
        <4>1. q * Milli \in Nat
          BY <3>1, Times
        <4> QED BY <3>1, <4>1, Times
      <3>3. Board.rate = Milli * Milli
        BY <1>2, <2>2, ClockNumbers DEF ClockSound
      <3> QED BY <2>2, <3>2, <3>3 DEF NotAhead, q
    <2> QED BY <1>1, <2>1, <2>2
  <1>6. hist.got <= t /\ t <= t
    BY <1>3, <1>4 DEF ClockInv, Reported
  <1> HIDE DEF t
  <1> QED BY <1>1, <1>3, <1>4, <1>5, <1>6, ReportsKeeps

LEMMA CurrentTimeKeeps ==
    ASSUME ClockInv, current_time
    PROVE  ClockInv'
  <1>1. cpu' = [cpu EXCEPT !.pc = "first"] /\ UNCHANGED <<part, hw, drv, hist>>
    BY DEF current_time
  <1>2. cpu' \in CpuRecords /\ cpu'.pc = "first"
    BY <1>1 DEF ClockInv, ClockTyped, CpuRecords, ClockPlaces
  <1>3. Board'.reads \in {"counter", "both"}
    BY <1>1, BoardStays DEF current_time, Reads
  <1>4. Reading' /\ Delaying'
    BY <1>2, <1>3 DEF Reading, Delaying
  <1> QED BY <1>1, <1>2, <1>4, CallerMoves DEF ClockInv

LEMMA FirstReadKeeps ==
    ASSUME ClockInv, FirstRead
    PROVE  ClockInv'
  <1>1. UNCHANGED <<part, hw, drv, hist>> /\ Undisturbed /\ cpu.pc = "first"
    BY DEF FirstRead, OnTimer, At
  <1>2. Counter \in Nat /\ (Board.reads = "both" => Counter = hw.down)
    BY ClockNumbers DEF Counter, Reads
  <1>3. cpu' = [cpu EXCEPT !.pc = "time", !.first = Counter]
    BY DEF FirstRead
  <1>4. cpu' \in CpuRecords /\ cpu'.pc = "time" /\ cpu'.first = Counter
    BY Zenon, <1>2, <1>3 DEF ClockInv, ClockTyped, CpuRecords, ClockPlaces
  <1>5. Board.reads = "both" =>
          /\ hw.down \in 1..Board.period
          /\ drv.ints => hist.got <= drv.sys + Part(Board.period, hw.down)
    <2>1. drv.ints => hw.pend = 0
      BY <1>1, ClockNumbers DEF Undisturbed
    <2>2. Board.reads = "both" => hw.down >= 1
      BY DEF ClockInv, Reported
    <2>3. Board.reads = "both" => TimeOf(Board, drv.sys, hw.now, hw.down, hw.pend)
                                    = drv.sys + PartOf(Board, hw.down, hw.pend)
      BY DEF TimeOf
    <2>4. hist.got <= TimeOf(Board, drv.sys, hw.now, hw.down, hw.pend)
      BY DEF ClockInv, Reported
    <2>5. Board.reads = "both" => hw.down \in 1..Board.period
      BY <2>2, ClockNumbers
    <2> QED BY <2>1, <2>3, <2>4, <2>5 DEF PartOf
  <1>6. Reading'
    BY <1>1, <1>2, <1>4, <1>5, BoardStays DEF ClockInv, Reading, Part
  <1>7. Delaying'
    BY <1>4 DEF Delaying
  <1> QED BY <1>1, <1>4, <1>6, <1>7, CallerMoves DEF ClockInv

LEMMA TimeReadKeeps ==
    ASSUME ClockInv, TimeRead
    PROVE  ClockInv'
  <1>1. UNCHANGED <<part, hw, drv, hist>> /\ cpu.pc = "time"
    BY DEF TimeRead, OnTimer, At
  <1>2. drv.sys \in Nat /\ drv.sys <= drv.sys
    BY ClockNumbers
  <1>3. cpu' = [cpu EXCEPT !.pc = "second", !.t = drv.sys]
    BY DEF TimeRead
  <1>4. cpu' \in CpuRecords /\ cpu'.pc = "second" /\ cpu'.t = drv.sys /\ cpu'.first = cpu.first
    BY Zenon, <1>2, <1>3 DEF ClockInv, ClockTyped, CpuRecords, ClockPlaces
  <1>5. Reading'
    BY <1>1, <1>2, <1>4, BoardStays DEF ClockInv, Reading, Part
  <1>6. Delaying'
    BY <1>4 DEF Delaying
  <1> QED BY <1>1, <1>4, <1>5, <1>6, CallerMoves DEF ClockInv

LEMMA SecondReadKeeps ==
    ASSUME ClockInv, SecondRead
    PROVE  ClockInv'
  <1> DEFINE P == Board.period
             t == IF Reads = "counter" THEN counter_ms(Counter) ELSE cpu.t + part_ms(Counter)
             T == TimeOf(Board, drv.sys, hw.now, hw.down, hw.pend)
  <1>1. UNCHANGED <<part, hw, drv>> /\ cpu.pc = "second" /\ Undisturbed
    BY DEF SecondRead, OnTimer, At
  <1>2. Reads = Board.reads /\ Board.reads \in {"counter", "both"}
    BY <1>1 DEF ClockInv, Reading, Reads
  <1>3. CASE MustRetry(Counter)
    <2>1. cpu' = [cpu EXCEPT !.pc = "first"] /\ UNCHANGED hist
      BY <1>3 DEF SecondRead
    <2>2. cpu' \in CpuRecords /\ cpu'.pc = "first"
      BY <2>1 DEF ClockInv, ClockTyped, CpuRecords, ClockPlaces
    <2>3. Reading' /\ Delaying'
      BY <1>1, <1>2, <2>2, BoardStays DEF Reading, Delaying
    <2> QED BY <1>1, <2>1, <2>2, <2>3, CallerMoves DEF ClockInv
  <1>4. CASE ~MustRetry(Counter)
    <2>1. Reports(t)
      BY <1>4 DEF SecondRead
    <2>2. CASE Board.reads = "counter"
      <3>1. t = T
        BY <1>2, <2>2 DEF Counter, counter_ms, TimeOf
      <3>2. T \in Nat
        BY <2>2, ClockNumbers, TimeTyped
      <3>3. hist.got <= T /\ T <= T
        BY <3>2 DEF ClockInv, Reported
      <3>4. NotAhead(t, hw.now)
        <4> DEFINE x == hw.now * Milli
        <4>1. x \in Nat /\ Board.rate \in Nat \ {0}
          BY ClockNumbers, MilliFacts, Times DEF ClockSound
        <4>2. t = x \div Board.rate
          BY <1>2, <2>2 DEF Counter, counter_ms
        <4> HIDE DEF x
        <4>3. (x \div Board.rate) * Board.rate <= x
          BY <4>1, Quotient
        <4> HIDE DEF t
        <4> QED BY <1>2, <2>2, <4>2, <4>3 DEF NotAhead, x
      <3> HIDE DEF t, T
      <3> QED BY <1>1, <2>1, <3>1, <3>2, <3>3, <3>4, ReportsKeeps DEF T
    <2>3. CASE Board.reads = "both"
      <3> DEFINE k == Part(P, hw.down)
      <3>1. Counter = hw.down /\ hw.down <= cpu.first /\ t = cpu.t + k
        BY <1>2, <1>4, <2>3, ClockNumbers DEF Counter, MustRetry, part_ms, Part
      <3>2. /\ hw.down >= 1 /\ cpu.t <= drv.sys /\ cpu.first \in 1..P
            /\ drv.ints => hist.got <= cpu.t + Part(P, cpu.first)
        BY <1>1, <2>3 DEF ClockInv, Reported, Reading
      <3>3. P \in Nat \ {0} /\ hw.down \in 1..P /\ hw.down \in 1..cpu.first
            /\ Board.adds = Interval /\ Board.unit = 1 /\ Interval \in Nat
            /\ Counted(hw.down, P) = P - hw.down
        BY <2>3, <3>1, <3>2, ClockNumbers, MilliFacts DEF ClockSound, Counted
      <3> HIDE DEF t, T, P
      <3>4. /\ k \in Nat /\ k * P <= (P - hw.down) * Interval
            /\ Part(P, cpu.first) \in Nat /\ Part(P, cpu.first) <= k
        BY <3>2, <3>3, PartFacts
      <3> HIDE DEF k
      <3>5. t \in Nat /\ (drv.ints => hist.got <= t)
        BY <3>1, <3>2, <3>4, ClockNumbers
      <3>6. (cpu.t + k) * P <= hw.now * Board.adds
        BY <3>2, <3>3, <3>4, ClockNumbers, ShownNotAhead DEF P
      <3>7. NotAhead(t, hw.now)
        <4>1. t * 1 = t
          BY <3>5
        <4> QED BY <1>2, <2>3, <3>1, <3>3, <3>6, <4>1 DEF NotAhead, P
      <3>8. drv.ints => t <= T
        <4>1. drv.ints => hw.pend = 0
          BY <1>1, ClockNumbers DEF Undisturbed
        <4>2. drv.ints => T = drv.sys + k
          BY <2>3, <4>1 DEF T, TimeOf, PartOf, P, k
        <4> QED BY <3>1, <3>2, <3>4, <4>2, ClockNumbers
      <3> QED BY <1>1, <2>1, <3>5, <3>7, <3>8, ReportsKeeps DEF T
    <2> QED BY <1>2, <2>2, <2>3
  <1> QED BY <1>3, <1>4

LEMMA GptSwitched ==
    ASSUME NEW g \in GptRecords
    PROVE  /\ [g EXCEPT !.clear = TRUE, !.on = FALSE] \in GptRecords
           /\ [g EXCEPT !.on = TRUE] \in GptRecords
           /\ [g EXCEPT !.clear = TRUE, !.on = FALSE].count = g.count
           /\ [g EXCEPT !.on = TRUE].count = g.count
  <1> USE DEF GptRecords
  <1>1. [g EXCEPT !.on = TRUE] \in GptRecords
        /\ [g EXCEPT !.on = TRUE].count = g.count
    BY Zenon
  <1> DEFINE h == [g EXCEPT !.clear = TRUE]
  <1>2. h \in GptRecords /\ h.count = g.count
    BY Zenon
  <1>4. [g EXCEPT !.clear = TRUE, !.on = FALSE] = [h EXCEPT !.on = FALSE]
    OBVIOUS
  <1> HIDE DEF h
  <1>3. [h EXCEPT !.on = FALSE] \in GptRecords
        /\ [h EXCEPT !.on = FALSE].count = h.count
    BY Zenon, <1>2
  <1> QED BY <1>1, <1>2, <1>3, <1>4

(* The general purpose timer is told to stop or to start.                  *)
LEMMA GptTold ==
    ASSUME ClockInv, hw' = [hw EXCEPT !.gpt.clear = TRUE, !.gpt.on = FALSE]
                     \/ hw' = [hw EXCEPT !.gpt.on = TRUE]
    PROVE  /\ hw' \in HwRecords(Board.period)
           /\ hw'.now = hw.now /\ hw'.down = hw.down /\ hw'.pend = hw.pend
           /\ hw'.gpt.count = hw.gpt.count
  <1>1. /\ hw \in HwRecords(Board.period)
        /\ hw.gpt \in GptRecords
    BY DEF ClockInv, ClockTyped, HwRecords
  <1>2. PICK g \in GptRecords :
           hw' = [hw EXCEPT !.gpt = g] /\ g.count = hw.gpt.count
    <2> DEFINE off == [hw.gpt EXCEPT !.clear = TRUE, !.on = FALSE]
               on == [hw.gpt EXCEPT !.on = TRUE]
    <2>2. hw' = [hw EXCEPT !.gpt = off] \/ hw' = [hw EXCEPT !.gpt = on]
      BY Zenon, <1>1 DEF HwRecords
    <2> HIDE DEF off, on
    <2>3. /\ off \in GptRecords
          /\ on \in GptRecords
          /\ off.count = hw.gpt.count /\ on.count = hw.gpt.count
      BY Zenon, <1>1, GptSwitched DEF off, on
    <2> QED BY Zenon, <2>2, <2>3
  <1> QED BY <1>1, <1>2 DEF HwRecords

(* The end of a delay that took the counts of its conversion.              *)
LEMMA DelayEndsKeeps ==
    ASSUME ClockInv, DelayEnds, UNCHANGED <<part, drv>>,
           hw' \in HwRecords(Board.period),
           hw'.now = hw.now, hw'.down = hw.down, hw'.pend = hw.pend,
           LongEnough(cpu.n, cpu.unit, hw.now - cpu.from)
    PROVE  ClockInv'
  <1> DEFINE waited == hw.now - cpu.from
  <1>1. waited \in Int /\ cpu.n \in Nat /\ cpu.unit \in Units
        /\ cpu \in CpuRecords /\ hist \in HistRecords
    BY ClockNumbers DEF ClockInv, ClockTyped
  <1>2. hist' = [hist EXCEPT !.asked = cpu.n, !.unit = cpu.unit, !.waited = waited]
        /\ cpu' = [cpu EXCEPT !.pc = "run"]
    BY DEF DelayEnds
  <1> HIDE DEF waited
  <1>4. hist' = [prev |-> hist.prev, got |-> hist.got, at |-> hist.at, asked |-> cpu.n,
                 unit |-> cpu.unit, waited |-> waited]
    BY ZenonT(30), <1>1, <1>2 DEF HistRecords
  <1>5. cpu' \in CpuRecords
        /\ cpu'.pc = "run"
    BY <1>1, <1>2 DEF ClockPlaces, CpuRecords
  <1>a. hist' \in HistRecords
    BY <1>1, <1>4 DEF HistRecords
  <1>6. ClockTyped'
    BY <1>5, <1>a, BoardStays DEF ClockInv, ClockTyped, IsTimer
  <1>8. /\ hist'.prev = hist.prev /\ hist'.got = hist.got /\ hist'.at = hist.at
        /\ hist'.asked = cpu.n /\ hist'.unit = cpu.unit /\ hist'.waited = waited
    BY <1>4
  <1>7. Waited'
    BY <1>8, WaitedNext DEF waited
  <1>9. Timely' /\ Reported'
    BY <1>8, TimelyNext, ReportedNext DEF ClockInv, Timely, Reported
  <1>10. Reading' /\ Delaying'
    BY <1>5 DEF Reading, Delaying
  <1> QED BY <1>6, <1>7, <1>9, <1>10 DEF ClockInv

LEMMA MdelayKeeps ==
    ASSUME ClockInv, mdelay_gpt
    PROVE  ClockInv'
  <1>1. PICK n \in Delays, u \in Units :
           cpu' = [cpu EXCEPT !.pc = "zero", !.n = n, !.unit = u, !.from = hw.now]
    BY Zenon DEF mdelay_gpt
  <1>2. UNCHANGED <<part, drv, hist>> /\ hw' = [hw EXCEPT !.gpt.clear = TRUE, !.gpt.on = FALSE]
        /\ part.name = "msm"
    BY DEF mdelay_gpt
  <1>3. n \in Nat /\ hw.now \in Nat
    BY ClockConstants, ClockNumbers
  <1>4. cpu' \in CpuRecords /\ cpu'.pc = "zero" /\ cpu'.n = n /\ cpu'.from = hw.now
    BY Zenon, <1>1, <1>3 DEF ClockInv, ClockTyped, CpuRecords, ClockPlaces
  <1>5. /\ hw' \in HwRecords(Board.period)
        /\ hw'.now = hw.now /\ hw'.down = hw.down /\ hw'.pend = hw.pend
    BY <1>2, GptTold
  <1>6. Timely' /\ Reported' /\ Waited'
    BY <1>2, <1>5, ClockRests
  <1>7. ClockTyped'
    BY <1>2, <1>4, <1>5, BoardStays DEF ClockInv, ClockTyped, IsTimer
  <1>8. Reading' /\ Delaying'
    BY <1>2, <1>3, <1>4, <1>5 DEF Reading, Delaying
  <1> QED BY Zenon, <1>6, <1>7, <1>8 DEF ClockInv

LEMMA GptZeroKeeps ==
    ASSUME ClockInv, GptZero
    PROVE  ClockInv'
  <1>1. /\ cpu' = [cpu EXCEPT !.pc = "count"] /\ hw' = [hw EXCEPT !.gpt.on = TRUE]
        /\ cpu.pc = "zero" /\ hw.gpt.count = 0 /\ UNCHANGED <<part, drv, hist>>
    BY DEF GptZero, OnTimer, At
  <1>2. cpu' \in CpuRecords /\ cpu'.pc = "count" /\ cpu'.n = cpu.n /\ cpu'.from = cpu.from
    BY <1>1 DEF ClockInv, ClockTyped, CpuRecords, ClockPlaces
  <1>3. /\ hw' \in HwRecords(Board.period)
        /\ hw'.now = hw.now /\ hw'.down = hw.down /\ hw'.pend = hw.pend
        /\ hw'.gpt.count = hw.gpt.count
    BY <1>1, GptTold
  <1>4. Timely' /\ Reported' /\ Waited'
    BY <1>1, <1>3, ClockRests
  <1>5. ClockTyped'
    BY <1>1, <1>2, <1>3, BoardStays DEF ClockInv, ClockTyped, IsTimer
  <1>6. /\ cpu.from <= hw.now /\ cpu.from \in Nat /\ hw.now \in Nat /\ part.name = "msm"
    BY <1>1, ClockNumbers DEF ClockInv, Delaying
  <1>7. Reading' /\ Delaying'
    BY <1>1, <1>2, <1>3, <1>6 DEF Reading, Delaying
  <1> QED BY <1>4, <1>5, <1>7 DEF ClockInv

LEMMA GptTyped ==
    ASSUME NEW n \in Nat, NEW u \in Units
    PROVE  gpt_ticks(n, u) \in Nat
  <1> DEFINE p == n * GptFactor
             x == p + Milli - GptFactor
  <1>1. p \in Nat /\ Milli \in Nat \ {0} /\ WordSize \in Nat \ {0}
    BY MilliFacts, Times
  <1>2. x \in Nat
    BY <1>1, MilliFacts, ClockConstants
  <1> HIDE DEF p, x
  <1>3. p % WordSize \in Nat /\ x % WordSize \in Nat
    BY <1>1, <1>2
  <1>4. (x % WordSize) \div Milli \in Nat
    BY <1>1, <1>3, Quotient
  <1> QED BY <1>3, <1>4 DEF gpt_ticks, p, x

LEMMA GptReachedKeeps ==
    ASSUME ClockInv, GptReached
    PROVE  ClockInv'
  <1>1. /\ cpu.pc = "count" /\ hw.gpt.count >= gpt_ticks(cpu.n, cpu.unit) /\ DelayEnds
        /\ hw' = [hw EXCEPT !.gpt.clear = TRUE, !.gpt.on = FALSE] /\ UNCHANGED <<part, drv>>
    BY DEF GptReached, OnTimer, At
  <1>2. /\ hw' \in HwRecords(Board.period)
        /\ hw'.now = hw.now /\ hw'.down = hw.down /\ hw'.pend = hw.pend
    BY <1>1, GptTold
  <1>3. /\ hw.gpt.count <= hw.now - cpu.from /\ part.name = "msm" /\ hw.gpt.count \in Nat
        /\ hw.now \in Nat /\ cpu.from \in Nat /\ cpu.n \in Nat /\ cpu.unit \in Units
    BY <1>1, ClockNumbers DEF ClockInv, ClockTyped, Delaying, HwRecords, GptRecords
  <1> DEFINE w == hw.now - cpu.from
             k == gpt_ticks(cpu.n, cpu.unit)
  <1>4. k \in Nat
    BY <1>3, GptTyped
  <1>5. w \in Nat /\ w >= k
    <2> HIDE DEF k
    <2>1. hw.gpt.count >= k
      BY <1>1 DEF k
    <2> QED BY <1>3, <1>4, <2>1
  <1>6. LongEnough(cpu.n, cpu.unit, w)
    BY <1>3, <1>5, GptLong
  <1> QED BY <1>1, <1>2, <1>6, DelayEndsKeeps

LEMMA DelayKeeps ==
    ASSUME ClockInv, delay
    PROVE  ClockInv'
  <1> DEFINE c == hw.now % CountSize
  <1>1. UNCHANGED <<part, hw, drv, hist>> /\ part.name = "qtimer"
    BY Zenon DEF delay
  <1>2. PICK n \in Delays, u \in Units :
           cpu' = [cpu EXCEPT !.pc = "wrap", !.n = n, !.unit = u, !.from = hw.now, !.first = c,
                              !.cnt = c, !.t = (c + to_ticks(n, u)) % CountSize]
    BY Zenon DEF delay
  <1> DEFINE e == (c + to_ticks(n, u)) % CountSize
  <1>3. c \in Nat /\ e \in Nat /\ n \in Nat /\ hw.now \in Nat
    <2>1. n \in Nat /\ hw.now \in Nat /\ CountSize \in Nat \ {0} /\ to_ticks(n, u) \in Nat
      BY ClockConstants, MilliFacts, ClockNumbers, TicksShort
    <2>2. c \in Nat
      BY <2>1
    <2> HIDE DEF c
    <2> QED BY <2>1, <2>2
  <1>4. cpu' = [cpu EXCEPT !.pc = "wrap", !.n = n, !.unit = u, !.from = hw.now, !.first = c,
                           !.cnt = c, !.t = e]
    BY <1>2
  <1> HIDE DEF c, e
  <1>5. cpu' = [pc |-> "wrap", first |-> c, t |-> e, cnt |-> c, n |-> n, unit |-> u,
                from |-> hw.now]
    BY Zenon, <1>4 DEF ClockInv, ClockTyped, CpuRecords
  <1>6. cpu' \in CpuRecords
    BY <1>3, <1>5 DEF CpuRecords, ClockPlaces
  <1>7. ReadAt(hw.now)'
    BY <1>1, <1>3, <1>5 DEF ReadAt, c
  <1>8. Aimed' /\ WasRead'
    BY <1>1, <1>3, <1>5, <1>7 DEF Aimed, WasRead, c, e, to_ticks, PerSec
  <1>9. Reading' /\ Delaying'
    BY <1>1, <1>3, <1>5, <1>8 DEF Reading, Delaying
  <1> QED BY Zenon, <1>1, <1>6, <1>9, CallerMoves DEF ClockInv

(* The counter is read again, later.                                       *)
LEMMA ReadAgain ==
    ASSUME ClockInv, cpu.pc \in {"wrap", "reach"}, UNCHANGED hw,
           cpu' = [cpu EXCEPT !.cnt = hw.now % CountSize]
    PROVE  cpu' \in CpuRecords /\ cpu'.pc = cpu.pc /\ cpu'.n = cpu.n /\ cpu'.unit = cpu.unit /\ cpu'.from = cpu.from
           /\ Aimed' /\ WasRead'
  <1> DEFINE c == hw.now % CountSize
  <1>1. hw.now \in Nat /\ cpu.from \in Nat /\ cpu.first \in Nat /\ cpu.t \in Nat /\ cpu.cnt \in Nat
        /\ CountSize \in Nat \ {0}
    BY MilliFacts, ClockNumbers
  <1>2. Aimed /\ WasRead
    BY DEF ClockInv, Delaying
  <1>3. PICK s \in Nat : ReadAt(s)
    BY <1>2 DEF WasRead
  <1>4. c \in Nat
    BY <1>1
  <1>5. s <= hw.now /\ s >= cpu.from /\ cpu.cnt = s % CountSize
    BY <1>3 DEF ReadAt
  <1>6. hw.now - c >= s - cpu.cnt
    <2>1. \/ hw.now - c = s - cpu.cnt
          \/ hw.now - c >= s - cpu.cnt + CountSize
      BY <1>1, <1>5, Turns
    <2> HIDE DEF c
    <2> QED BY <1>1, <1>4, <2>1
  <1> HIDE DEF c
  <1>7. cpu' = [cpu EXCEPT !.cnt = c]
    BY DEF c
  <1>8. /\ cpu' \in CpuRecords /\ cpu'.pc = cpu.pc /\ cpu'.n = cpu.n /\ cpu'.unit = cpu.unit /\ cpu'.from = cpu.from
        /\ cpu'.first = cpu.first /\ cpu'.t = cpu.t /\ cpu'.cnt = c
    BY <1>4, <1>7 DEF ClockInv, ClockTyped, CpuRecords
  <1>9. Aimed'
    BY <1>2, <1>8 DEF Aimed, to_ticks, PerSec
  <1>10. cpu.pc = "reach" /\ cpu.t < cpu.first => hw.now - c >= cpu.from - cpu.first + CountSize
    BY <1>1, <1>3, <1>4, <1>6 DEF ReadAt
  <1>11. hw.now >= cpu.from
    BY <1>1, <1>5
  <1>12. ReadAt(hw.now)'
    BY <1>1, <1>8, <1>10, <1>11 DEF ReadAt, c
  <1>13. WasRead'
    BY <1>1, <1>12 DEF WasRead
  <1> QED BY <1>8, <1>9, <1>13

LEMMA DelayWrapsKeeps ==
    ASSUME ClockInv, DelayWraps
    PROVE  ClockInv'
  <1>1. UNCHANGED <<part, hw, drv, hist>> /\ cpu.pc = "wrap"
    BY DEF DelayWraps, OnTimer, At
  <1>2. cpu.from <= hw.now /\ part.name = "qtimer" /\ Aimed /\ WasRead
    BY <1>1 DEF ClockInv, Delaying
  <1>3. CASE cpu.t < cpu.cnt /\ cpu.first <= cpu.cnt
    <2>1. cpu' = [cpu EXCEPT !.cnt = hw.now % CountSize]
      BY <1>3 DEF DelayWraps
    <2>2. cpu' \in CpuRecords /\ cpu'.pc = "wrap" /\ cpu'.n = cpu.n /\ cpu'.unit = cpu.unit /\ cpu'.from = cpu.from
          /\ Aimed' /\ WasRead'
      BY <1>1, <2>1, ReadAgain
    <2>3. Reading' /\ Delaying'
      BY <1>1, <1>2, <2>2 DEF Reading, Delaying
    <2> QED BY <1>1, <2>2, <2>3, CallerMoves DEF ClockInv
  <1>4. CASE ~(cpu.t < cpu.cnt /\ cpu.first <= cpu.cnt)
    <2>1. cpu' = [cpu EXCEPT !.pc = "reach"]
      BY <1>4 DEF DelayWraps
    <2>2. /\ cpu' \in CpuRecords /\ cpu'.pc = "reach" /\ cpu'.n = cpu.n /\ cpu'.unit = cpu.unit /\ cpu'.from = cpu.from
          /\ cpu'.first = cpu.first /\ cpu'.t = cpu.t /\ cpu'.cnt = cpu.cnt
      BY <2>1 DEF ClockInv, ClockTyped, CpuRecords, ClockPlaces
    <2>3. PICK s \in Nat : ReadAt(s)
      BY <1>2 DEF WasRead
    <2>4. hw.now \in Nat /\ cpu.from \in Nat /\ cpu.first \in Nat /\ cpu.t \in Nat
          /\ cpu.cnt \in Nat /\ CountSize \in Nat \ {0}
      BY MilliFacts, ClockNumbers
    <2>5. s <= hw.now /\ s >= cpu.from /\ cpu.cnt = s % CountSize /\ cpu.first = cpu.from % CountSize
      BY <1>2, <2>3 DEF ReadAt, Aimed
    <2>6. \/ s - cpu.cnt = cpu.from - cpu.first
          \/ s - cpu.cnt >= cpu.from - cpu.first + CountSize
      BY Zenon, <2>4, <2>5, Turns
    <2>7. cpu.t < cpu.first => s - cpu.cnt >= cpu.from - cpu.first + CountSize
      <3>1. cpu.t < cpu.first => cpu.cnt < cpu.first
        BY <1>4, <2>4
      <3>2. s >= cpu.from
        BY <2>5
      <3> QED BY <2>4, <2>6, <3>1, <3>2
    <2>8. ReadAt(s)'
      BY <1>1, <2>2, <2>5, <2>7 DEF ReadAt
    <2>9. Aimed' /\ WasRead'
      BY <1>2, <2>2, <2>8 DEF Aimed, WasRead, to_ticks, PerSec
    <2>10. Reading' /\ Delaying'
      BY <1>1, <1>2, <2>2, <2>9 DEF Reading, Delaying
    <2> QED BY <1>1, <2>2, <2>10, CallerMoves DEF ClockInv
  <1> QED BY <1>3, <1>4

LEMMA DelayReachesKeeps ==
    ASSUME ClockInv, DelayReaches
    PROVE  ClockInv'
  <1>1. UNCHANGED <<part, hw, drv>> /\ cpu.pc = "reach"
    BY DEF DelayReaches, OnTimer, At
  <1>2. cpu.from <= hw.now /\ part.name = "qtimer" /\ Aimed /\ WasRead
    BY <1>1 DEF ClockInv, Delaying
  <1>3. CASE cpu.t > cpu.cnt
    <2>1. cpu' = [cpu EXCEPT !.cnt = hw.now % CountSize] /\ UNCHANGED hist
      BY <1>3 DEF DelayReaches
    <2>2. cpu' \in CpuRecords /\ cpu'.pc = "reach" /\ cpu'.n = cpu.n /\ cpu'.unit = cpu.unit /\ cpu'.from = cpu.from
          /\ Aimed' /\ WasRead'
      BY <1>1, <2>1, ReadAgain
    <2>3. Reading' /\ Delaying'
      BY <1>1, <1>2, <2>2 DEF Reading, Delaying
    <2> QED BY <1>1, <2>1, <2>2, <2>3, CallerMoves DEF ClockInv
  <1>4. CASE ~(cpu.t > cpu.cnt)
    <2> DEFINE k == to_ticks(cpu.n, cpu.unit)
    <2>1. DelayEnds
      BY <1>4 DEF DelayReaches
    <2>2. PICK s \in Nat : ReadAt(s)
      BY <1>2 DEF WasRead
    <2>3. hw.now \in Nat /\ cpu.from \in Nat /\ cpu.first \in Nat /\ cpu.t \in Nat
          /\ cpu.cnt \in Nat /\ CountSize \in Nat \ {0}
      BY MilliFacts, ClockNumbers
    <2>4. s <= hw.now /\ s >= cpu.from /\ cpu.cnt = s % CountSize
          /\ (cpu.t < cpu.first => s - cpu.cnt >= cpu.from - cpu.first + CountSize)
      BY <1>1, <2>2 DEF ReadAt
    <2>5. cpu.first = cpu.from % CountSize /\ cpu.t = (cpu.first + k) % CountSize
          /\ k \in Nat /\ k < CountSize
      BY <1>2, ClockNumbers, TicksShort DEF Aimed
    <2> HIDE DEF k
    <2>6. /\ cpu.first < CountSize
          /\ \/ s - cpu.cnt = cpu.from - cpu.first
             \/ s - cpu.cnt >= cpu.from - cpu.first + CountSize
      <3>1. cpu.first \in 0..(CountSize - 1)
        BY <2>3, <2>5
      <3>2. \/ s - cpu.cnt = cpu.from - cpu.first
            \/ s - cpu.cnt >= cpu.from - cpu.first + CountSize
        <4>1. s \in Nat /\ cpu.from \in Nat /\ cpu.from <= s /\ cpu.cnt = s % CountSize
              /\ cpu.first = cpu.from % CountSize
          BY <2>3, <2>4, <2>5
        <4> QED BY <4>1, Turns
      <3> QED BY <2>3, <3>1, <3>2
    <2>7. cpu.t = cpu.first + k \/ cpu.t = cpu.first + k - CountSize
      BY <2>3, <2>5, <2>6
    <2>8. s - cpu.from >= k
      BY <1>4, <2>3, <2>4, <2>5, <2>6, <2>7
    <2>9. hw.now - cpu.from >= k
      BY <2>3, <2>4, <2>5, <2>8
    <2>10. hw' \in HwRecords(Board.period)
      BY <1>1 DEF ClockInv, ClockTyped
    <2>11. hw.now - cpu.from \in Nat
      BY <2>3, <2>5, <2>9
    <2>12. LongEnough(cpu.n, cpu.unit, hw.now - cpu.from)
      BY <1>2, <2>9, <2>11, ClockNumbers, QtimerLong DEF k
    <2> QED BY <1>1, <2>1, <2>10, <2>12, DelayEndsKeeps
  <1> QED BY <1>3, <1>4

LEMMA ClockStart == TimerInit => ClockInv
  <1> SUFFICES ASSUME TimerInit PROVE ClockInv
    OBVIOUS
  <1>1. IsTimer /\ part.name \in DOMAIN clocks
    BY DEF TimerInit, IsTimer
  <1> DEFINE P == Board.period
  <1>2. /\ ClockSound(Board) /\ P \in Nat \ {0} /\ Board.adds \in Nat /\ Board.unit \in Nat
        /\ Interval \in Nat
    BY <1>1, ClocksSound, MilliFacts DEF ClockSound
  <1>3. /\ hw = [now |-> 0, down |-> P, pend |-> 0,
                 gpt |-> [count |-> 0, on |-> FALSE, clear |-> FALSE]]
        /\ drv = [sys |-> 0, ints |-> TRUE, trigger |-> Interval * Board.unit]
        /\ cpu = [pc |-> "run", first |-> 0, t |-> 0, cnt |-> 0, n |-> 0, unit |-> "ms", from |-> 0]
        /\ hist = [prev |-> 0, got |-> 0, at |-> 0, asked |-> 0, unit |-> "ms", waited |-> 0]
    BY DEF TimerInit
  <1> HIDE DEF P
  <1>4. /\ hw.now = 0 /\ hw.down = P /\ hw.pend = 0 /\ drv.sys = 0 /\ cpu.pc = "run"
        /\ hist.prev = 0 /\ hist.got = 0 /\ hist.at = 0 /\ hist.asked = 0 /\ hist.waited = 0
        /\ hist.unit = "ms"
    BY <1>3
  <1>5. ClockTyped
    <2>1. hw \in HwRecords(P)
      BY <1>2, <1>3 DEF HwRecords, GptRecords
    <2>2. drv \in [sys : Nat, ints : BOOLEAN, trigger : Int]
      <3>1. Interval * Board.unit \in Int
        BY <1>2
      <3> QED BY <1>3, <3>1
    <2>3. cpu \in CpuRecords /\ hist \in HistRecords
      BY <1>3 DEF CpuRecords, HistRecords, ClockPlaces, Units
    <2> QED BY <1>1, <2>1, <2>2, <2>3 DEF ClockTyped, P
  <1>6. Timely
    <2>1. Counted(P, P) = 0
      BY <1>2 DEF Counted
    <2>2. 0 * P = 0 /\ P * 0 = 0 /\ Board.adds * (0 + 0) = 0 /\ 0 * Board.adds = 0
      BY <1>2
    <2> QED BY <1>4, <2>1, <2>2 DEF Timely, TimelyOf, P
  <1>7. Reported
    <2>1. NotAhead(0, 0)
      <3>1. 0 * Board.rate = 0 /\ 0 * Milli = 0 /\ 0 * Board.unit = 0 /\ 0 * Board.period = 0
            /\ 0 * Board.adds = 0
        BY <1>2, MilliFacts DEF ClockSound, P
      <3> QED BY <3>1 DEF NotAhead
    <2>2. PartOf(Board, P, 0) \in Nat
      <3>1. P \in 1..P
        BY <1>2
      <3> QED BY <1>2, <3>1, PartFacts DEF PartOf, P
    <2>3. TimeOf(Board, 0, 0, P, 0) \in Nat
      BY <1>2, <2>2, TimeTyped
    <2> QED BY <1>2, <1>4, <2>1, <2>3 DEF Reported
  <1>8. Waited
    <2>1. LongEnough(0, "ms", 0)
      BY MilliFacts DEF LongEnough, PerSec
    <2> QED BY <1>4, <2>1 DEF Waited
  <1>9. Reading /\ Delaying
    BY <1>4 DEF Reading, Delaying
  <1> QED BY <1>5, <1>6, <1>7, <1>8, <1>9 DEF ClockInv

LEMMA ClockStep == ClockInv /\ [TimerNext]_vars => ClockInv'
  <1> SUFFICES ASSUME ClockInv, [TimerNext]_vars PROVE ClockInv'
    OBVIOUS
  <1>1. CASE UNCHANGED vars
    <2>1. part' = part /\ hw' = hw /\ drv' = drv /\ cpu' = cpu /\ hist' = hist
      BY <1>1 DEF vars
    <2>2. cpu' \in CpuRecords
      BY <2>1 DEF ClockInv, ClockTyped
    <2>3. ClockTyped' /\ Timely' /\ Reported' /\ Waited'
      BY <2>1, <2>2, CallerMoves
    <2>4. Reading'
      BY <2>1, BoardStays DEF ClockInv, Reading, Part
    <2>5. Aimed' = Aimed /\ WasRead' = WasRead
      BY <2>1 DEF Aimed, WasRead, ReadAt, to_ticks, PerSec
    <2>6. Delaying'
      BY <2>1, <2>5 DEF ClockInv, Delaying
    <2> QED BY <2>3, <2>4, <2>6 DEF ClockInv
  <1>2. CASE TimerNext
    BY <1>2, TimePassesKeeps, TimerIrqKeeps, CriticalKeeps, CurrentTimeTicksKeeps,
       CurrentTimeKeeps, FirstReadKeeps, TimeReadKeeps, SecondReadKeeps, MdelayKeeps,
       GptZeroKeeps, GptReachedKeeps, DelayKeeps, DelayWrapsKeeps, DelayReachesKeeps
       DEF TimerNext
  <1> QED BY <1>1, <1>2

(* current_time never goes back and is never ahead of the timer's counts,  *)
(* for every frequency, tick, counter size and delay, with the divisions   *)
(* the code makes: mdelay of msm_shared/timer.c waits at least as long as  *)
(* it was asked to, its udelay less by less than a microsecond, and those  *)
(* of qtimer.c less by less than a count, unless the product overflows an  *)
(* unsigned int.                                                           *)
THEOREM ClockNeverWrong == TimerSpec => []ClockKept
  <1>1. ClockInv => ClockKept
    BY Zenon DEF ClockInv, ClockKept, Reported, Waited
  <1> QED
    BY <1>1, ClockStart, ClockStep, PTL DEF TimerSpec
=============================================================================
