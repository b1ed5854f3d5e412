-------------------------- MODULE LkFastbootProofs --------------------------
(***************************************************************************)
(* Proofs about the fastboot thread and its USB controller, for any number *)
(* of commands, control transfers, bus resets and downloads: a completion  *)
(* belongs to the transfer the thread waits for, and the host never reads  *)
(* more final answers than it sent commands.                               *)
(***************************************************************************)
EXTENDS LkFastboot, TLAPS

(* What is tried, and for how long, for a leaf that names no prover.       *)
USE SMTT(15), ZenonT(30), SMTT(60)

-----------------------------------------------------------------------------
(* Types.                                                                  *)

FbItems == {"main", "ep0"}
Final == {"OKAY", "FAIL"}

FbHw == [running : BOOLEAN, sts : SUBSET {"UI", "URI", "PCI"}, setup : Setups \cup {"none"},
         complete : SUBSET Endpoints, primed : SUBSET Endpoints,
         item : [FbItems -> {"idle", "active", "done", "halted"}],
         enabled : SUBSET Endpoints, moved : [Endpoints -> Nat], testing : BOOLEAN,
         stalled : BOOLEAN, buffer : [cmd : Commands \cup {"none"}, len : Nat],
         phase : {"idle", "sent", "data", "gaveup"}]

FbDrv == [req : [Endpoints -> FbItems \cup {"none"}], ep0cb : {"none", "ack", "tx"},
          config : {0, 1}, online : BOOLEAN, test_mode : BOOLEAN]

Thens == {"none", "command", "next", "loop", "data", "piece"}
FbPlaces == Thens \cup {"off", "online?", "wait", "handler", "download", "booting"}

FbCpu == [pc : FbPlaces, then : Thens, inirq : BOOLEAN, epts : SUBSET Endpoints,
          state : {"OFFLINE", "COMMAND", "COMPLETE", "ERROR"}, ok : BOOLEAN, len : Nat,
          txn_done : BOOLEAN, usb_online : BOOLEAN, msg : Final \cup {"none", "INFO", "DATA"},
          replies : Seq(Final \cup {"INFO", "stop"}), asked : Nat, want : Nat, got : Nat,
          size : Nat]

FbMachine == [hw : FbHw, drv : FbDrv, cpu : FbCpu]

FbHist == [sess : Nat, cmdsess : Nat, owed : Nat, extra : BOOLEAN]

-----------------------------------------------------------------------------
(* The invariant.                                                          *)

(* The thread's request hangs at one bulk endpoint at most, and only while *)
(* the thread waits for it; the event is set only when it hangs at none.   *)
Linked(x) ==
    /\ \A e \in BulkEpts : x.drv.req[e] \in {"none", "main"}
    /\ \A e \in {"ep0in", "ep0out"} : x.drv.req[e] \in {"none", "ep0"}
    /\ x.drv.req["in"] = "none" \/ x.drv.req["out"] = "none"
    /\ x.cpu.txn_done = TRUE => /\ x.cpu.pc = "wait"
                                /\ x.drv.req["in"] = "none" /\ x.drv.req["out"] = "none"
    /\ x.drv.req["in"] = "main" => /\ x.cpu.pc = "wait" /\ x.cpu.then \in {"next", "loop", "data"}
                                   /\ x.cpu.msg \in Final => x.cpu.state = "COMPLETE"
    /\ x.drv.req["out"] = "main" => x.cpu.pc = "wait" /\ x.cpu.then \in {"command", "piece"}
    /\ x.cpu.pc = "next" => x.cpu.replies # <<>>
    /\ x.cpu.pc = "wait" /\ x.cpu.then = "next" => x.cpu.replies # <<>>

(* A command is being received or worked on and its answer has not been    *)
(* taken.                                                                  *)
Owing(x) ==
    \/ x.cpu.state = "COMMAND"
    \/ x.cpu.pc = "command"
    \/ /\ x.drv.req["out"] = "main" /\ x.hw.item["main"] = "done" /\ x.cpu.then = "command"
    \/ /\ x.cpu.txn_done = TRUE /\ x.cpu.ok = TRUE /\ x.cpu.then = "command"
    \/ /\ x.drv.req["in"] = "main" /\ x.hw.item["main"] = "active" /\ x.cpu.msg \in Final

FbSound(x) == x \in FbMachine /\ Linked(x)

(* The host waits for an answer to a command of this bus session whenever  *)
(* the thread may still give one.                                          *)
Accounted(x, h) ==
    /\ h \in FbHist /\ h.cmdsess <= h.sess /\ h.extra = FALSE
    /\ h.cmdsess = h.sess /\ Owing(x) => h.owed >= 1

FbInv == part.kind = "fastboot" /\ FbSound(Machine) /\ Accounted(Machine, hist)

-----------------------------------------------------------------------------
(* The machine and its records.                                            *)

LEMMA HwField ==
    ASSUME NEW x \in FbMachine, NEW h \in FbHw
    PROVE  /\ [x EXCEPT !.hw = h] \in FbMachine /\ [x EXCEPT !.hw = h].hw = h
           /\ [x EXCEPT !.hw = h].drv = x.drv /\ [x EXCEPT !.hw = h].cpu = x.cpu
  BY DEF FbMachine

LEMMA DrvField ==
    ASSUME NEW x \in FbMachine, NEW d \in FbDrv
    PROVE  /\ [x EXCEPT !.drv = d] \in FbMachine /\ [x EXCEPT !.drv = d].drv = d
           /\ [x EXCEPT !.drv = d].hw = x.hw /\ [x EXCEPT !.drv = d].cpu = x.cpu
  BY DEF FbMachine

LEMMA CpuField ==
    ASSUME NEW x \in FbMachine, NEW c \in FbCpu
    PROVE  /\ [x EXCEPT !.cpu = c] \in FbMachine /\ [x EXCEPT !.cpu = c].cpu = c
           /\ [x EXCEPT !.cpu = c].hw = x.hw /\ [x EXCEPT !.cpu = c].drv = x.drv
  BY DEF FbMachine

LEMMA Fields ==
    ASSUME NEW x \in FbMachine
    PROVE  x.hw \in FbHw /\ x.drv \in FbDrv /\ x.cpu \in FbCpu
  BY DEF FbMachine

(* An item of the controller's queue changes.                              *)
LEMMA ItemSet ==
    ASSUME NEW x \in FbMachine, NEW r \in FbItems, NEW v \in {"active", "halted"}
    PROVE  /\ [x EXCEPT !.hw.item[r] = v] \in FbMachine
           /\ [x EXCEPT !.hw.item[r] = v].drv = x.drv /\ [x EXCEPT !.hw.item[r] = v].cpu = x.cpu
           /\ [x EXCEPT !.hw.item[r] = v].hw.item = [x.hw.item EXCEPT ![r] = v]
  <1> DEFINE i == [x.hw.item EXCEPT ![r] = v]
             h == [x.hw EXCEPT !.item = i]
             y == [x EXCEPT !.hw.item[r] = v]
  <1>1. i \in [FbItems -> {"idle", "active", "done", "halted"}]
    BY Fields DEF FbHw
  <1>2. y = [x EXCEPT !.hw = h]
    OBVIOUS
  <1> HIDE DEF i, y
  <1>3. h \in FbHw /\ h.item = i
    BY <1>1, Fields DEF FbHw
  <1> HIDE DEF h
  <1>4. y \in FbMachine /\ y.drv = x.drv /\ y.cpu = x.cpu /\ y.hw.item = i
    BY <1>2, <1>3, HwField
  <1> QED BY <1>4, Zenon DEF i, y

(* A request is linked to an endpoint, or taken off.                       *)
LEMMA ReqSet ==
    ASSUME NEW x \in FbMachine, NEW e \in Endpoints, NEW r \in FbItems \cup {"none"}
    PROVE  /\ [x EXCEPT !.drv.req[e] = r] \in FbMachine
           /\ [x EXCEPT !.drv.req[e] = r].hw = x.hw /\ [x EXCEPT !.drv.req[e] = r].cpu = x.cpu
           /\ [x EXCEPT !.drv.req[e] = r].drv.req = [x.drv.req EXCEPT ![e] = r]
  <1> DEFINE q == [x.drv.req EXCEPT ![e] = r]
             d == [x.drv EXCEPT !.req = q]
             y == [x EXCEPT !.drv.req[e] = r]
  <1>1. q \in [Endpoints -> FbItems \cup {"none"}]
    BY Fields DEF FbDrv
  <1>2. y = [x EXCEPT !.drv = d]
    OBVIOUS
  <1> HIDE DEF q, y
  <1>3. d \in FbDrv /\ d.req = q
    BY <1>1, Fields DEF FbDrv
  <1> HIDE DEF d
  <1>4. y \in FbMachine /\ y.hw = x.hw /\ y.cpu = x.cpu /\ y.drv.req = q
    BY <1>2, <1>3, DrvField
  <1> QED BY <1>4, Zenon DEF q, y

LEMMA PrimedSet ==
    ASSUME NEW x \in FbMachine, NEW e \in Endpoints
    PROVE  /\ [x EXCEPT !.hw.primed = @ \cup {e}] \in FbMachine
           /\ [x EXCEPT !.hw.primed = @ \cup {e}].drv = x.drv
           /\ [x EXCEPT !.hw.primed = @ \cup {e}].cpu = x.cpu
           /\ [x EXCEPT !.hw.primed = @ \cup {e}].hw.item = x.hw.item
  <1> DEFINE q == x.hw.primed \cup {e}
             h == [x.hw EXCEPT !.primed = q]
  <1>1. q \in SUBSET Endpoints
    BY Fields DEF FbHw
  <1>2. [x EXCEPT !.hw.primed = @ \cup {e}] = [x EXCEPT !.hw = h]
    OBVIOUS
  <1> HIDE DEF q
  <1>3. h \in FbHw /\ h.item = x.hw.item
    BY <1>1, Fields DEF FbHw
  <1> HIDE DEF h
  <1>4. /\ [x EXCEPT !.hw = h] \in FbMachine /\ [x EXCEPT !.hw = h].drv = x.drv
        /\ [x EXCEPT !.hw = h].cpu = x.cpu /\ [x EXCEPT !.hw = h].hw = h
    BY <1>3, HwField
  <1> QED BY Zenon, <1>2, <1>3, <1>4

(* udc_request_queue.                                                      *)
LEMMA Queued ==
    ASSUME NEW x \in FbMachine, NEW e \in Endpoints, NEW r \in FbItems
    PROVE  /\ udc_request_queue(x, e, r) \in FbMachine
           /\ udc_request_queue(x, e, r).cpu = x.cpu
           /\ udc_request_queue(x, e, r).hw.item = [x.hw.item EXCEPT ![r] = "active"]
           /\ udc_request_queue(x, e, r).drv.req = [x.drv.req EXCEPT ![e] = r]
  <1> DEFINE a == [x EXCEPT !.hw.item[r] = "active"]
             b == [a EXCEPT !.hw.primed = @ \cup {e}]
             c == [b EXCEPT !.drv.req[e] = r]
  <1>1. udc_request_queue(x, e, r) = c
    BY Zenon DEF udc_request_queue
  <1>2. /\ a \in FbMachine /\ a.drv = x.drv /\ a.cpu = x.cpu
        /\ a.hw.item = [x.hw.item EXCEPT ![r] = "active"]
    BY Zenon, ItemSet
  <1> HIDE DEF a
  <1>3. b \in FbMachine /\ b.drv = a.drv /\ b.cpu = a.cpu /\ b.hw.item = a.hw.item
    BY <1>2, PrimedSet
  <1> HIDE DEF b
  <1>4. /\ c \in FbMachine /\ c.hw = b.hw /\ c.cpu = b.cpu
        /\ c.drv.req = [b.drv.req EXCEPT ![e] = r]
    BY <1>3, ReqSet
  <1> HIDE DEF c
  <1> QED BY <1>1, <1>2, <1>3, <1>4

-----------------------------------------------------------------------------
(* The interrupt leaves the invariant, and owes nothing new.               *)

(* A change that the invariant does not see.                               *)
LEMMA Unseen ==
    ASSUME NEW x, NEW y \in FbMachine, FbSound(x), y.cpu = x.cpu, y.drv.req = x.drv.req,
           y.hw.item["main"] = x.hw.item["main"]
    PROVE  FbSound(y) /\ (Owing(y) => Owing(x))
  BY DEF FbSound, Linked, Owing

LEMMA Ep0Queued ==
    ASSUME NEW x, FbSound(x), NEW e \in {"ep0in", "ep0out"}
    PROVE  /\ FbSound(udc_request_queue(x, e, "ep0"))
           /\ Owing(udc_request_queue(x, e, "ep0")) => Owing(x)
  <1> DEFINE y == udc_request_queue(x, e, "ep0")
  <1>1. x \in FbMachine /\ Linked(x) /\ e \in Endpoints /\ "ep0" \in FbItems
    BY DEF FbSound, Endpoints, FbItems
  <1>2. /\ y \in FbMachine /\ y.cpu = x.cpu
        /\ y.hw.item = [x.hw.item EXCEPT !["ep0"] = "active"]
        /\ y.drv.req = [x.drv.req EXCEPT ![e] = "ep0"]
    BY <1>1, Queued
  <1>3. x.hw.item \in [FbItems -> {"idle", "active", "done", "halted"}]
        /\ x.drv.req \in [Endpoints -> FbItems \cup {"none"}]
    BY <1>1, Fields DEF FbHw, FbDrv
  <1> HIDE DEF y
  <1>4. y.hw.item["main"] = x.hw.item["main"]
    BY <1>2, <1>3 DEF FbItems
  <1>5. /\ y.drv.req["in"] = x.drv.req["in"] /\ y.drv.req["out"] = x.drv.req["out"]
        /\ \A f \in {"ep0in", "ep0out"} : y.drv.req[f] \in {x.drv.req[f], "ep0"}
    BY <1>2, <1>3 DEF Endpoints
  <1>6. FbSound(y) /\ (Owing(y) => Owing(x))
    BY <1>1, <1>2, <1>4, <1>5 DEF FbSound, Linked, Owing, BulkEpts
  <1> QED BY <1>6 DEF y

(* The callback of the control request, without the request being touched. *)
LEMMA CallbackSet ==
    ASSUME NEW x, FbSound(x), NEW c \in {"none", "ack", "tx"}
    PROVE  /\ FbSound([x EXCEPT !.drv.ep0cb = c])
           /\ Owing([x EXCEPT !.drv.ep0cb = c]) => Owing(x)
  <1> DEFINE d == [x.drv EXCEPT !.ep0cb = c]
             y == [x EXCEPT !.drv.ep0cb = c]
  <1>1. x \in FbMachine
    BY DEF FbSound
  <1>2. d \in FbDrv /\ d.req = x.drv.req
    BY <1>1, Fields DEF FbDrv
  <1>3. y = [x EXCEPT !.drv = d]
    OBVIOUS
  <1> HIDE DEF d, y
  <1>4. y \in FbMachine /\ y.hw = x.hw /\ y.cpu = x.cpu /\ y.drv.req = x.drv.req
    BY <1>1, <1>2, <1>3, DrvField
  <1>5. FbSound(y) /\ (Owing(y) => Owing(x))
    BY <1>4, Unseen
  <1> QED BY <1>5 DEF y

LEMMA SetupAckSound ==
    ASSUME NEW x, FbSound(x)
    PROVE  /\ FbSound(setup_ack(x)) /\ (Owing(setup_ack(x)) => Owing(x))
           /\ FbSound(setup_tx(x)) /\ (Owing(setup_tx(x)) => Owing(x))
           /\ \A ok \in BOOLEAN : /\ FbSound(ep0in_complete(x, ok))
                                  /\ Owing(ep0in_complete(x, ok)) => Owing(x)
  <1> DEFINE a == [x EXCEPT !.drv.ep0cb = "ack"]
             t == [x EXCEPT !.drv.ep0cb = "tx"]
             n == [x EXCEPT !.drv.ep0cb = "none"]
  <1>1. /\ FbSound(a) /\ (Owing(a) => Owing(x))
        /\ FbSound(t) /\ (Owing(t) => Owing(x))
        /\ FbSound(n) /\ (Owing(n) => Owing(x))
    BY CallbackSet
  <1>2. /\ setup_ack(x) = udc_request_queue(a, "ep0in", "ep0")
        /\ setup_tx(x) = udc_request_queue(t, "ep0in", "ep0")
        /\ ep0in_complete(x, TRUE) = udc_request_queue(n, "ep0out", "ep0")
        /\ ep0in_complete(x, FALSE) = x
    BY DEF setup_ack, setup_tx, ep0in_complete
  <1> HIDE DEF a, t, n
  <1> QED BY ZenonT(30), <1>1, <1>2, Ep0Queued

LEMMA AckCompleteSound ==
    ASSUME NEW x, FbSound(x)
    PROVE  FbSound(ep0_setup_ack_complete(x)) /\ (Owing(ep0_setup_ack_complete(x)) => Owing(x))
  <1> DEFINE m == x.drv.test_mode
             h == [x.hw EXCEPT !.testing = m]
             y == ep0_setup_ack_complete(x)
  <1>1. x \in FbMachine /\ m \in BOOLEAN
    BY Fields DEF FbSound, FbDrv
  <1>2. y = [x EXCEPT !.hw = h]
    BY DEF ep0_setup_ack_complete
  <1> HIDE DEF m
  <1>3. h \in FbHw /\ h.item = x.hw.item
    BY <1>1, Fields DEF FbHw
  <1> HIDE DEF h, y
  <1>4. y \in FbMachine /\ y.cpu = x.cpu /\ y.drv = x.drv /\ y.hw.item = x.hw.item
    BY <1>1, <1>2, <1>3, HwField
  <1>5. FbSound(y) /\ (Owing(y) => Owing(x))
    BY <1>4, Unseen
  <1> QED BY <1>5 DEF y

(* req_complete: the event is set for the transfer the thread waits for.   *)
LEMMA ReqCompleteFacts ==
    ASSUME NEW x \in FbMachine, NEW n \in Nat, NEW ok \in BOOLEAN
    PROVE  /\ req_complete(x, n, ok) \in FbMachine
           /\ req_complete(x, n, ok).hw = x.hw /\ req_complete(x, n, ok).drv = x.drv
           /\ req_complete(x, n, ok).cpu.ok = ok /\ req_complete(x, n, ok).cpu.txn_done = TRUE
           /\ req_complete(x, n, ok).cpu.pc = x.cpu.pc /\ req_complete(x, n, ok).cpu.then = x.cpu.then
           /\ req_complete(x, n, ok).cpu.state = x.cpu.state
           /\ req_complete(x, n, ok).cpu.replies = x.cpu.replies
  <1> DEFINE a == [x EXCEPT !.cpu = [x.cpu EXCEPT !.ok = ok]]
             b == [a EXCEPT !.cpu = [a.cpu EXCEPT !.len = n]]
             c == [b EXCEPT !.cpu = [b.cpu EXCEPT !.txn_done = TRUE]]
  <1>1. req_complete(x, n, ok) = c
    BY DEF req_complete
  <1>2. \A z \in FbCpu : /\ [z EXCEPT !.ok = ok] \in FbCpu /\ [z EXCEPT !.ok = ok].ok = ok
                         /\ [z EXCEPT !.ok = ok].pc = z.pc /\ [z EXCEPT !.ok = ok].then = z.then
                         /\ [z EXCEPT !.ok = ok].state = z.state
                         /\ [z EXCEPT !.ok = ok].replies = z.replies
    BY DEF FbCpu
  <1>3. \A z \in FbCpu : /\ [z EXCEPT !.len = n] \in FbCpu /\ [z EXCEPT !.len = n].ok = z.ok
                         /\ [z EXCEPT !.len = n].pc = z.pc /\ [z EXCEPT !.len = n].then = z.then
                         /\ [z EXCEPT !.len = n].state = z.state
                         /\ [z EXCEPT !.len = n].replies = z.replies
    BY DEF FbCpu
  <1>4. \A z \in FbCpu :
           /\ [z EXCEPT !.txn_done = TRUE] \in FbCpu /\ [z EXCEPT !.txn_done = TRUE].ok = z.ok
           /\ [z EXCEPT !.txn_done = TRUE].txn_done = TRUE
           /\ [z EXCEPT !.txn_done = TRUE].pc = z.pc /\ [z EXCEPT !.txn_done = TRUE].then = z.then
           /\ [z EXCEPT !.txn_done = TRUE].state = z.state
           /\ [z EXCEPT !.txn_done = TRUE].replies = z.replies
    BY ZenonT(30) DEF FbCpu
  <1>5. /\ a \in FbMachine /\ a.hw = x.hw /\ a.drv = x.drv /\ a.cpu \in FbCpu /\ a.cpu.ok = ok
        /\ a.cpu.pc = x.cpu.pc /\ a.cpu.then = x.cpu.then /\ a.cpu.state = x.cpu.state
        /\ a.cpu.replies = x.cpu.replies
    <2> DEFINE z == [x.cpu EXCEPT !.ok = ok]
    <2>1. /\ z \in FbCpu /\ z.ok = ok /\ z.pc = x.cpu.pc /\ z.then = x.cpu.then
          /\ z.state = x.cpu.state /\ z.replies = x.cpu.replies
      BY <1>2, Fields
    <2>2. a = [x EXCEPT !.cpu = z]
      OBVIOUS
    <2> HIDE DEF z, a
    <2> QED BY <2>1, <2>2, CpuField
  <1> HIDE DEF a
  <1>6. /\ b \in FbMachine /\ b.hw = x.hw /\ b.drv = x.drv /\ b.cpu \in FbCpu /\ b.cpu.ok = ok
        /\ b.cpu.pc = x.cpu.pc /\ b.cpu.then = x.cpu.then /\ b.cpu.state = x.cpu.state
        /\ b.cpu.replies = x.cpu.replies
    <2> DEFINE z == [a.cpu EXCEPT !.len = n]
    <2>1. z \in FbCpu /\ z.ok = ok /\ z.pc = x.cpu.pc /\ z.then = x.cpu.then
          /\ z.state = x.cpu.state /\ z.replies = x.cpu.replies
      BY <1>3, <1>5, Zenon
    <2>2. b = [a EXCEPT !.cpu = z]
      OBVIOUS
    <2> HIDE DEF z, b
    <2>3. b \in FbMachine /\ b.hw = a.hw /\ b.drv = a.drv /\ b.cpu = z
      BY <1>5, <2>1, <2>2, CpuField
    <2> QED BY <1>5, <2>1, <2>3, Zenon
  <1> HIDE DEF b
  <1>7. /\ c \in FbMachine /\ c.hw = x.hw /\ c.drv = x.drv /\ c.cpu.ok = ok
        /\ c.cpu.pc = x.cpu.pc /\ c.cpu.then = x.cpu.then /\ c.cpu.state = x.cpu.state
        /\ c.cpu.replies = x.cpu.replies /\ c.cpu.txn_done = TRUE
    <2> DEFINE z == [b.cpu EXCEPT !.txn_done = TRUE]
    <2>1. z \in FbCpu /\ z.ok = ok /\ z.pc = x.cpu.pc /\ z.then = x.cpu.then
          /\ z.state = x.cpu.state /\ z.replies = x.cpu.replies /\ z.txn_done = TRUE
      BY <1>4, <1>6, Zenon
    <2>2. c = [b EXCEPT !.cpu = z]
      OBVIOUS
    <2> HIDE DEF z, c
    <2>3. c \in FbMachine /\ c.hw = b.hw /\ c.drv = b.drv /\ c.cpu = z
      BY <1>6, <2>1, <2>2, CpuField
    <2> QED BY <1>6, <2>1, <2>3, Zenon
  <1> HIDE DEF c
  <1> QED BY <1>1, <1>7

(* handle_ept_complete: the request comes off the endpoint and its callback *)
(* runs.                                                                   *)
LEMMA CompleteSound ==
    ASSUME NEW x, FbSound(x), NEW e \in Endpoints
    PROVE  /\ FbSound(handle_ept_complete(x, e))
           /\ Owing(handle_ept_complete(x, e)) => Owing(x)
  <1> DEFINE r == x.drv.req[e]
             y == [x EXCEPT !.drv.req[e] = "none"]
             ok == r # "none" /\ x.hw.item[r] = "done"
             n == IF ok THEN x.hw.moved[e] ELSE 0
             z == handle_ept_complete(x, e)
  <1>1. x \in FbMachine /\ Linked(x)
    BY DEF FbSound
  <1>2. /\ x.drv.req \in [Endpoints -> FbItems \cup {"none"}]
        /\ x.hw.item \in [FbItems -> {"idle", "active", "done", "halted"}]
        /\ x.hw.moved \in [Endpoints -> Nat]
    BY <1>1, Fields DEF FbHw, FbDrv
  <1>3. r \in {"none", "main", "ep0"} /\ ok \in BOOLEAN /\ n \in Nat
    BY <1>2 DEF FbItems
  <1>4. /\ y \in FbMachine /\ y.hw = x.hw /\ y.cpu = x.cpu
        /\ y.drv.req = [x.drv.req EXCEPT ![e] = "none"]
    <2>1. "none" \in FbItems \cup {"none"}
      BY Zenon
    <2> QED BY ZenonT(30), <1>1, <2>1, ReqSet
  <1>5. /\ r = "none" => z = x
        /\ r = "main" => z = req_complete(y, n, ok)
        /\ r = "ep0" => z \in {ep0in_complete(y, ok), ep0_setup_ack_complete(y), y}
    BY Zenon, <1>3 DEF handle_ept_complete
  <1>6. y.drv.req[e] = "none" /\ \A f \in Endpoints \ {e} : y.drv.req[f] = x.drv.req[f]
    BY <1>2, <1>4
  <1>7. {"in", "out", "ep0in", "ep0out"} = Endpoints
    BY DEF Endpoints
  <1> HIDE DEF y, z
  <1>8. FbSound(y) /\ (Owing(y) => Owing(x))
    <2>1. \A f \in Endpoints : y.drv.req[f] \in {x.drv.req[f], "none"}
      BY <1>6
    <2>2. /\ y.drv.req["in"] \in {x.drv.req["in"], "none"}
          /\ y.drv.req["out"] \in {x.drv.req["out"], "none"}
          /\ \A f \in {"ep0in", "ep0out"} : y.drv.req[f] \in {x.drv.req[f], "none"}
      BY <1>7, <2>1
    <2> QED BY <1>1, <1>4, <2>2 DEF FbSound, Linked, Owing, BulkEpts
  <1>9. CASE r = "none"
    BY <1>5, <1>9 DEF z
  <1>10. CASE r = "ep0"
    <2>1. FbSound(z) /\ (Owing(z) => Owing(y))
      BY Zenon, <1>3, <1>5, <1>8, <1>10, SetupAckSound, AckCompleteSound
    <2> QED BY <1>8, <2>1 DEF z
  <1>11. CASE r = "main"
    <2>1. e \in BulkEpts /\ (ok <=> x.hw.item["main"] = "done")
      BY <1>1, <1>7, <1>11 DEF Linked, BulkEpts
    <2>2. /\ x.cpu.pc = "wait" /\ y.drv.req["in"] = "none" /\ y.drv.req["out"] = "none"
          /\ ok /\ x.cpu.then = "command" => Owing(x)
      BY <1>1, <1>6, <1>7, <1>11, <2>1 DEF Linked, BulkEpts, Owing
    <2>3. \A f \in {"ep0in", "ep0out"} : y.drv.req[f] \in {"none", "ep0"}
      BY <1>8 DEF FbSound, Linked
    <2> HIDE DEF ok, n
    <2>4. /\ z \in FbMachine /\ z.hw = y.hw /\ z.drv = y.drv /\ z.cpu.ok = ok
          /\ z.cpu.pc = x.cpu.pc /\ z.cpu.then = x.cpu.then /\ z.cpu.state = x.cpu.state
          /\ z.cpu.replies = x.cpu.replies /\ z.cpu.txn_done = TRUE
      <3>1. z = req_complete(y, n, ok) /\ y \in FbMachine /\ n \in Nat /\ ok \in BOOLEAN
            /\ y.cpu = x.cpu
        BY <1>3, <1>4, <1>5, <1>11, Zenon
      <3>2. /\ z \in FbMachine /\ z.hw = y.hw /\ z.drv = y.drv /\ z.cpu.ok = ok
            /\ z.cpu.pc = y.cpu.pc /\ z.cpu.then = y.cpu.then /\ z.cpu.state = y.cpu.state
            /\ z.cpu.replies = y.cpu.replies /\ z.cpu.txn_done = TRUE
        BY <3>1, ReqCompleteFacts, ZenonT(30)
      <3> QED BY <3>1, <3>2, Zenon
    <2>5. x.cpu.pc = "wait" /\ x.cpu.then = "next" => x.cpu.replies # <<>>
      BY <1>1 DEF Linked
    <2>6. FbSound(z)
      BY <2>2, <2>3, <2>4, <2>5 DEF FbSound, Linked, BulkEpts
    <2>7. Owing(z) => Owing(x)
      <3>1. Owing(z) => x.cpu.state = "COMMAND" \/ (ok /\ x.cpu.then = "command")
        BY <1>3, <2>2, <2>4 DEF Owing
      <3> QED BY <2>2, <3>1 DEF Owing
    <2> QED BY <2>6, <2>7 DEF z
  <1> QED BY <1>3, <1>9, <1>10, <1>11

(* A pending request is made to fail.                                      *)
LEMMA ErrorSound ==
    ASSUME NEW x, FbSound(x), NEW e \in Endpoints
    PROVE  FbSound(ErrorEpt(x, e)) /\ (Owing(ErrorEpt(x, e)) => Owing(x))
  <1> DEFINE r == x.drv.req[e]
             y == [x EXCEPT !.hw.item[r] = "halted"]
  <1>1. x \in FbMachine /\ Linked(x)
    BY DEF FbSound
  <1>2. r \in FbItems \cup {"none"}
    BY <1>1, Fields DEF FbDrv
  <1>3. CASE r = "none"
    BY <1>3 DEF ErrorEpt
  <1>4. CASE r \in FbItems
    <2>1. /\ y \in FbMachine /\ y.drv = x.drv /\ y.cpu = x.cpu
          /\ y.hw.item = [x.hw.item EXCEPT ![r] = "halted"]
      BY Zenon, <1>1, <1>4, ItemSet
    <2>2. r # "none"
      BY <1>4 DEF FbItems
    <2>3. ErrorEpt(x, e) = handle_ept_complete(y, e)
      BY <2>2 DEF ErrorEpt
    <2>4. x.hw.item \in [FbItems -> {"idle", "active", "done", "halted"}]
      BY <1>1, Fields DEF FbHw
    <2> HIDE DEF r, y
    <2>5. y.hw.item["main"] \in {x.hw.item["main"], "halted"}
      BY <1>4, <2>1, <2>4 DEF FbItems
    <2>6. FbSound(y) /\ (Owing(y) => Owing(x))
      BY <1>1, <2>1, <2>5 DEF FbSound, Linked, Owing
    <2> QED BY <2>3, <2>6, CompleteSound
  <1> QED BY <1>2, <1>3, <1>4

LEMMA ErrorOutSound ==
    ASSUME NEW x, FbSound(x)
    PROVE  FbSound(ErrorOut(x)) /\ (Owing(ErrorOut(x)) => Owing(x))
  <1> DEFINE a == ErrorEpt(x, "out")
             b == ErrorEpt(a, "in")
             c == ErrorEpt(b, "ep0in")
             d == ErrorEpt(c, "ep0out")
  <1>1. ErrorOut(x) = d /\ {"out", "in", "ep0in", "ep0out"} = Endpoints
    BY DEF ErrorOut, Endpoints
  <1>2. FbSound(a) /\ (Owing(a) => Owing(x))
    BY <1>1, ErrorSound
  <1> HIDE DEF a
  <1>3. FbSound(b) /\ (Owing(b) => Owing(a))
    BY <1>1, <1>2, ErrorSound
  <1> HIDE DEF b
  <1>4. FbSound(c) /\ (Owing(c) => Owing(b))
    BY <1>1, <1>3, ErrorSound
  <1> HIDE DEF c
  <1>5. FbSound(d) /\ (Owing(d) => Owing(c))
    BY <1>1, <1>4, ErrorSound
  <1> HIDE DEF d
  <1> QED BY <1>1, <1>2, <1>3, <1>4, <1>5

(* A change of the controller's registers other than the queue's items.    *)
LEMMA RegistersSet ==
    ASSUME NEW x, FbSound(x), NEW h \in FbHw, h.item = x.hw.item
    PROVE  FbSound([x EXCEPT !.hw = h]) /\ (Owing([x EXCEPT !.hw = h]) => Owing(x))
  <1> DEFINE y == [x EXCEPT !.hw = h]
  <1>1. x \in FbMachine
    BY DEF FbSound
  <1>2. y \in FbMachine /\ y.hw = h /\ y.drv = x.drv /\ y.cpu = x.cpu
    BY <1>1, HwField
  <1> HIDE DEF y
  <1>3. FbSound(y) /\ (Owing(y) => Owing(x))
    BY <1>2, Unseen
  <1> QED BY <1>3 DEF y

(* A change of the driver's data other than the links to the endpoints.    *)
LEMMA DriverSet ==
    ASSUME NEW x, FbSound(x), NEW d \in FbDrv, d.req = x.drv.req
    PROVE  FbSound([x EXCEPT !.drv = d]) /\ (Owing([x EXCEPT !.drv = d]) => Owing(x))
  <1> DEFINE y == [x EXCEPT !.drv = d]
  <1>1. x \in FbMachine
    BY DEF FbSound
  <1>2. y \in FbMachine /\ y.drv = d /\ y.hw = x.hw /\ y.cpu = x.cpu
    BY <1>1, DrvField
  <1> HIDE DEF y
  <1>3. FbSound(y) /\ (Owing(y) => Owing(x))
    BY <1>2, Unseen
  <1> QED BY <1>3 DEF y

LEMMA EnableSound ==
    ASSUME NEW x, FbSound(x), NEW e \in BulkEpts
    PROVE  FbSound(endpoint_enable(x, e)) /\ (Owing(endpoint_enable(x, e)) => Owing(x))
  <1> DEFINE s == x.hw.enabled \cup {e}
             h == [x.hw EXCEPT !.enabled = s]
  <1>1. s \in SUBSET Endpoints
    BY Fields DEF FbSound, FbHw, BulkEpts, Endpoints
  <1>2. endpoint_enable(x, e) = [x EXCEPT !.hw = h]
    BY DEF endpoint_enable
  <1> HIDE DEF s
  <1>3. h \in FbHw /\ h.item = x.hw.item
    BY <1>1, Fields DEF FbSound, FbHw
  <1> HIDE DEF h
  <1> QED BY <1>2, <1>3, RegistersSet

LEMMA NotifySound ==
    ASSUME NEW x, FbSound(x), NEW v
    PROVE  FbSound(fastboot_notify(x, v)) /\ (Owing(fastboot_notify(x, v)) => Owing(x))
  <1> DEFINE c == [x.cpu EXCEPT !.usb_online = TRUE]
             y == [x EXCEPT !.cpu.usb_online = TRUE]
  <1>1. x \in FbMachine /\ Linked(x)
    BY DEF FbSound
  <1>2. /\ c \in FbCpu /\ c.pc = x.cpu.pc /\ c.then = x.cpu.then /\ c.state = x.cpu.state
        /\ c.replies = x.cpu.replies /\ c.ok = x.cpu.ok /\ c.txn_done = x.cpu.txn_done
        /\ c.msg = x.cpu.msg
    BY ZenonT(30), <1>1, Fields DEF FbCpu
  <1>3. y = [x EXCEPT !.cpu = c]
    OBVIOUS
  <1> HIDE DEF c, y
  <1>4. y \in FbMachine /\ y.cpu = c /\ y.hw = x.hw /\ y.drv = x.drv
    BY <1>1, <1>2, <1>3, CpuField
  <1>5. FbSound(y) /\ (Owing(y) => Owing(x))
    BY <1>1, <1>2, <1>4 DEF FbSound, Linked, Owing
  <1>6. fastboot_notify(x, v) \in {x, y}
    BY DEF fastboot_notify, y
  <1> QED BY <1>5, <1>6

(* One register or one flag of the driver is written.                      *)
LEMMA RegisterSound ==
    ASSUME NEW x, FbSound(x), NEW s \in SUBSET Endpoints
    PROVE  /\ FbSound([x EXCEPT !.hw.setup = "none"])
           /\ Owing([x EXCEPT !.hw.setup = "none"]) => Owing(x)
           /\ FbSound([x EXCEPT !.hw.complete = s])
           /\ Owing([x EXCEPT !.hw.complete = s]) => Owing(x)
           /\ FbSound([x EXCEPT !.hw.primed = s])
           /\ Owing([x EXCEPT !.hw.primed = s]) => Owing(x)
           /\ FbSound([x EXCEPT !.hw.enabled = s])
           /\ Owing([x EXCEPT !.hw.enabled = s]) => Owing(x)
           /\ FbSound([x EXCEPT !.hw.sts = {}])
           /\ Owing([x EXCEPT !.hw.sts = {}]) => Owing(x)
           /\ FbSound([x EXCEPT !.hw.stalled = TRUE])
           /\ Owing([x EXCEPT !.hw.stalled = TRUE]) => Owing(x)
  <1> DEFINE a == [x.hw EXCEPT !.setup = "none"]
             b == [x.hw EXCEPT !.complete = s]
             c == [x.hw EXCEPT !.primed = s]
             d == [x.hw EXCEPT !.enabled = s]
             e == [x.hw EXCEPT !.sts = {}]
             f == [x.hw EXCEPT !.stalled = TRUE]
  <1>1. x.hw \in FbHw
    BY Fields DEF FbSound
  <1>2. /\ a \in FbHw /\ a.item = x.hw.item /\ b \in FbHw /\ b.item = x.hw.item
        /\ c \in FbHw /\ c.item = x.hw.item /\ d \in FbHw /\ d.item = x.hw.item
    BY Zenon, <1>1 DEF FbHw
  <1>3. e \in FbHw /\ e.item = x.hw.item /\ f \in FbHw /\ f.item = x.hw.item
    BY Zenon, <1>1 DEF FbHw
  <1>4. /\ [x EXCEPT !.hw.setup = "none"] = [x EXCEPT !.hw = a]
        /\ [x EXCEPT !.hw.complete = s] = [x EXCEPT !.hw = b]
        /\ [x EXCEPT !.hw.primed = s] = [x EXCEPT !.hw = c]
        /\ [x EXCEPT !.hw.enabled = s] = [x EXCEPT !.hw = d]
        /\ [x EXCEPT !.hw.sts = {}] = [x EXCEPT !.hw = e]
        /\ [x EXCEPT !.hw.stalled = TRUE] = [x EXCEPT !.hw = f]
    OBVIOUS
  <1> DEFINE P(y) == FbSound(y) /\ (Owing(y) => Owing(x))
  <1> HIDE DEF a, b, c, d, e, f
  <1>5. \A h \in {a, b, c, d, e, f} : P([x EXCEPT !.hw = h])
    BY <1>2, <1>3, RegistersSet
  <1>6. /\ P([x EXCEPT !.hw = a]) /\ P([x EXCEPT !.hw = b]) /\ P([x EXCEPT !.hw = c])
        /\ P([x EXCEPT !.hw = d]) /\ P([x EXCEPT !.hw = e]) /\ P([x EXCEPT !.hw = f])
    BY <1>5, Zenon
  <1> HIDE DEF P
  <1>7. /\ P([x EXCEPT !.hw.setup = "none"]) /\ P([x EXCEPT !.hw.complete = s])
        /\ P([x EXCEPT !.hw.primed = s]) /\ P([x EXCEPT !.hw.enabled = s])
        /\ P([x EXCEPT !.hw.sts = {}]) /\ P([x EXCEPT !.hw.stalled = TRUE])
    BY <1>4, <1>6, Zenon
  <1> QED BY <1>7, Zenon DEF P

LEMMA FlagSound ==
    ASSUME NEW x, FbSound(x), NEW n \in {0, 1}, NEW b \in BOOLEAN
    PROVE  /\ FbSound([x EXCEPT !.drv.config = n])
           /\ Owing([x EXCEPT !.drv.config = n]) => Owing(x)
           /\ FbSound([x EXCEPT !.drv.online = b])
           /\ Owing([x EXCEPT !.drv.online = b]) => Owing(x)
           /\ FbSound([x EXCEPT !.drv.test_mode = b])
           /\ Owing([x EXCEPT !.drv.test_mode = b]) => Owing(x)
  <1> DEFINE d == [x.drv EXCEPT !.config = n]
             e == [x.drv EXCEPT !.online = b]
             f == [x.drv EXCEPT !.test_mode = b]
             P(y) == FbSound(y) /\ (Owing(y) => Owing(x))
  <1>1. x.drv \in FbDrv
    BY Fields DEF FbSound
  <1>2. /\ d \in FbDrv /\ d.req = x.drv.req /\ e \in FbDrv /\ e.req = x.drv.req
        /\ f \in FbDrv /\ f.req = x.drv.req
    BY <1>1 DEF FbDrv
  <1>3. /\ [x EXCEPT !.drv.config = n] = [x EXCEPT !.drv = d]
        /\ [x EXCEPT !.drv.online = b] = [x EXCEPT !.drv = e]
        /\ [x EXCEPT !.drv.test_mode = b] = [x EXCEPT !.drv = f]
    OBVIOUS
  <1> HIDE DEF d, e, f
  <1>4. \A z \in {d, e, f} : P([x EXCEPT !.drv = z])
    BY <1>2, DriverSet
  <1>5. P([x EXCEPT !.drv = d]) /\ P([x EXCEPT !.drv = e]) /\ P([x EXCEPT !.drv = f])
    BY <1>4, Zenon
  <1> HIDE DEF P
  <1>6. /\ P([x EXCEPT !.drv.config = n]) /\ P([x EXCEPT !.drv.online = b])
        /\ P([x EXCEPT !.drv.test_mode = b])
    BY <1>3, <1>5, Zenon
  <1> QED BY <1>6, Zenon DEF P

(* Where the interrupt is.                                                 *)
LEMMA IrqSet ==
    ASSUME NEW x, FbSound(x), NEW b \in BOOLEAN, NEW s \in SUBSET Endpoints
    PROVE  /\ FbSound([x EXCEPT !.cpu.inirq = b])
           /\ Owing([x EXCEPT !.cpu.inirq = b]) => Owing(x)
           /\ FbSound([x EXCEPT !.cpu.epts = s])
           /\ Owing([x EXCEPT !.cpu.epts = s]) => Owing(x)
  <1> DEFINE d == [x.cpu EXCEPT !.inirq = b]
             e == [x.cpu EXCEPT !.epts = s]
             P(y) == FbSound(y) /\ (Owing(y) => Owing(x))
  <1>1. x \in FbMachine /\ Linked(x) /\ x.cpu \in FbCpu
    BY Fields DEF FbSound
  <1>2. \A z \in {d, e} :
           /\ z \in FbCpu /\ z.pc = x.cpu.pc /\ z.then = x.cpu.then /\ z.state = x.cpu.state
           /\ z.replies = x.cpu.replies /\ z.ok = x.cpu.ok /\ z.txn_done = x.cpu.txn_done
           /\ z.msg = x.cpu.msg
    <2>1. d \in FbCpu /\ e \in FbCpu
      BY ZenonT(30), <1>1 DEF FbCpu
    <2>2. /\ d.pc = x.cpu.pc /\ d.then = x.cpu.then /\ d.state = x.cpu.state
          /\ d.replies = x.cpu.replies /\ d.ok = x.cpu.ok /\ d.txn_done = x.cpu.txn_done
          /\ d.msg = x.cpu.msg
      BY <1>1 DEF FbCpu
    <2>3. /\ e.pc = x.cpu.pc /\ e.then = x.cpu.then /\ e.state = x.cpu.state
          /\ e.replies = x.cpu.replies /\ e.ok = x.cpu.ok /\ e.txn_done = x.cpu.txn_done
          /\ e.msg = x.cpu.msg
      BY <1>1 DEF FbCpu
    <2> HIDE DEF d, e
    <2> QED BY Zenon, <2>1, <2>2, <2>3
  <1>3. /\ [x EXCEPT !.cpu.inirq = b] = [x EXCEPT !.cpu = d]
        /\ [x EXCEPT !.cpu.epts = s] = [x EXCEPT !.cpu = e]
    OBVIOUS
  <1> HIDE DEF d, e
  <1>4. ASSUME NEW z \in {d, e} PROVE P([x EXCEPT !.cpu = z])
    <2> DEFINE y == [x EXCEPT !.cpu = z]
    <2>1. y \in FbMachine /\ y.cpu = z /\ y.hw = x.hw /\ y.drv = x.drv
      BY <1>1, <1>2, CpuField
    <2> HIDE DEF y
    <2>2. P(y)
      BY <1>1, <1>2, <2>1 DEF FbSound, Linked, Owing
    <2> QED BY <2>2 DEF y
  <1>5. P([x EXCEPT !.cpu = d]) /\ P([x EXCEPT !.cpu = e])
    BY <1>4, Zenon
  <1> HIDE DEF P
  <1>6. P([x EXCEPT !.cpu.inirq = b]) /\ P([x EXCEPT !.cpu.epts = s])
    BY <1>3, <1>5, Zenon
  <1> QED BY <1>6, Zenon DEF P

LEMMA SetupSound ==
    ASSUME NEW x0, FbSound(x0)
    PROVE  FbSound(handle_setup(x0)) /\ (Owing(handle_setup(x0)) => Owing(x0))
  <1> DEFINE s == x0.hw.setup
             x == [x0 EXCEPT !.hw.setup = "none"]
             y == handle_setup(x0)
             a == endpoint_enable(x, "out")
             b == endpoint_enable(a, "in")
             c == fastboot_notify(b, "online")
             d == [c EXCEPT !.drv.config = 1]
             e == [d EXCEPT !.drv.online = TRUE]
             f == fastboot_notify(x, "offline")
             g == [f EXCEPT !.hw.enabled = {}]
             h == [g EXCEPT !.drv.config = 0]
             i == [h EXCEPT !.drv.online = FALSE]
             j == [x EXCEPT !.drv.test_mode = TRUE]
             k == [x EXCEPT !.hw.stalled = TRUE]
  <1>1. \/ y = setup_tx(x) \/ y = setup_ack(e) \/ y = setup_ack(i) \/ y = setup_ack(x)
        \/ y = setup_ack(j) \/ y = k
        \/ \E q \in BulkEpts : y = setup_ack(endpoint_enable(x, q))
    BY DEF handle_setup
  <1>2. {} \in SUBSET Endpoints /\ "out" \in BulkEpts /\ "in" \in BulkEpts
    BY DEF BulkEpts
  <1> HIDE DEF y
  <1>3. FbSound(x) /\ (Owing(x) => Owing(x0))
    BY Zenon, <1>2, RegisterSound
  <1> HIDE DEF x
  <1>4. FbSound(a) /\ (Owing(a) => Owing(x))
    BY <1>2, <1>3, EnableSound
  <1> HIDE DEF a
  <1>5. FbSound(b) /\ (Owing(b) => Owing(a))
    BY <1>2, <1>4, EnableSound
  <1> HIDE DEF b
  <1>6. FbSound(c) /\ (Owing(c) => Owing(b))
    BY <1>5, NotifySound
  <1> HIDE DEF c
  <1>7. FbSound(d) /\ (Owing(d) => Owing(c))
    BY Zenon, <1>6, FlagSound
  <1> HIDE DEF d
  <1>8. FbSound(e) /\ (Owing(e) => Owing(d))
    BY Zenon, <1>7, FlagSound
  <1> HIDE DEF e
  <1>9. FbSound(f) /\ (Owing(f) => Owing(x))
    BY <1>3, NotifySound
  <1> HIDE DEF f
  <1>10. FbSound(g) /\ (Owing(g) => Owing(f))
    BY Zenon, <1>2, <1>9, RegisterSound
  <1> HIDE DEF g
  <1>11. FbSound(h) /\ (Owing(h) => Owing(g))
    BY Zenon, <1>10, FlagSound
  <1> HIDE DEF h
  <1>12. FbSound(i) /\ (Owing(i) => Owing(h))
    BY Zenon, <1>11, FlagSound
  <1> HIDE DEF i
  <1>13. FbSound(j) /\ (Owing(j) => Owing(x)) /\ FbSound(k) /\ (Owing(k) => Owing(x))
    BY Zenon, <1>2, <1>3, FlagSound, RegisterSound
  <1> HIDE DEF j, k
  <1>14. FbSound(y) /\ (Owing(y) => Owing(x0))
    BY <1>1, <1>3, <1>4, <1>5, <1>6, <1>7, <1>8, <1>9, <1>10, <1>11, <1>12, <1>13,
       SetupAckSound, EnableSound
  <1> QED BY <1>14 DEF y

LEMMA BusResetSound ==
    ASSUME NEW x, FbSound(x)
    PROVE  FbSound(BusReset(x)) /\ (Owing(BusReset(x)) => Owing(x))
  <1> DEFINE a == [x EXCEPT !.hw.complete = {}]
             b == [a EXCEPT !.hw.setup = "none"]
             c == [b EXCEPT !.hw.primed = {}]
             d == [c EXCEPT !.hw.enabled = {}]
             e == [d EXCEPT !.drv.online = FALSE]
             f == [e EXCEPT !.drv.config = 0]
             g == fastboot_notify(f, "offline")
  <1>1. BusReset(x) = ErrorOut(g)
    BY DEF BusReset
  <1>2. {} \in SUBSET Endpoints
    OBVIOUS
  <1>3. FbSound(a) /\ (Owing(a) => Owing(x))
    BY Zenon, <1>2, RegisterSound
  <1> HIDE DEF a
  <1>4. FbSound(b) /\ (Owing(b) => Owing(a))
    BY Zenon, <1>2, <1>3, RegisterSound
  <1> HIDE DEF b
  <1>5. FbSound(c) /\ (Owing(c) => Owing(b))
    BY Zenon, <1>2, <1>4, RegisterSound
  <1> HIDE DEF c
  <1>6. FbSound(d) /\ (Owing(d) => Owing(c))
    BY ZenonT(30), <1>2, <1>5, RegisterSound
  <1> HIDE DEF d
  <1>7. FbSound(e) /\ (Owing(e) => Owing(d))
    BY Zenon, <1>6, FlagSound
  <1> HIDE DEF e
  <1>8. FbSound(f) /\ (Owing(f) => Owing(e))
    BY Zenon, <1>7, FlagSound
  <1> HIDE DEF f
  <1>9. FbSound(g) /\ (Owing(g) => Owing(f))
    BY <1>8, NotifySound
  <1> HIDE DEF g
  <1> QED BY <1>1, <1>3, <1>4, <1>5, <1>6, <1>7, <1>8, <1>9, ErrorOutSound

-----------------------------------------------------------------------------
(* Steps.                                                                  *)

LEMMA NextMachine ==
    ASSUME part'.kind = "fastboot", NEW y, FbSound(y), hw' = y.hw, drv' = y.drv, cpu' = y.cpu,
           Accounted(y, hist')
    PROVE  FbInv'
  <1>1. y = [hw |-> hw', drv |-> drv', cpu |-> cpu']
    BY DEF FbSound, FbMachine
  <1>2. FbInv' <=> /\ part'.kind = "fastboot"
                   /\ FbSound([hw |-> hw', drv |-> drv', cpu |-> cpu'])
                   /\ Accounted([hw |-> hw', drv |-> drv', cpu |-> cpu'], hist')
    BY DEF FbInv, Machine
  <1> QED BY <1>1, <1>2

(* A step of the thread or the interrupt that owes nothing new.            *)
LEMMA Taken ==
    ASSUME FbInv, NEW y, FbSound(y), Owing(y) => Owing(Machine), hw' = y.hw, drv' = y.drv,
           cpu' = y.cpu, UNCHANGED <<part, hist>>
    PROVE  FbInv'
  <1>1. Accounted(y, hist')
    BY DEF FbInv, Accounted
  <1> QED BY <1>1, NextMachine DEF FbInv

LEMMA BecomesSound ==
    ASSUME FbInv, NEW y, FbSound(y), Owing(y) => Owing(Machine), Becomes(y), UNCHANGED <<part, hist>>
    PROVE  FbInv'
  BY Taken DEF Becomes

LEMMA InterruptKeeps ==
    ASSUME FbInv, udc_interrupt
    PROVE  FbInv'
  <1> DEFINE x1 == [Machine EXCEPT !.hw.sts = {}]
             x2 == IF "URI" \in hw.sts THEN BusReset(x1) ELSE x1
             x3 == IF "UI" \in hw.sts /\ x2.hw.setup # "none" THEN handle_setup(x2) ELSE x2
             n  == IF "UI" \in hw.sts THEN x3.hw.complete ELSE {}
             s  == x3.hw.complete \ n
             a == [x3 EXCEPT !.hw.complete = s]
             b == [a EXCEPT !.cpu.inirq = TRUE]
             c == [b EXCEPT !.cpu.epts = n]
  <1>1. UNCHANGED <<part, hist>> /\ Becomes(c)
    BY DEF udc_interrupt
  <1>2. FbSound(Machine)
    BY DEF FbInv
  <1>3. FbSound(x1) /\ (Owing(x1) => Owing(Machine))
    BY Zenon, <1>2, RegisterSound
  <1> HIDE DEF x1
  <1>4. FbSound(x2) /\ (Owing(x2) => Owing(x1))
    BY <1>3, BusResetSound
  <1> HIDE DEF x2
  <1>5. FbSound(x3) /\ (Owing(x3) => Owing(x2))
    BY <1>4, SetupSound
  <1> HIDE DEF x3
  <1>6. n \in SUBSET Endpoints /\ s \in SUBSET Endpoints
    BY <1>5, Fields DEF FbSound, FbHw
  <1> HIDE DEF s, n
  <1>7. FbSound(a) /\ (Owing(a) => Owing(x3))
    BY Zenon, <1>5, <1>6, RegisterSound
  <1> HIDE DEF a
  <1>8. FbSound(b) /\ (Owing(b) => Owing(a))
    BY Zenon, <1>7, IrqSet
  <1> HIDE DEF b
  <1>9. FbSound(c) /\ (Owing(c) => Owing(b))
    BY Zenon, <1>6, <1>8, IrqSet
  <1> HIDE DEF c
  <1> QED BY <1>1, <1>3, <1>4, <1>5, <1>7, <1>8, <1>9, BecomesSound

LEMMA ServeKeeps ==
    ASSUME FbInv, ServeEndpoint
    PROVE  FbInv'
  <1>1. UNCHANGED <<part, hist>> /\ FbSound(Machine) /\ Machine \in FbMachine /\ cpu \in FbCpu
        /\ Machine.cpu = cpu
    BY Fields DEF ServeEndpoint, FbInv, FbSound, Machine
  <1>2. ASSUME cpu.epts = {}, ThreadStep([cpu EXCEPT !.inirq = FALSE])
        PROVE  FbInv'
    <2> DEFINE y == [Machine EXCEPT !.cpu.inirq = FALSE]
               c == [cpu EXCEPT !.inirq = FALSE]
    <2>1. FbSound(y) /\ (Owing(y) => Owing(Machine))
      BY Zenon, <1>1, IrqSet
    <2>2. y = [Machine EXCEPT !.cpu = c]
      BY <1>1
    <2>4. c \in FbCpu /\ cpu' = c /\ hw' = Machine.hw /\ drv' = Machine.drv
      BY Zenon, <1>1, <1>2 DEF FbCpu, ThreadStep, Machine
    <2> HIDE DEF y, c
    <2>3. hw' = y.hw /\ drv' = y.drv /\ cpu' = y.cpu
      BY <1>1, <2>2, <2>4, CpuField
    <2> QED BY <1>1, <2>1, <2>3, Taken
  <1>3. ASSUME NEW e \in cpu.epts,
               Becomes(handle_ept_complete(On([cpu EXCEPT !.epts = @ \ {e}]), e))
        PROVE  FbInv'
    <2> DEFINE n == cpu.epts \ {e}
               y == [Machine EXCEPT !.cpu.epts = n]
               z == handle_ept_complete(y, e)
    <2>1. n \in SUBSET Endpoints /\ e \in Endpoints
      BY <1>1 DEF FbCpu
    <2>2. On([cpu EXCEPT !.epts = @ \ {e}]) = y
      BY DEF On, Machine
    <2>3. Becomes(z)
      BY <1>3, <2>2
    <2> HIDE DEF n
    <2>4. FbSound(y) /\ (Owing(y) => Owing(Machine))
      BY Zenon, <1>1, <2>1, IrqSet
    <2> HIDE DEF y
    <2>5. FbSound(z) /\ (Owing(z) => Owing(y))
      BY <2>1, <2>4, CompleteSound
    <2> HIDE DEF z
    <2> QED BY <1>1, <2>3, <2>4, <2>5, BecomesSound
  <1> QED BY Zenon, <1>2, <1>3 DEF ServeEndpoint

Unlinked == drv.req["in"] = "none" /\ drv.req["out"] = "none"

LEMMA Parts ==
    ASSUME FbInv
    PROVE  /\ hw \in FbHw /\ drv \in FbDrv /\ cpu \in FbCpu /\ Machine \in FbMachine
           /\ Machine.hw = hw /\ Machine.drv = drv /\ Machine.cpu = cpu
  BY Fields DEF FbInv, FbSound, Machine

(* A thread that does not wait has no request at an endpoint.              *)
LEMMA IdleThread ==
    ASSUME FbInv, cpu.pc # "wait" \/ cpu.txn_done = TRUE
    PROVE  Unlinked /\ (cpu.pc # "wait" => cpu.txn_done = FALSE)
  <1>1. Linked(Machine) /\ cpu.txn_done \in BOOLEAN
    BY Parts DEF FbInv, FbSound, FbCpu
  <1>2. cpu.pc # "wait" => cpu.txn_done = FALSE
    BY <1>1, Parts DEF Linked
  <1>3. Unlinked
    BY <1>1, Parts DEF Linked, Unlinked, BulkEpts
  <1> QED BY <1>2, <1>3

(* A step of the thread that starts no transfer.                           *)
LEMMA ThreadMoves ==
    ASSUME FbInv, NEW c \in FbCpu, cpu' = c, drv' = drv, hw' \in FbHw, hw'.item = hw.item,
           UNCHANGED <<part, hist>>, Unlinked, c.txn_done = FALSE,
           c.pc = "next" \/ c.pc = "wait" => c.replies # <<>>,
           c.state = "COMMAND" \/ c.pc = "command" => Owing(Machine)
    PROVE  FbInv'
  <1> DEFINE y == [hw |-> hw', drv |-> drv, cpu |-> c]
  <1>1. y \in FbMachine /\ y.hw = hw' /\ y.drv = drv /\ y.cpu = c
    BY Parts DEF FbMachine
  <1>2. \A e \in {"ep0in", "ep0out"} : drv.req[e] \in {"none", "ep0"}
    BY Zenon, Parts DEF FbInv, FbSound, Linked
  <1> HIDE DEF y
  <1>3. FbSound(y) /\ (Owing(y) => Owing(Machine))
    BY <1>1, <1>2 DEF FbSound, Linked, Owing, Unlinked, BulkEpts
  <1> QED BY <1>1, <1>3, Taken

(* The thread's request is queued at a bulk endpoint.                      *)
LEMMA BulkQueued ==
    ASSUME NEW x \in FbMachine, NEW e \in BulkEpts
    PROVE  LET y == udc_request_queue(x, e, "main")
           IN  /\ y \in FbMachine /\ y.cpu = x.cpu /\ y.hw.item["main"] = "active"
               /\ y.drv.req["in"] = IF e = "in" THEN "main" ELSE x.drv.req["in"]
               /\ y.drv.req["out"] = IF e = "out" THEN "main" ELSE x.drv.req["out"]
               /\ y.drv.req["ep0in"] = x.drv.req["ep0in"]
               /\ y.drv.req["ep0out"] = x.drv.req["ep0out"]
  <1> DEFINE y == udc_request_queue(x, e, "main")
  <1>1. e \in Endpoints /\ "main" \in FbItems /\ e \in {"in", "out"}
    <2>1. e = "in" \/ e = "out"
      BY DEF BulkEpts
    <2> QED BY <2>1 DEF Endpoints, FbItems
  <1>2. /\ y \in FbMachine /\ y.cpu = x.cpu
        /\ y.hw.item = [x.hw.item EXCEPT !["main"] = "active"]
        /\ y.drv.req = [x.drv.req EXCEPT ![e] = "main"]
    <2>1. e \in Endpoints /\ "main" \in FbItems
      BY Zenon, <1>1
    <2> HIDE DEF y
    <2>2. \A r \in FbItems :
             /\ udc_request_queue(x, e, r) \in FbMachine
             /\ udc_request_queue(x, e, r).cpu = x.cpu
             /\ udc_request_queue(x, e, r).hw.item = [x.hw.item EXCEPT ![r] = "active"]
             /\ udc_request_queue(x, e, r).drv.req = [x.drv.req EXCEPT ![e] = r]
      BY ZenonT(30), <2>1, Queued
    <2> QED BY Zenon, <2>1, <2>2 DEF y
  <1>3. /\ x.hw.item \in [FbItems -> {"idle", "active", "done", "halted"}]
        /\ x.drv.req \in [Endpoints -> FbItems \cup {"none"}]
    BY Fields DEF FbHw, FbDrv
  <1> HIDE DEF y
  <1>4. y.hw.item["main"] = "active"
    BY <1>1, <1>2, <1>3
  <1>5. /\ y.drv.req["in"] = (IF e = "in" THEN "main" ELSE x.drv.req["in"])
        /\ y.drv.req["out"] = (IF e = "out" THEN "main" ELSE x.drv.req["out"])
        /\ y.drv.req["ep0in"] = x.drv.req["ep0in"] /\ y.drv.req["ep0out"] = x.drv.req["ep0out"]
    BY <1>1, <1>2, <1>3 DEF Endpoints
  <1> QED BY <1>2, <1>4, <1>5 DEF y

(* usb_read and usb_write: a step of the thread that starts a transfer.    *)
LEMMA TransferStarts ==
    ASSUME FbInv, NEW c \in FbCpu, NEW e \in BulkEpts,
           Becomes(udc_request_queue(On(c), e, "main")), UNCHANGED <<part, hist>>, Unlinked,
           c.txn_done = FALSE, c.pc = "wait",
           c.then = "next" => c.replies # <<>>,
           e = "in" => /\ c.then \in {"next", "loop", "data"}
                       /\ c.msg \in Final => c.state = "COMPLETE" /\ Owing(Machine),
           e = "out" => c.then \in {"command", "piece"},
           c.state = "COMMAND" => Owing(Machine)
    PROVE  FbInv'
  <1> DEFINE x == On(c)
             y == udc_request_queue(x, e, "main")
  <1>1. x \in FbMachine /\ x.hw = hw /\ x.drv = drv /\ x.cpu = c
    BY Parts, CpuField DEF On
  <1>2. e \in {"in", "out"}
    BY DEF BulkEpts
  <1> HIDE DEF x
  <1>3. /\ y \in FbMachine /\ y.cpu = x.cpu /\ y.hw.item["main"] = "active"
        /\ y.drv.req["in"] = (IF e = "in" THEN "main" ELSE x.drv.req["in"])
        /\ y.drv.req["out"] = (IF e = "out" THEN "main" ELSE x.drv.req["out"])
        /\ y.drv.req["ep0in"] = x.drv.req["ep0in"] /\ y.drv.req["ep0out"] = x.drv.req["ep0out"]
    BY <1>1, BulkQueued
  <1>4. Becomes(y)
    BY Zenon DEF x
  <1> HIDE DEF y
  <1>7. /\ y.drv.req["in"] = (IF e = "in" THEN "main" ELSE "none")
        /\ y.drv.req["out"] = (IF e = "out" THEN "main" ELSE "none")
        /\ y.drv.req["ep0in"] = drv.req["ep0in"] /\ y.drv.req["ep0out"] = drv.req["ep0out"]
        /\ y.cpu = c
    BY <1>1, <1>2, <1>3 DEF Unlinked
  <1>8. \A f \in {"ep0in", "ep0out"} : drv.req[f] \in {"none", "ep0"}
    BY Zenon, Parts DEF FbInv, FbSound, Linked
  <1>9. FbSound(y)
    BY <1>2, <1>3, <1>7, <1>8 DEF FbSound, Linked, BulkEpts
  <1>10. Owing(y) => Owing(Machine)
    <2>1. Owing(y) => c.state = "COMMAND" \/ (e = "in" /\ c.msg \in Final)
      BY <1>2, <1>3, <1>7 DEF Owing
    <2> QED BY <2>1
  <1> QED BY <1>4, <1>9, <1>10, BecomesSound

(* The thread may answer while the state is COMMAND or a command has come.  *)
LEMMA OwingNow ==
    ASSUME FbInv
    PROVE  /\ cpu.state = "COMMAND" => Owing(Machine)
           /\ cpu.pc = "command" => Owing(Machine)
           /\ cpu.txn_done = TRUE /\ cpu.ok = TRUE /\ cpu.then = "command" => Owing(Machine)
           /\ cpu.pc = "next" => cpu.replies # <<>>
           /\ cpu.pc = "wait" /\ cpu.then = "next" => cpu.replies # <<>>
  BY ZenonT(30), Parts DEF Owing, FbInv, FbSound, Linked

LEMMA StartKeeps ==
    ASSUME FbInv, udc_start \/ fastboot_handler
    PROVE  FbInv'
  <1>1. /\ cpu.pc \in {"off", "online?"} /\ UNCHANGED <<part, hist, drv>>
        /\ hw' = hw \/ hw' = [hw EXCEPT !.running = TRUE]
        /\ cpu' = [cpu EXCEPT !.pc = "online?"] \/ cpu' = [cpu EXCEPT !.usb_online = FALSE, !.pc = "loop"]
    BY DEF udc_start, fastboot_handler, Runs, ThreadStep
  <1>2. hw' \in FbHw /\ hw'.item = hw.item
    <2>1. [hw EXCEPT !.running = TRUE] \in FbHw /\ [hw EXCEPT !.running = TRUE].item = hw.item
      BY Zenon, Parts DEF FbHw
    <2> QED BY <1>1, <2>1, Parts, Zenon
  <1>3. Unlinked /\ cpu.txn_done = FALSE
    BY Zenon, <1>1, IdleThread
  <1>4. cpu' \in FbCpu /\ cpu'.pc \in {"online?", "loop"} /\ cpu'.state = cpu.state
        /\ cpu'.txn_done = cpu.txn_done
    <2> DEFINE p == [cpu EXCEPT !.pc = "online?"]
               q == [cpu EXCEPT !.usb_online = FALSE, !.pc = "loop"]
    <2>1. p \in FbCpu /\ p.pc = "online?" /\ p.state = cpu.state /\ p.txn_done = cpu.txn_done
      BY Zenon, Parts DEF FbCpu, FbPlaces
    <2>2. q \in FbCpu /\ q.pc = "loop" /\ q.state = cpu.state /\ q.txn_done = cpu.txn_done
      <3> DEFINE z == [cpu EXCEPT !.usb_online = FALSE]
      <3>1. z \in FbCpu /\ z.state = cpu.state /\ z.txn_done = cpu.txn_done
        BY Zenon, Parts DEF FbCpu
      <3>2. q = [z EXCEPT !.pc = "loop"]
        OBVIOUS
      <3> HIDE DEF z, q
      <3> QED BY <3>1, <3>2 DEF FbCpu, FbPlaces, Thens
    <2>3. cpu' = p \/ cpu' = q
      BY <1>1
    <2> HIDE DEF p, q
    <2> QED BY <2>1, <2>2, <2>3
  <1> QED BY Zenon, <1>1, <1>2, <1>3, <1>4, OwingNow, ThreadMoves

LEMMA LoopKeeps ==
    ASSUME FbInv, fastboot_command_loop
    PROVE  FbInv'
  <1>1. cpu.pc = "loop" /\ UNCHANGED <<part, hist>>
    BY DEF fastboot_command_loop, Runs
  <1>2. Unlinked /\ cpu.txn_done = FALSE
    BY Zenon, <1>1, IdleThread
  <1>3. CASE cpu.state = "ERROR"
    <2>1. cpu' = [cpu EXCEPT !.state = "OFFLINE", !.pc = "online?"] /\ UNCHANGED <<hw, drv>>
      BY <1>3 DEF fastboot_command_loop, ThreadStep
    <2>2. /\ cpu' \in FbCpu /\ cpu'.pc = "online?" /\ cpu'.state = "OFFLINE"
          /\ cpu'.txn_done = cpu.txn_done
      BY ZenonT(30), <2>1, Parts DEF FbCpu, FbPlaces, Thens
    <2> QED BY Zenon, <1>1, <1>2, <2>1, <2>2, Parts, ThreadMoves
  <1>4. CASE cpu.state # "ERROR"
    <2> DEFINE c == [cpu EXCEPT !.asked = 1, !.pc = "wait", !.then = "command"]
    <2>1. Becomes(udc_request_queue(On(c), "out", "main"))
      BY <1>4 DEF fastboot_command_loop, usb_read
    <2>2. /\ c \in FbCpu /\ c.pc = "wait" /\ c.then = "command" /\ c.state = cpu.state
          /\ c.txn_done = cpu.txn_done
      BY ZenonT(30), Parts DEF FbCpu, FbPlaces, Thens
    <2> HIDE DEF c
    <2> QED BY Zenon, <1>1, <1>2, <2>1, <2>2, OwingNow, TransferStarts DEF BulkEpts
  <1> QED BY <1>3, <1>4

LEMMA TxnDoneKeeps ==
    ASSUME FbInv, TxnDone
    PROVE  FbInv'
  <1> DEFINE pc == IF cpu.ok THEN cpu.then ELSE "loop"
             state == IF cpu.ok THEN cpu.state ELSE "ERROR"
  <1>1. cpu.pc = "wait" /\ cpu.txn_done = TRUE /\ UNCHANGED <<part, hist, hw, drv>>
        /\ cpu' = [cpu EXCEPT !.txn_done = FALSE, !.pc = pc, !.state = state]
    BY Parts DEF TxnDone, Runs, ThreadStep, FbCpu
  <1>2. Unlinked
    BY Zenon, <1>1, IdleThread
  <1>3. pc \in Thens /\ state \in {"OFFLINE", "COMMAND", "COMPLETE", "ERROR"} /\ cpu.ok \in BOOLEAN
    BY Parts DEF FbCpu, Thens
  <1>4. /\ state = "COMMAND" => cpu.state = "COMMAND"
        /\ pc = "command" => cpu.ok = TRUE /\ cpu.then = "command"
        /\ pc = "next" => cpu.then = "next"
    BY <1>3
  <1> HIDE DEF pc, state
  <1>5. /\ cpu' \in FbCpu /\ cpu'.pc = pc /\ cpu'.state = state /\ cpu'.txn_done = FALSE
        /\ cpu'.replies = cpu.replies
    BY Zenon, <1>1, <1>3, Parts DEF FbCpu, FbPlaces
  <1>6. pc # "wait"
    BY <1>3 DEF Thens
  <1> QED BY Zenon, <1>1, <1>2, <1>4, <1>5, <1>6, Parts, OwingNow, ThreadMoves

LEMMA RepliesTyped ==
    ASSUME NEW c
    PROVE  Replies(c) \subseteq Seq(Final \cup {"INFO", "stop"})
  <1> DEFINE S == Final \cup {"INFO", "stop"}
  <1>1. "OKAY" \in S /\ "FAIL" \in S /\ "INFO" \in S /\ "stop" \in S
    BY DEF Final
  <1> HIDE DEF S
  <1>2. /\ <<>> \in Seq(S) /\ <<"OKAY">> \in Seq(S) /\ <<"FAIL">> \in Seq(S)
        /\ <<"FAIL", "OKAY">> \in Seq(S) /\ <<"OKAY", "stop">> \in Seq(S)
        /\ <<"INFO", "INFO", "OKAY">> \in Seq(S)
    BY <1>1
  <1>3. Replies(c) \subseteq {<<>>, <<"OKAY">>, <<"FAIL">>, <<"FAIL", "OKAY">>, <<"OKAY", "stop">>,
                              <<"INFO", "INFO", "OKAY">>}
    BY DEF Replies
  <1>4. Replies(c) \subseteq Seq(S)
    BY Zenon, <1>2, <1>3
  <1> QED BY <1>4 DEF S

LEMMA DispatchKeeps ==
    ASSUME FbInv, Dispatch
    PROVE  FbInv'
  <1>1. cpu.pc = "command" /\ UNCHANGED <<part, hist, hw, drv>>
    BY Zenon DEF Dispatch, Runs, Goto, ThreadStep
  <1>2. Unlinked /\ cpu.txn_done = FALSE /\ Owing(Machine)
    BY Zenon, <1>1, IdleThread, OwingNow
  <1>3. hw.buffer.len \in Nat
    BY Zenon, Parts DEF FbHw
  <1>4. cpu' \in FbCpu /\ cpu'.pc \in {"loop", "download", "handler"} /\ cpu'.txn_done = cpu.txn_done
    <2>1. CASE cpu' = [cpu EXCEPT !.pc = "loop"]
      BY <2>1, Parts DEF FbCpu, FbPlaces, Thens
    <2>2. CASE cpu' = [cpu EXCEPT !.state = "COMMAND", !.pc = "download",
                                  !.want = hw.buffer.len, !.got = 0]
      <3> DEFINE n == hw.buffer.len
      <3>1. cpu' = [cpu EXCEPT !.state = "COMMAND", !.pc = "download", !.want = n, !.got = 0]
        BY <2>2
      <3> HIDE DEF n
      <3>2. n \in Nat
        BY <1>3 DEF n
      <3> QED BY ZenonT(30), <3>1, <3>2, Parts DEF FbCpu, FbPlaces, Thens
    <2>3. ASSUME NEW r \in Replies(hw.buffer.cmd),
                 cpu' = [cpu EXCEPT !.state = "COMMAND", !.pc = "handler", !.replies = r]
          PROVE  cpu' \in FbCpu /\ cpu'.pc = "handler" /\ cpu'.txn_done = cpu.txn_done
      <3>1. r \in Seq(Final \cup {"INFO", "stop"})
        BY <2>3, RepliesTyped
      <3> QED BY ZenonT(30), <2>3, <3>1, Parts DEF FbCpu, FbPlaces, Thens
    <2> QED BY Zenon, <2>1, <2>2, <2>3 DEF Dispatch, Goto, ThreadStep
  <1> QED BY Zenon, <1>1, <1>2, <1>4, Parts, ThreadMoves

(* fastboot_ack answers a command once.                                    *)
LEMMA AckKeeps ==
    ASSUME FbInv, cpu.pc = "handler", NEW m \in Final, NEW then \in {"next", "loop"},
           then = "next" => cpu.replies # <<>>, fastboot_ack(m, then), UNCHANGED <<part, hist>>
    PROVE  FbInv'
  <1>1. Unlinked /\ cpu.txn_done = FALSE
    BY Zenon, IdleThread
  <1>2. CASE cpu.state # "COMMAND"
    <2>1. cpu' = [cpu EXCEPT !.pc = then] /\ UNCHANGED <<hw, drv>>
      BY <1>2 DEF fastboot_ack, Goto, ThreadStep
    <2>2. /\ cpu' \in FbCpu /\ cpu'.pc = then /\ cpu'.state = cpu.state
          /\ cpu'.txn_done = cpu.txn_done /\ cpu'.replies = cpu.replies
      BY <2>1, Parts DEF FbCpu, FbPlaces, Thens
    <2> QED BY Zenon, <1>1, <1>2, <2>1, <2>2, Parts, ThreadMoves
  <1>3. CASE cpu.state = "COMMAND"
    <2> DEFINE c == [cpu EXCEPT !.state = "COMPLETE", !.msg = m, !.pc = "wait", !.then = then]
    <2>1. Becomes(udc_request_queue(On(c), "in", "main"))
      BY <1>3 DEF fastboot_ack
    <2>2. /\ c \in FbCpu /\ c.pc = "wait" /\ c.then = then /\ c.state = "COMPLETE"
          /\ c.txn_done = cpu.txn_done /\ c.replies = cpu.replies
      BY ZenonT(30), Parts DEF FbCpu, FbPlaces, Thens
    <2> HIDE DEF c
    <2> QED BY Zenon, <1>1, <1>3, <2>1, <2>2, OwingNow, TransferStarts DEF BulkEpts
  <1> QED BY <1>2, <1>3

LEMMA HandlerKeeps ==
    ASSUME FbInv, Handler
    PROVE  FbInv'
  <1> DEFINE m == Head(cpu.replies)
  <1>1. cpu.pc = "handler" /\ cpu.replies # <<>> /\ UNCHANGED <<part, hist>>
    BY DEF Handler, Runs
  <1>2. Unlinked /\ cpu.txn_done = FALSE
    BY Zenon, <1>1, IdleThread
  <1>3. CASE /\ hw' = [hw EXCEPT !.running = FALSE] /\ cpu' = [cpu EXCEPT !.pc = "booting"]
             /\ UNCHANGED drv
    <2>1. hw' \in FbHw /\ hw'.item = hw.item
      BY Zenon, <1>3, Parts DEF FbHw
    <2>2. /\ cpu' \in FbCpu /\ cpu'.pc = "booting" /\ cpu'.state = cpu.state
          /\ cpu'.txn_done = cpu.txn_done
      BY Zenon, <1>3, Parts DEF FbCpu, FbPlaces, Thens
    <2> QED BY Zenon, <1>1, <1>2, <1>3, <2>1, <2>2, OwingNow, ThreadMoves
  <1>4. CASE fastboot_info("next")
    <2>1. CASE cpu.state # "COMMAND"
      <3>1. cpu' = [cpu EXCEPT !.pc = "next"] /\ UNCHANGED <<hw, drv>>
        BY <1>4, <2>1 DEF fastboot_info, Goto, ThreadStep
      <3>2. /\ cpu' \in FbCpu /\ cpu'.pc = "next" /\ cpu'.state = cpu.state
            /\ cpu'.txn_done = cpu.txn_done /\ cpu'.replies = cpu.replies
        BY <3>1, Parts DEF FbCpu, FbPlaces, Thens
      <3> QED BY Zenon, <1>1, <1>2, <2>1, <3>1, <3>2, Parts, ThreadMoves
    <2>2. CASE cpu.state = "COMMAND"
      <3> DEFINE c == [cpu EXCEPT !.msg = "INFO", !.pc = "wait", !.then = "next"]
      <3>1. Becomes(udc_request_queue(On(c), "in", "main"))
        BY <1>4, <2>2 DEF fastboot_info, usb_write
      <3>2. /\ c \in FbCpu /\ c.pc = "wait" /\ c.then = "next" /\ c.state = cpu.state
            /\ c.txn_done = cpu.txn_done /\ c.replies = cpu.replies /\ c.msg = "INFO"
        BY ZenonT(30), Parts DEF FbCpu, FbPlaces, Thens
      <3> HIDE DEF c
      <3> QED BY Zenon, <1>1, <1>2, <2>2, <3>1, <3>2, OwingNow, TransferStarts DEF BulkEpts, Final
    <2> QED BY <2>1, <2>2
  <1>5. CASE m \in {"OKAY", "FAIL"} /\ fastboot_ack(m, "next")
    <2> HIDE DEF m
    <2> QED BY <1>1, <1>5, AckKeeps DEF Final
  <1> QED BY <1>3, <1>4, <1>5 DEF Handler

LEMMA ReplyKeeps ==
    ASSUME FbInv, NextReply \/ HandlerReturned
    PROVE  FbInv'
  <1>1. UNCHANGED <<part, hist>>
    BY DEF NextReply, HandlerReturned, Runs
  <1>2. CASE NextReply
    <2> DEFINE t == Tail(cpu.replies)
    <2>1. cpu.pc = "next" /\ cpu' = [cpu EXCEPT !.replies = t, !.pc = "handler"] /\ UNCHANGED <<hw, drv>>
      BY <1>2 DEF NextReply, Runs, ThreadStep
    <2>2. Unlinked /\ cpu.txn_done = FALSE /\ cpu.replies # <<>>
      BY Zenon, <2>1, IdleThread, OwingNow
    <2>3. t \in Seq(Final \cup {"INFO", "stop"})
      <3>1. cpu.replies \in Seq(Final \cup {"INFO", "stop"})
        BY Parts DEF FbCpu
      <3> QED BY <2>2, <3>1
    <2> HIDE DEF t
    <2>4. /\ cpu' \in FbCpu /\ cpu'.pc = "handler" /\ cpu'.state = cpu.state
          /\ cpu'.txn_done = cpu.txn_done
      BY Zenon, <2>1, <2>3, Parts DEF FbCpu, FbPlaces, Thens
    <2> QED BY Zenon, <1>1, <2>1, <2>2, <2>4, Parts, OwingNow, ThreadMoves
  <1>3. CASE HandlerReturned
    <2>1. cpu.pc = "handler"
      BY <1>3 DEF HandlerReturned, Runs
    <2>2. CASE fastboot_ack("FAIL", "loop")
      BY <1>1, <2>1, <2>2, AckKeeps DEF Final
    <2>3. CASE Goto("loop")
      <3>1. cpu' = [cpu EXCEPT !.pc = "loop"] /\ UNCHANGED <<hw, drv>>
        BY <2>3 DEF Goto, ThreadStep
      <3>2. /\ cpu' \in FbCpu /\ cpu'.pc = "loop" /\ cpu'.state = cpu.state
            /\ cpu'.txn_done = cpu.txn_done
        BY <3>1, Parts DEF FbCpu, FbPlaces, Thens
      <3> QED BY Zenon, <1>1, <2>1, <3>1, <3>2, Parts, IdleThread, OwingNow, ThreadMoves
    <2> QED BY <1>3, <2>2, <2>3 DEF HandlerReturned
  <1> QED BY <1>2, <1>3

LEMMA DownloadKeeps ==
    ASSUME FbInv, cmd_download
    PROVE  FbInv'
  <1>1. UNCHANGED <<part, hist>> /\ cpu.pc \in {"download", "data", "piece"}
    BY DEF cmd_download, Runs
  <1>2. Unlinked /\ cpu.txn_done = FALSE
    BY Zenon, <1>1, IdleThread
  <1>3. cpu.want \in Nat /\ cpu.got \in Nat /\ cpu.len \in Nat /\ cpu.asked \in Nat /\ Bulk \in Nat
    BY Parts, TransferSizes DEF FbCpu
  <1>4. \A m \in Final : <<m>> \in Seq(Final \cup {"INFO", "stop"})
    OBVIOUS
  <1>5. ASSUME NEW c \in FbCpu, ThreadStep(c), c.pc \in {"handler", "loop", "data"},
               c.state \in {cpu.state, "ERROR"}, c.txn_done = cpu.txn_done
        PROVE  FbInv'
    <2>1. cpu' = c /\ UNCHANGED <<hw, drv>>
      BY <1>5 DEF ThreadStep
    <2> QED BY Zenon, <1>1, <1>2, <1>5, <2>1, Parts, OwingNow, ThreadMoves
  <1>6. CASE cpu.pc = "download"
    <2>1. CASE ThreadStep([cpu EXCEPT !.size = 0, !.pc = "handler", !.replies = <<"FAIL">>])
      <3> DEFINE r == <<"FAIL">>
                 c == [cpu EXCEPT !.size = 0, !.pc = "handler", !.replies = r]
      <3>1. ThreadStep(c) /\ r \in Seq(Final \cup {"INFO", "stop"})
        BY <1>4, <2>1 DEF Final
      <3> HIDE DEF r
      <3>2. c \in FbCpu /\ c.pc = "handler" /\ c.state = cpu.state /\ c.txn_done = cpu.txn_done
        BY ZenonT(30), <3>1, Parts DEF FbCpu, FbPlaces, Thens
      <3> HIDE DEF c
      <3> QED BY <1>5, <3>1, <3>2
    <2>2. CASE Becomes(udc_request_queue(
                  On([cpu EXCEPT !.size = 0, !.msg = "DATA", !.pc = "wait", !.then = "data"]),
                  "in", "main"))
      <3> DEFINE c == [cpu EXCEPT !.size = 0, !.msg = "DATA", !.pc = "wait", !.then = "data"]
      <3>1. Becomes(udc_request_queue(On(c), "in", "main"))
        BY <2>2
      <3>2. /\ c \in FbCpu /\ c.pc = "wait" /\ c.then = "data" /\ c.state = cpu.state
            /\ c.txn_done = cpu.txn_done /\ c.msg = "DATA"
        BY Zenon, Parts DEF FbCpu, FbPlaces, Thens
      <3> HIDE DEF c
      <3> QED BY Zenon, <1>1, <1>2, <3>1, <3>2, OwingNow, TransferStarts DEF BulkEpts, Final
    <2> QED BY <1>6, <2>1, <2>2 DEF cmd_download, Runs
  <1>7. CASE cpu.pc = "data"
    <2> DEFINE n == IF cpu.want - cpu.got > Bulk THEN Bulk ELSE cpu.want - cpu.got
    <2>1. CASE cpu.got < cpu.want /\ usb_read(n, "piece")
      <3> DEFINE c == [cpu EXCEPT !.asked = n, !.pc = "wait", !.then = "piece"]
      <3>1. Becomes(udc_request_queue(On(c), "out", "main"))
        BY <2>1 DEF usb_read
      <3>2. n \in Nat
        BY <1>3, <2>1
      <3> HIDE DEF n
      <3>3. /\ c \in FbCpu /\ c.pc = "wait" /\ c.then = "piece" /\ c.state = cpu.state
            /\ c.txn_done = cpu.txn_done
        BY ZenonT(30), <3>2, Parts DEF FbCpu, FbPlaces, Thens
      <3> HIDE DEF c
      <3> QED BY Zenon, <1>1, <1>2, <3>1, <3>3, OwingNow, TransferStarts DEF BulkEpts
    <2>2. CASE ThreadStep([cpu EXCEPT !.size = cpu.want, !.pc = "handler", !.replies = <<"OKAY">>])
      <3> DEFINE r == <<"OKAY">>
                 w == cpu.want
                 c == [cpu EXCEPT !.size = w, !.pc = "handler", !.replies = r]
      <3>1. ThreadStep(c) /\ r \in Seq(Final \cup {"INFO", "stop"}) /\ w \in Nat
        BY <1>3, <1>4, <2>2 DEF Final
      <3> HIDE DEF r, w
      <3>2. c \in FbCpu /\ c.pc = "handler" /\ c.state = cpu.state /\ c.txn_done = cpu.txn_done
        BY Zenon, <3>1, Parts DEF FbCpu, FbPlaces, Thens
      <3> HIDE DEF c
      <3> QED BY <1>5, <3>1, <3>2
    <2> QED BY <1>7, <2>1, <2>2 DEF cmd_download, Runs
  <1>8. CASE cpu.pc = "piece"
    <2> DEFINE n == cpu.got + cpu.len
               c == [cpu EXCEPT !.got = n, !.pc = "loop", !.state = "ERROR"]
               d == [cpu EXCEPT !.got = n, !.pc = "data"]
    <2>1. ThreadStep(c) \/ ThreadStep(d)
      BY <1>8 DEF cmd_download, Runs
    <2>2. n \in Nat
      BY <1>3
    <2> HIDE DEF n
    <2>3. /\ c \in FbCpu /\ c.pc = "loop" /\ c.state = "ERROR" /\ c.txn_done = cpu.txn_done
          /\ d \in FbCpu /\ d.pc = "data" /\ d.state = cpu.state /\ d.txn_done = cpu.txn_done
      BY ZenonT(30), <2>2, Parts DEF FbCpu, FbPlaces, Thens
    <2> HIDE DEF c, d
    <2> QED BY <1>5, <2>1, <2>3
  <1> QED BY <1>1, <1>6, <1>7, <1>8

-----------------------------------------------------------------------------
(* The host.                                                               *)

(* The controller finishes a transfer.                                     *)
LEMMA MovedFacts ==
    ASSUME FbInv, NEW e \in Endpoints, CanMove(e), NEW n \in Nat
    PROVE  /\ drv.req[e] \in FbItems /\ Moved(hw, e, n) \in FbHw
           /\ Moved(hw, e, n).item = [hw.item EXCEPT ![drv.req[e]] = "done"]
           /\ hw.item[drv.req[e]] = "active"
  <1> DEFINE r == drv.req[e]
             a == hw.primed \ {e}
             b == [hw.item EXCEPT ![r] = "done"]
             c == [hw.moved EXCEPT ![e] = n]
             d == hw.complete \cup {e}
             f == hw.sts \cup {"UI"}
             z == [hw EXCEPT !.primed = a, !.item = b, !.moved = c, !.complete = d, !.sts = f]
  <1>1. hw \in FbHw /\ drv \in FbDrv
    BY Parts
  <1>2. r \in FbItems /\ hw.item[r] = "active"
    BY <1>1 DEF CanMove, Active, FbDrv
  <1>3. /\ a \in SUBSET Endpoints /\ d \in SUBSET Endpoints
        /\ b \in [FbItems -> {"idle", "active", "done", "halted"}]
        /\ c \in [Endpoints -> Nat] /\ f \in SUBSET {"UI", "URI", "PCI"}
    BY <1>1, <1>2 DEF FbHw
  <1>4. Moved(hw, e, n) = z
    BY <1>1 DEF Moved, FbHw
  <1> HIDE DEF a, b, c, d, f
  <1>5. z \in FbHw /\ z.item = b
    BY Zenon, <1>1, <1>3 DEF FbHw
  <1> HIDE DEF z
  <1> QED BY <1>2, <1>4, <1>5 DEF b

(* What is owed while only the controller's registers change.              *)
Owes(item) ==
    \/ cpu.state = "COMMAND"
    \/ cpu.pc = "command"
    \/ /\ drv.req["out"] = "main" /\ item = "done" /\ cpu.then = "command"
    \/ /\ cpu.txn_done = TRUE /\ cpu.ok = TRUE /\ cpu.then = "command"
    \/ /\ drv.req["in"] = "main" /\ item = "active" /\ cpu.msg \in Final

LEMMA HostMoves ==
    ASSUME FbInv, hw' \in FbHw, UNCHANGED <<part, drv, cpu>>, hist' \in FbHist,
           hist'.cmdsess <= hist'.sess, hist'.extra = FALSE,
           hist'.cmdsess = hist'.sess /\ Owes(hw'.item["main"]) => hist'.owed >= 1
    PROVE  FbInv'
  <1> DEFINE y == [hw |-> hw', drv |-> drv, cpu |-> cpu]
  <1>1. y \in FbMachine /\ y.hw = hw' /\ y.drv = drv /\ y.cpu = cpu
    BY Parts DEF FbMachine
  <1>2. Linked(Machine) /\ Machine.drv = drv /\ Machine.cpu = cpu
    BY Parts DEF FbInv, FbSound
  <1> HIDE DEF y
  <1>3. FbSound(y)
    BY <1>1, <1>2 DEF FbSound, Linked
  <1>4. Owing(y) => Owes(hw'.item["main"])
    BY <1>1 DEF Owing, Owes
  <1>5. Accounted(y, hist')
    BY <1>4 DEF Accounted
  <1> QED BY <1>1, <1>3, <1>5, NextMachine DEF FbInv

LEMMA Book ==
    ASSUME FbInv
    PROVE  /\ hist \in FbHist /\ hist.cmdsess <= hist.sess /\ hist.extra = FALSE
           /\ hist.cmdsess = hist.sess /\ Owes(hw.item["main"]) => hist.owed >= 1
  <1>1. Accounted(Machine, hist)
    BY DEF FbInv
  <1>2. Owes(hw.item["main"]) => Owing(Machine)
    BY Parts DEF Owes, Owing
  <1> QED BY <1>1, <1>2 DEF Accounted

LEMMA SetupKeeps ==
    ASSUME FbInv, HostSetup
    PROVE  FbInv'
  <1>1. UNCHANGED <<part, drv, cpu, hist>>
    BY DEF HostSetup, Quiet
  <1>2. PICK s \in Setups : hw' = [hw EXCEPT !.setup = s, !.sts = hw.sts \cup {"UI"}, !.stalled = FALSE]
    BY Zenon DEF HostSetup
  <1> DEFINE f == hw.sts \cup {"UI"}
  <1>3. f \in SUBSET {"UI", "URI", "PCI"}
    BY Parts DEF FbHw
  <1>4. hw' = [hw EXCEPT !.setup = s, !.sts = f, !.stalled = FALSE]
    BY <1>2
  <1> HIDE DEF f
  <1>5. hw' \in FbHw /\ hw'.item = hw.item
    BY Zenon, <1>3, <1>4, Parts DEF FbHw
  <1> QED BY <1>1, <1>5, Book, HostMoves

LEMMA ControlKeeps ==
    ASSUME FbInv, HostControl
    PROVE  FbInv'
  <1>1. UNCHANGED <<part, drv, cpu, hist>>
    BY DEF HostControl, Quiet
  <1>2. PICK e \in {"ep0in", "ep0out"} : CanMove(e) /\ hw' = Moved(hw, e, 0)
    BY DEF HostControl
  <1>3. e \in Endpoints
    BY DEF Endpoints
  <1>4. /\ drv.req[e] \in FbItems /\ hw' \in FbHw
        /\ hw'.item = [hw.item EXCEPT ![drv.req[e]] = "done"]
    BY <1>2, <1>3, MovedFacts
  <1>5. drv.req[e] = "ep0"
    BY Zenon, <1>4, Parts DEF FbInv, FbSound, Linked, FbItems
  <1>6. hw'.item["main"] = hw.item["main"]
    BY <1>4, <1>5, Parts DEF FbHw, FbItems
  <1> QED BY <1>1, <1>4, <1>6, Book, HostMoves

(* A bulk transfer is the thread's.                                        *)
LEMMA BulkMoves ==
    ASSUME FbInv, NEW e \in BulkEpts, CanMove(e), NEW n \in Nat
    PROVE  /\ drv.req[e] = "main" /\ hw.item["main"] = "active"
           /\ Moved(hw, e, n) \in FbHw /\ Moved(hw, e, n).item["main"] = "done"
           /\ cpu.pc = "wait" /\ cpu.txn_done = FALSE
           /\ \A f \in BulkEpts \ {e} : drv.req[f] = "none"
  <1> DEFINE z == Moved(hw, e, n)
  <1>1. e \in Endpoints
    BY DEF BulkEpts, Endpoints
  <1>2. /\ drv.req[e] \in FbItems /\ z \in FbHw
        /\ z.item = [hw.item EXCEPT ![drv.req[e]] = "done"]
        /\ hw.item[drv.req[e]] = "active"
    BY <1>1, MovedFacts
  <1> HIDE DEF z
  <1>3. Linked(Machine) /\ Machine.drv = drv /\ Machine.cpu = cpu /\ cpu.txn_done \in BOOLEAN
        /\ e \in {"in", "out"} /\ "main" # "none"
    BY Parts DEF FbInv, FbSound, FbCpu, BulkEpts
  <1>4. drv.req[e] = "main"
    BY <1>2, <1>3 DEF Linked, FbItems
  <1>5. cpu.pc = "wait"
    BY <1>3, <1>4 DEF Linked
  <1>6. cpu.txn_done = FALSE
    <2>1. cpu.txn_done # TRUE
      BY Zenon, <1>3, <1>4 DEF Linked
    <2> QED BY Zenon, <1>3, <2>1
  <1>7. \A f \in BulkEpts \ {e} : drv.req[f] = "none"
    BY <1>3, <1>4 DEF Linked, BulkEpts
  <1>8. z.item["main"] = "done"
    BY <1>2, <1>4, Parts DEF FbHw
  <1> QED BY <1>2, <1>4, <1>5, <1>6, <1>7, <1>8 DEF z

LEMMA CommandKeeps ==
    ASSUME FbInv, HostCommand
    PROVE  FbInv'
  <1> DEFINE z == Moved(hw, "out", 1)
  <1>1. UNCHANGED <<part, drv, cpu>> /\ CanMove("out") /\ "out" \in BulkEpts
        /\ hist' = [hist EXCEPT !.owed = hist.owed + 1, !.cmdsess = hist.sess]
    BY DEF HostCommand, Quiet, BulkEpts
  <1>2. PICK c \in Commands : \E n \in IF c = "download" THEN Lengths ELSE {0} :
           hw' = [z EXCEPT !.phase = "sent", !.buffer = [cmd |-> c, len |-> n]]
    BY Zenon DEF HostCommand
  <1>3. PICK n \in Nat : hw' = [z EXCEPT !.phase = "sent", !.buffer = [cmd |-> c, len |-> n]]
    BY Zenon, <1>2, TransferSizes
  <1>4. z \in FbHw
    BY Zenon, <1>1, BulkMoves
  <1> DEFINE b == [cmd |-> c, len |-> n]
  <1>5. b \in [cmd : Commands \cup {"none"}, len : Nat] /\ hw' = [z EXCEPT !.phase = "sent", !.buffer = b]
    BY <1>3
  <1> HIDE DEF z, b
  <1>6. hw' \in FbHw
    BY Zenon, <1>4, <1>5 DEF FbHw
  <1>7. hist' \in FbHist /\ hist'.cmdsess = hist'.sess /\ hist'.extra = FALSE /\ hist'.owed >= 1
    <2>1. hist \in FbHist /\ hist.extra = FALSE
      BY Zenon, Book
    <2>2. hist.owed + 1 \in Nat /\ hist.owed + 1 >= 1 /\ hist.sess \in Nat
      BY <2>1 DEF FbHist
    <2>3. hist' = [sess |-> hist.sess, cmdsess |-> hist.sess, owed |-> hist.owed + 1, extra |-> FALSE]
      BY Zenon, <1>1, <2>1 DEF FbHist
    <2> QED BY <2>2, <2>3 DEF FbHist
  <1>8. hist'.cmdsess <= hist'.sess
    BY <1>7 DEF FbHist
  <1> QED BY Zenon, <1>1, <1>6, <1>7, <1>8, HostMoves

LEMMA AnswerKeeps ==
    ASSUME FbInv, HostAnswer
    PROVE  FbInv'
  <1> DEFINE z == Moved(hw, "in", 1)
             ph == CASE cpu.msg \in {"OKAY", "FAIL"} -> "idle" [] cpu.msg = "DATA" -> "data"
                     [] OTHER -> z.phase
  <1>1. UNCHANGED <<part, drv, cpu>> /\ CanMove("in") /\ "in" \in BulkEpts
        /\ hw' = [z EXCEPT !.phase = ph]
    BY DEF HostAnswer, Quiet, BulkEpts
  <1>2. /\ drv.req["in"] = "main" /\ hw.item["main"] = "active"
        /\ z \in FbHw /\ z.item["main"] = "done" /\ cpu.pc = "wait" /\ cpu.txn_done = FALSE
        /\ drv.req["out"] = "none"
    BY ZenonT(30), <1>1, BulkMoves DEF BulkEpts
  <1>3. ph \in {"idle", "sent", "data", "gaveup"}
    BY <1>2 DEF FbHw
  <1> HIDE DEF z, ph
  <1>4. hw' \in FbHw /\ hw'.item["main"] = "done"
    BY <1>1, <1>2, <1>3 DEF FbHw
  <1>5. Owes("done") => cpu.state = "COMMAND"
    BY <1>2 DEF Owes
  <1>6. cpu.state = "COMMAND" => Owes(hw.item["main"])
    BY DEF Owes
  <1>7. CASE cpu.msg \in {"OKAY", "FAIL"}
    <2> DEFINE o == IF hist.owed = 0 THEN 0 ELSE hist.owed - 1
               x == hist.extra \/ (hist.owed = 0 /\ hist.cmdsess = hist.sess)
    <2>1. hist' = [hist EXCEPT !.owed = o, !.extra = x]
      BY <1>7 DEF HostAnswer
    <2>2. Owes(hw.item["main"]) /\ cpu.state = "COMPLETE"
      BY ZenonT(30), <1>2, <1>7, Parts DEF Owes, Final, FbInv, FbSound, Linked
    <2>3. hist.owed \in Nat /\ (hist.cmdsess = hist.sess => hist.owed >= 1) /\ hist.extra = FALSE
      BY ZenonT(30), <2>2, Book DEF FbHist
    <2>4. o \in Nat /\ x = FALSE
      BY <2>3
    <2> HIDE DEF o, x
    <2>5. /\ hist' \in FbHist /\ hist'.cmdsess = hist.cmdsess /\ hist'.sess = hist.sess
          /\ hist'.extra = FALSE
      BY Zenon, <2>1, <2>4, Book DEF FbHist
    <2>6. ~Owes("done")
      BY <1>5, <2>2
    <2> QED BY Zenon, <1>1, <1>4, <2>5, <2>6, Book, HostMoves
  <1>8. CASE cpu.msg \notin {"OKAY", "FAIL"}
    <2>1. hist' = hist
      BY <1>8 DEF HostAnswer
    <2> QED BY <1>1, <1>4, <1>5, <1>6, <2>1, Book, HostMoves
  <1> QED BY <1>7, <1>8

LEMMA DataKeeps ==
    ASSUME FbInv, HostData
    PROVE  FbInv'
  <1>1. /\ UNCHANGED <<part, drv, cpu, hist>> /\ CanMove("out") /\ "out" \in BulkEpts
        /\ cpu.then = "piece" /\ cpu.asked \in Nat
    BY Parts DEF HostData, Quiet, BulkEpts, FbCpu
  <1>2. PICK n \in Nat, ph \in {"sent", "data", "gaveup"} :
           hw' = [Moved(hw, "out", n) EXCEPT !.phase = ph]
    BY <1>1 DEF HostData
  <1> DEFINE z == Moved(hw, "out", n)
  <1>3. /\ z \in FbHw /\ z.item["main"] = "done" /\ cpu.txn_done = FALSE
        /\ drv.req["in"] = "none"
    BY Zenon, <1>1, BulkMoves DEF BulkEpts
  <1>4. hw' = [z EXCEPT !.phase = ph]
    BY <1>2
  <1> HIDE DEF z
  <1>5. hw' \in FbHw /\ hw'.item["main"] = "done"
    BY <1>3, <1>4 DEF FbHw
  <1>6. Owes("done") => Owes(hw.item["main"])
    BY <1>1, <1>3 DEF Owes
  <1> QED BY <1>1, <1>5, <1>6, Book, HostMoves

LEMMA ResetKeeps ==
    ASSUME FbInv, HostReset
    PROVE  FbInv'
  <1> DEFINE f == hw.sts \cup {"URI", "PCI"}
  <1>1. UNCHANGED <<part, drv, cpu>> /\ hw' = [hw EXCEPT !.sts = f, !.phase = "idle"]
        /\ hist' = [hist EXCEPT !.sess = hist.sess + 1, !.owed = 0]
    BY DEF HostReset, Quiet
  <1>2. f \in SUBSET {"UI", "URI", "PCI"}
    BY Parts DEF FbHw
  <1> HIDE DEF f
  <1>3. hw' \in FbHw
    BY Zenon, <1>1, <1>2, Parts DEF FbHw
  <1>4. hist' \in FbHist /\ hist'.cmdsess < hist'.sess /\ hist'.extra = FALSE
    <2>1. hist \in FbHist /\ hist.extra = FALSE /\ hist.cmdsess <= hist.sess
      BY Zenon, Book
    <2>2. hist.sess + 1 \in Nat /\ hist.cmdsess < hist.sess + 1 /\ hist.cmdsess \in Nat
      BY <2>1 DEF FbHist
    <2>3. hist' = [sess |-> hist.sess + 1, cmdsess |-> hist.cmdsess, owed |-> 0, extra |-> FALSE]
      BY Zenon, <1>1, <2>1 DEF FbHist
    <2> QED BY <2>2, <2>3 DEF FbHist
  <1>5. hist'.cmdsess <= hist'.sess /\ hist'.cmdsess # hist'.sess
    BY <1>4 DEF FbHist
  <1> QED BY Zenon, <1>1, <1>3, <1>4, <1>5, HostMoves

-----------------------------------------------------------------------------
LEMMA FastbootStart == FastbootInit => FbInv
  <1> SUFFICES ASSUME FastbootInit PROVE FbInv
    OBVIOUS
  <1>1. hw \in FbHw /\ drv \in FbDrv
    BY DEF FastbootInit, FbHw, FbDrv, FbItems
  <1>2. cpu \in FbCpu
    <2>1. <<>> \in Seq(Final \cup {"INFO", "stop"})
      OBVIOUS
    <2> QED BY <2>1 DEF FastbootInit, FbCpu, FbPlaces, Thens
  <1>3. Machine \in FbMachine /\ Machine.hw = hw /\ Machine.drv = drv /\ Machine.cpu = cpu
    BY <1>1, <1>2 DEF FbMachine, Machine
  <1>4. /\ \A e \in Endpoints : drv.req[e] = "none"
        /\ cpu.txn_done = FALSE /\ cpu.pc = "off" /\ cpu.state = "OFFLINE"
    BY DEF FastbootInit
  <1>5. Linked(Machine) /\ ~Owing(Machine)
    BY <1>3, <1>4 DEF Linked, Owing, Endpoints, BulkEpts
  <1>6. Accounted(Machine, hist)
    BY <1>5 DEF FastbootInit, Accounted, FbHist
  <1> QED BY <1>3, <1>5, <1>6 DEF FbInv, FbSound, FastbootInit

LEMMA FastbootStep == FbInv /\ [FastbootNext]_vars => FbInv'
  <1> SUFFICES ASSUME FbInv, [FastbootNext]_vars PROVE FbInv'
    OBVIOUS
  <1>1. CASE UNCHANGED vars
    BY <1>1, Parts, Book, HostMoves DEF vars
  <1>2. CASE FastbootThread
    BY <1>2, StartKeeps, LoopKeeps, TxnDoneKeeps, DispatchKeeps, HandlerKeeps, ReplyKeeps,
       DownloadKeeps DEF FastbootThread
  <1>3. CASE FastbootNext /\ ~FastbootThread
    BY <1>3, InterruptKeeps, ServeKeeps, SetupKeeps, ControlKeeps, CommandKeeps, AnswerKeeps,
       DataKeeps, ResetKeeps DEF FastbootNext
  <1> QED BY <1>1, <1>2, <1>3

(* txn_done, which both directions share, is only ever signalled for the   *)
(* transfer fastboot's thread is waiting for, over any number of commands, *)
(* control transfers and bus resets.                                       *)
THEOREM CompletionsAreCurrent == FastbootSpec => []CompletionIsCurrent
  <1>1. FbInv => CompletionIsCurrent
    <2> SUFFICES ASSUME FbInv PROVE CompletionIsCurrent
      OBVIOUS
    <2>1. Linked(Machine) /\ cpu.txn_done \in BOOLEAN
      BY Parts DEF FbInv, FbSound, FbCpu
    <2>2. cpu.txn_done = TRUE => cpu.pc = "wait" /\ \A e \in BulkEpts : drv.req[e] = "none"
      BY <2>1, Parts DEF Linked, BulkEpts
    <2>3. \A e \in BulkEpts : drv.req[e] # "none" => cpu.pc = "wait" /\ cpu.txn_done # TRUE
      BY Zenon, <2>1, <2>2, Parts DEF Linked, BulkEpts
    <2> QED BY Zenon, <2>1, <2>2, <2>3 DEF CompletionIsCurrent
  <1> QED
    BY <1>1, FastbootStart, FastbootStep, PTL DEF FastbootSpec

(* fastboot_ack sends one answer to a command: the host never reads more   *)
(* final answers in a bus session than it has sent commands.               *)
THEOREM AnswersAreCounted == FastbootSpec => []OneAnswer
  <1>1. FbInv => OneAnswer
    BY Zenon, Book DEF OneAnswer
  <1> QED
    BY <1>1, FastbootStart, FastbootStep, PTL DEF FastbootSpec
=============================================================================
