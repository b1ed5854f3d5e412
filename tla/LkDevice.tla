------------------------------ MODULE LkDevice ------------------------------
(***************************************************************************)
(* What the device drivers of the boot loader have in common.  Each driver *)
(* module extends this one: a behaviour is about ONE part, chosen in the    *)
(* initial state, and the same variables hold that part's registers, the   *)
(* driver's static data and the code that runs.                            *)
(***************************************************************************)
EXTENDS Integers

CONSTANTS MaxFaults,   \* errors the hardware may raise in one behaviour
          MaxEvents,   \* things the other side (host, remote CPU, line) may start
          MaxJobs      \* driver calls made in one behaviour

ASSUME DeviceBounds == MaxFaults \in Nat /\ MaxEvents \in Nat /\ MaxJobs \in Nat

VARIABLES
    part,   \* which part this behaviour is about, and its variant
    hw,     \* registers, and the side of the device the code cannot see
    drv,    \* the driver's own data
    cpu,    \* what is running: program point, locals, events
    left,   \* what is left of the three bounds
    hist    \* history read by no action, only by the properties

vars == <<part, hw, drv, cpu, left, hist>>

FullBounds == [faults |-> MaxFaults, events |-> MaxEvents, jobs |-> MaxJobs]

\* Takes one from bound b.
Takes(b) == /\ left[b] > 0
            /\ left' = [left EXCEPT ![b] = @ - 1]

-----------------------------------------------------------------------------
(* Drivers that are called, work with the device and return.  cpu.asked is  *)
(* the effect the call is to have on the outside world, hw.seen what the   *)
(* outside world has seen since the call: sequences of [op, n].            *)

Called == part.kind \in {"qup", "i2c", "uart_dm", "proc_comm", "scm", "adm", "crypto", "dsi", "panel"}

Op(o, n) == [op |-> o, n |-> n]

At(kind, pc) == part.kind = kind /\ cpu.pc = pc

\* The call returns: "ok" when it reports success, "void" when it is of the
\* kind that has no result, or whose result says nothing of what went wrong.
Return(r) == cpu' = [cpu EXCEPT !.pc = "returned", !.ret = r]

\* A job whose effect should be a; the driver starts at program point pc.
Begins(pc, a) == [cpu EXCEPT !.pc = pc, !.asked = a, !.ret = "none"]

\* The caller takes the result.
Again == /\ Called /\ cpu.pc = "returned"
         /\ cpu' = [cpu EXCEPT !.pc = "idle", !.asked = <<>>]
         /\ UNCHANGED <<part, hw, drv, left, hist>>

\* A driver call that reports success has had exactly the effect that was
\* asked for, no more and no less: the bytes, commands or requests, in order.
\* A call that cannot report has had it if the device has not failed.
\* hw.unsettled marks three states of which the result tells nothing: the
\* device has not finished with what it accepted (UART, command panels); an
\* I2C slave refused a byte after qup_i2c_xfer's last look at dev->err
\* (i2c_qup.c:615), which for a short write is before its first byte is out;
\* an ADM transfer was given up after a second, and its late result is taken
\* for that of a later one (adm.c:182).
SuccessIsExact ==
    Called /\ cpu.pc = "returned" /\ ~hw.unsettled =>
        \/ hw.seen = cpu.asked
        \/ cpu.ret = "fail"
        \/ cpu.ret = "void" /\ left.faults < MaxFaults

\* Waiting for a key is the one wait the device does not have to end.
Resting == ~Called \/ cpu.pc \in {"idle", "returned", "getc"}

\* crypto_send_data left out the rest of a segment because the engine was busy
\* at that moment; crypto_get_digest waits for it (crypto_eng.c:267, 298).
Starved == At("crypto", "digest") /\ drv.sent < drv.tmp

\* While the device raises no error every call returns, but for a digest that
\* waits for the bytes its own driver has left out.
CallsReturn ==
    (~Resting /\ left.faults = MaxFaults) ~> (Resting \/ left.faults < MaxFaults \/ Starved)

-----------------------------------------------------------------------------
(* Displays.  hw.up is the set of supplies, clocks and engines that are on, *)
(* hw.scan whether pixels are sent to the panel, hw.win the window of the  *)
(* frame: first and last pixel of a line and clock of a frame, inclusive.  *)

IsDisplay == part.kind \in {"dsi", "panel"}

\* Pixels are sent only while every supply, clock and link setting that the
\* panel depends on is in place: while the display is brought up, between
\* two frames, and when it is shut down before the kernel starts.
ScansWhenFed == IsDisplay /\ hw.scan => part.needs \subseteq hw.up

\* The window programmed into the display processor shows every pixel of
\* every line of the frame once, and nothing of the line after: a line starts
\* at a multiple of its period, the last clock of the window is not before the
\* last pixel of the last line and before the first pixel of the next one.
\* mdp4.c:124 and mdp3.c:77 give as last clock the one after the last line,
\* where lcdc.c:197 subtracts 1: it falls into the back porch.
FrameIsScanned ==
    IsDisplay /\ hw.scan =>
        LET win == hw.win
            after == win.vs + part.t.h * win.hp   \* the line after the frame
        IN  /\ win.he - win.hs + 1 = part.t.w
            /\ win.vs % win.hp = 0
            /\ after - win.hp + win.he <= win.ve /\ win.ve < after + win.hs
            /\ win.he < win.hp /\ win.ve < win.vp
=============================================================================
