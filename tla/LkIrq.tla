-------------------------------- MODULE LkIrq --------------------------------
(***************************************************************************)
(* Interrupt controllers and clocks of the boot loader's platforms.        *)
(*                                                                         *)
(* kind "irq": how platform_irq finds, clears, serves and acknowledges an  *)
(* interrupt, while devices raise new ones between its register accesses.  *)
(* kind "timer": the tick handler, current_time and the busy-wait delays,  *)
(* while time passes and ticks arrive between their register accesses.     *)
(***************************************************************************)
EXTENDS LkDevice, Integers, FiniteSets

CONSTANTS Interval,     \* milliseconds between two ticks
          Milli,        \* milliseconds in a second, microseconds in one (1000)
          SleepRate,    \* frequency of the MSM and OMAP sleep clock (32768)
          TicksPerSec,  \* frequency of the other platforms' timers
          GptFactor,    \* what mdelay takes for SleepRate / Milli (33)
          PitCount,     \* counts of the PC's timer per tick,
          PitDelta,     \* and what they add to its time,
          PitUnit,      \* a fixed-point number of 1/PitUnit ms (2^-32)
          CountSize,    \* the free-running counter counts modulo this (2^56)
          WordSize,     \* of an unsigned int (2^32)
          Delays,       \* what mdelay and udelay are asked for
          MaxTime       \* counts of a behaviour

\* A timer counts at least once in a millisecond, GptFactor is the frequency
\* rounded up, and no word of microseconds is longer than the counter counts.
ASSUME ClockConstants ==
    /\ {Interval, Milli, SleepRate, TicksPerSec, GptFactor, PitCount, PitDelta, PitUnit,
        CountSize, WordSize} \subseteq Nat \ {0}
    /\ Delays \subseteq Nat /\ MaxTime \in Nat
    /\ SleepRate >= Milli /\ TicksPerSec >= Milli
    /\ GptFactor <= Milli /\ GptFactor * Milli >= SleepRate
    /\ WordSize <= Milli * CountSize

Vectors == 1..4

-----------------------------------------------------------------------------
(* One controller each: which vectors are latched on an edge, and when the *)
(* latch is cleared: by the code before the handler runs or after it, or   *)
(* by the hardware when the vector is read.                                *)

Controller(edge, clear) == [edge |-> edge, clear |-> clear, slaves |-> {}, withdraws |-> FALSE]

vic_qsd8k == Controller(Vectors, "before")
vic_qsd8650a == vic_qsd8k
vic_msm7x30 == vic_qsd8k
vic_msm7k == vic_qsd8k
vic_msm7x27a == vic_qsd8k
qgic == Controller(Vectors, "vector")
intc_omap3 == Controller({}, "vector")
\* level_trigger: some vectors, the tick timer's among them, are edges.
intc_omap5912 == Controller({2}, "after")
pic_armemu == [Controller({}, "vector") EXCEPT !.withdraws = TRUE]
aic_at91sam7 == Controller({}, "vector")
\* Two controllers in a row.
pic_pc == [Controller(Vectors, "vector") EXCEPT !.slaves = 2..4]

controllers ==
    {vic_qsd8k, vic_qsd8650a, vic_msm7x30, vic_msm7k, vic_msm7x27a, qgic, intc_omap3,
     intc_omap5912, pic_armemu, aic_at91sam7, pic_pc}

Ctl == part.ctl
IsIrq == part.kind = "irq"
OnIrq(pc) == At("irq", pc)

\* The controller asks for v.
Pending(v) ==
    /\ v \in hw.on
    /\ v \in IF v \in Ctl.edge THEN hw.latch ELSE hw.work
    /\ v \in Ctl.slaves => hw.cascade

\* A device has work for its handler and raises its line; at any moment.
DeviceEvent ==
    /\ IsIrq /\ Takes("events")
    /\ \E v \in drv :
          hw' = [hw EXCEPT !.work = @ \cup {v},
                           !.latch = IF v \in Ctl.edge THEN @ \cup {v} ELSE @]
    /\ UNCHANGED <<part, drv, cpu, hist>>

register_int_handler ==
    /\ OnIrq("run")
    /\ \E v \in Vectors \ drv : drv' = drv \cup {v}
    /\ UNCHANGED <<part, hw, cpu, left, hist>>

\* enable of pc/interrupts.c for a line of the second controller: its line of
\* the first one is opened when any is open, and shut when ALL of them are.
Cascade(v, on) ==
    IF v \notin Ctl.slaves THEN hw.cascade
    ELSE IF hw.cascade THEN ~(Ctl.slaves \subseteq on)
    ELSE on \cap Ctl.slaves # {}

unmask_interrupt ==
    /\ OnIrq("run")
    /\ \E v \in drv :
          hw' = [hw EXCEPT !.on = @ \cup {v}, !.cascade = Cascade(v, hw.on \cup {v})]
    /\ UNCHANGED <<part, drv, cpu, left, hist>>

mask_interrupt ==
    /\ OnIrq("run") /\ Takes("jobs")
    /\ \E v \in hw.on :
          hw' = [hw EXCEPT !.on = @ \ {v}, !.cascade = Cascade(v, hw.on \ {v})]
    /\ UNCHANGED <<part, drv, cpu, hist>>

\* The exception is taken; interrupts are off until it returns.
IrqException ==
    /\ OnIrq("run") /\ \E v \in Vectors : Pending(v)
    /\ cpu' = [cpu EXCEPT !.pc = "vector"]
    /\ UNCHANGED <<part, hw, drv, left, hist>>

\* The emulator's device takes its request back before it is looked at.
Withdrawn ==
    /\ OnIrq("vector") /\ Ctl.withdraws /\ Takes("faults")
    /\ \E v \in hw.work : hw' = [hw EXCEPT !.work = @ \ {v}]
    /\ UNCHANGED <<part, drv, cpu, hist>>

\* platform_irq, first part: the vector, and the latch of an edge cleared by
\* reading it or by VIC_INT_CLEAR.
platform_irq ==
    /\ OnIrq("vector") /\ \E v \in Vectors : Pending(v)
    /\ \E v \in Vectors :
          /\ Pending(v)
          /\ cpu' = [cpu EXCEPT !.pc = "handler", !.v = v]
          /\ hw' = [hw EXCEPT !.latch = IF Ctl.clear = "after" THEN @ ELSE @ \ {v}]
    /\ UNCHANGED <<part, drv, left, hist>>

\* No vector: return at once.
Spurious ==
    /\ OnIrq("vector") /\ \A v \in Vectors : ~Pending(v)
    /\ cpu' = [cpu EXCEPT !.pc = "run"]
    /\ UNCHANGED <<part, hw, drv, left, hist>>

\* The handler serves the device.
HandlerServes ==
    /\ OnIrq("handler")
    /\ hw' = [hw EXCEPT !.work = @ \ {cpu.v}]
    /\ cpu' = [cpu EXCEPT !.pc = "ack"]
    /\ UNCHANGED <<part, drv, left, hist>>

\* Mutant: the latch is cleared when the handler has run.
AckClears ==
    /\ OnIrq("ack")
    /\ hw' = [hw EXCEPT !.latch = @ \ {cpu.v}]
    /\ cpu' = [cpu EXCEPT !.pc = "run"]
    /\ UNCHANGED <<part, drv, left, hist>>

\* platform_irq, last part: VEC_WR, EOI, the controller's new-agreement bit;
\* on the OMAP5912 the latch of an edge as well.
AckInterrupt ==
    /\ OnIrq("ack")
    /\ hw' = [hw EXCEPT !.latch = IF Ctl.clear = "after" THEN @ \ {cpu.v} ELSE @]
    /\ cpu' = [cpu EXCEPT !.pc = "run"]
    /\ UNCHANGED <<part, drv, left, hist>>

\* All lines of the PC's second controller are open.
AllSlavesOpen == Ctl.slaves # {} /\ Ctl.slaves \subseteq hw.on

\* An interrupt that a device raised for work not yet served is never lost:
\* as long as its vector is open, the controller asks for it, at whatever
\* point of platform_irq it was raised.  Two platforms do not keep that: an
\* edge of the OMAP5912 that comes between handler and acknowledgement is
\* lost, and a PC that opens ALL lines of its second controller shuts that
\* controller's line of the first (pc/interrupts.c:127).
NothingStranded ==
    IsIrq /\ cpu.pc = "run" =>
        \A v \in hw.work \cap hw.on :
            \/ Pending(v)
            \/ Ctl.clear = "after" /\ v \in Ctl.edge
            \/ AllSlavesOpen /\ v \in Ctl.slaves

IrqInit ==
    /\ \E c \in controllers : part = [kind |-> "irq", ctl |-> c]
    /\ hw = [on |-> {}, latch |-> {}, work |-> {}, cascade |-> FALSE]
    /\ drv = {}
    /\ cpu = [pc |-> "run", v |-> 0]
    /\ left = FullBounds /\ hist = <<>>

IrqNext == \/ DeviceEvent \/ register_int_handler \/ unmask_interrupt \/ mask_interrupt
           \/ IrqException \/ Withdrawn \/ platform_irq \/ Spurious \/ HandlerServes
           \/ AckInterrupt

IrqSpec == IrqInit /\ [][IrqNext]_vars

-----------------------------------------------------------------------------
(* Clocks.  hw.now is the true time in counts; hw.down the timer that      *)
(* raises the tick; hw.gpt the timer of the delays.                        *)

\* Where a platform's current_time comes from: the ticks handled so far, a
\* counter read twice, a latched clock, or ticks and the running timer; and
\* whether the timer counts ticks not served, or stops until it is set again.
\* A tick comes after period counts, rounded down, and adds the interval.
Clock(reads, rate) ==
    [reads |-> reads, rate |-> rate, period |-> (Interval * rate) \div Milli,
     adds |-> Interval, unit |-> 1, counts |-> FALSE, stops |-> FALSE]

clock_msm == Clock("ticks", SleepRate)
clock_pc == [Clock("ticks", TicksPerSec) EXCEPT !.period = PitCount, !.adds = PitDelta,
                                                !.unit = PitUnit]
clock_at91sam7 == [Clock("ticks", TicksPerSec) EXCEPT !.counts = TRUE,
                                                      !.period = (TicksPerSec \div Milli) * Interval]
clock_qtimer == [Clock("ticks", TicksPerSec) EXCEPT !.stops = TRUE]
clock_omap3 == Clock("counter", SleepRate)
\* The emulator's clock counts microseconds.
clock_armemu == Clock("latch", Milli * Milli)
clock_omap5912 == Clock("both", SleepRate)

clocks == [msm |-> clock_msm, qtimer |-> clock_qtimer, pc |-> clock_pc,
           at91sam7 |-> clock_at91sam7, omap3 |-> clock_omap3, armemu |-> clock_armemu,
           omap5912 |-> clock_omap5912]

IsTimer == part.kind = "timer"
Board == clocks[part.name]
Reads == Board.reads
OnTimer(pc) == At("timer", pc)

\* With interrupts on, the tick is served before the next instruction.
Undisturbed == ~(drv.ints /\ hw.pend > 0)

GptCounts(g) ==
    IF g.clear THEN [g EXCEPT !.count = 0, !.clear = FALSE]
    ELSE [g EXCEPT !.count = IF g.on THEN @ + 1 ELSE @]

\* One count.  A tick that is still pending hides the next, unless the timer
\* counts them.
TimePasses ==
    /\ IsTimer /\ Undisturbed /\ hw.now < MaxTime
    /\ LET tick == hw.down = 1
       IN  hw' = [hw EXCEPT !.now = @ + 1, !.gpt = GptCounts(@),
                            !.down = IF tick THEN (IF Board.stops THEN 0 ELSE Board.period)
                                     ELSE IF @ = 0 THEN 0 ELSE @ - 1,
                            !.pend = IF ~tick THEN @
                                     ELSE IF Board.counts THEN @ + 1 ELSE 1]
    /\ UNCHANGED <<part, drv, cpu, left, hist>>

\* timer_irq, qtimer_irq, os_timer_tick, platform_tick, pit_irq_handler: the
\* time goes on by an interval for each tick counted; the PC's callback comes
\* when its own time has been reached.
timer_irq ==
    /\ IsTimer /\ drv.ints /\ hw.pend > 0
    /\ hw' = [hw EXCEPT !.pend = 0, !.down = IF Board.stops THEN Board.period ELSE @]
    /\ LET now == drv.sys + Board.adds * hw.pend
       IN  drv' = [drv EXCEPT !.sys = now,
                              !.trigger = IF now >= @ THEN now + Interval * Board.unit - (now - @)
                                          ELSE @]
    /\ UNCHANGED <<part, cpu, left, hist>>

\* enter_critical_section and exit_critical_section of a caller.
Critical ==
    /\ OnTimer("run") /\ Undisturbed
    /\ drv' = [drv EXCEPT !.ints = ~@]
    /\ UNCHANGED <<part, hw, cpu, left, hist>>

\* The caller of current_time gets t.  The OMAP5912 adds the timer to a time
\* that lacks a pending tick, so only calls with interrupts on are recorded.
Reports(t) ==
    /\ hist' = IF drv.ints THEN [hist EXCEPT !.prev = hist.got, !.got = t, !.at = hw.now]
               ELSE hist
    /\ cpu' = [cpu EXCEPT !.pc = "run"]

\* armemu: the latched clock in seconds and microseconds.
latched_ms(us) == (us \div (Milli * Milli)) * Milli + (us % (Milli * Milli)) \div Milli

current_time_ticks ==
    /\ OnTimer("run") /\ Undisturbed /\ Reads \in {"ticks", "latch"} /\ Takes("jobs")
    /\ Reports(IF Reads = "ticks" THEN drv.sys \div Board.unit ELSE latched_ms(hw.now))
    /\ UNCHANGED <<part, hw, drv>>

current_time ==
    /\ OnTimer("run") /\ Undisturbed /\ Reads \in {"counter", "both"} /\ Takes("jobs")
    /\ cpu' = [cpu EXCEPT !.pc = "first"]
    /\ UNCHANGED <<part, hw, drv, hist>>

Counter == IF Reads = "counter" THEN hw.now ELSE hw.down

FirstRead ==
    /\ OnTimer("first") /\ Undisturbed
    /\ cpu' = [cpu EXCEPT !.pc = "time", !.first = Counter]
    /\ UNCHANGED <<part, hw, drv, left, hist>>

TimeRead ==
    /\ OnTimer("time") /\ Undisturbed
    /\ cpu' = [cpu EXCEPT !.pc = "second", !.t = drv.sys]
    /\ UNCHANGED <<part, hw, drv, left, hist>>

\* Mutant: the second read is not compared with the first.
NoRetry(d) == FALSE

\* The counter moved between the reads (OMAP3), or started anew (OMAP5912).
MustRetry(d) == IF Reads = "counter" THEN d # cpu.first ELSE d > cpu.first

\* OMAP3: the counter in milliseconds; OMAP5912: the part of a tick that is
\* over, in milliseconds.
counter_ms(c) == (c * Milli) \div Board.rate
part_ms(c) == ((Board.period - c) * Interval) \div Board.period

SecondRead ==
    /\ OnTimer("second") /\ Undisturbed
    /\ IF MustRetry(Counter)
       THEN cpu' = [cpu EXCEPT !.pc = "first"] /\ UNCHANGED hist
       ELSE Reports(IF Reads = "counter" THEN counter_ms(Counter) ELSE cpu.t + part_ms(Counter))
    /\ UNCHANGED <<part, hw, drv, left>>

-----------------------------------------------------------------------------
(* Delays.                                                                 *)

\* mdelay and udelay; how many of their units make a second.
Units == {"ms", "us"}
PerSec(unit) == IF unit = "ms" THEN Milli ELSE Milli * Milli

\* msm_shared/timer.c and qtimer.c: what a delay is in counts.  The products
\* are unsigned ints.  The first quotient is meant to be rounded up, but what
\* is added to the product is less than that takes; the second is rounded down.
gpt_ticks(n, unit) ==
    IF unit = "ms" THEN (n * GptFactor) % WordSize
    ELSE ((n * GptFactor + Milli - GptFactor) % WordSize) \div Milli
to_ticks(n, unit) == ((n * TicksPerSec) % WordSize) \div PerSec(unit)

DelayEnds ==
    /\ hist' = [hist EXCEPT !.asked = cpu.n, !.unit = cpu.unit, !.waited = hw.now - cpu.from]
    /\ cpu' = [cpu EXCEPT !.pc = "run"]

\* msm_shared/timer.c: stop and clear the timer; the clear comes through with
\* the timer's own clock ...
mdelay_gpt ==
    /\ OnTimer("run") /\ Undisturbed /\ part.name = "msm" /\ Takes("jobs")
    /\ \E n \in Delays, u \in Units :
          cpu' = [cpu EXCEPT !.pc = "zero", !.n = n, !.unit = u, !.from = hw.now]
    /\ hw' = [hw EXCEPT !.gpt.clear = TRUE, !.gpt.on = FALSE]
    /\ UNCHANGED <<part, drv, hist>>

\* ... so wait for zero, start it ...
GptZero ==
    /\ OnTimer("zero") /\ Undisturbed /\ hw.gpt.count = 0
    /\ cpu' = [cpu EXCEPT !.pc = "count"]
    /\ hw' = [hw EXCEPT !.gpt.on = TRUE]
    /\ UNCHANGED <<part, drv, left, hist>>

\* ... wait for the count, stop and clear it.
GptReached ==
    /\ OnTimer("count") /\ Undisturbed /\ hw.gpt.count >= gpt_ticks(cpu.n, cpu.unit)
    /\ DelayEnds
    /\ hw' = [hw EXCEPT !.gpt.clear = TRUE, !.gpt.on = FALSE]
    /\ UNCHANGED <<part, drv, left>>

\* qtimer.c: the end of the delay modulo the counter's size ...
delay ==
    /\ OnTimer("run") /\ Undisturbed /\ part.name = "qtimer" /\ Takes("jobs")
    /\ LET cnt == hw.now % CountSize
       IN  \E n \in Delays, u \in Units :
              cpu' = [cpu EXCEPT !.pc = "wrap", !.n = n, !.unit = u, !.from = hw.now, !.first = cnt,
                                 !.cnt = cnt, !.t = (cnt + to_ticks(n, u)) % CountSize]
    /\ UNCHANGED <<part, hw, drv, hist>>

\* ... wait for the counter to wrap if the end is behind it ...
DelayWraps ==
    /\ OnTimer("wrap") /\ Undisturbed
    /\ cpu' = IF cpu.t < cpu.cnt /\ cpu.first <= cpu.cnt
              THEN [cpu EXCEPT !.cnt = hw.now % CountSize]
              ELSE [cpu EXCEPT !.pc = "reach"]
    /\ UNCHANGED <<part, hw, drv, left, hist>>

\* ... and then for the counter to reach it.
DelayReaches ==
    /\ OnTimer("reach") /\ Undisturbed
    /\ IF cpu.t > cpu.cnt
       THEN cpu' = [cpu EXCEPT !.cnt = hw.now % CountSize] /\ UNCHANGED hist
       ELSE DelayEnds
    /\ UNCHANGED <<part, hw, drv, left>>

\* t milliseconds are not more than c counts: exactly where a counter is read,
\* else with an interval for the counts of a period.
NotAhead(t, c) ==
    IF Reads \in {"counter", "latch"} THEN t * Board.rate <= c * Milli
    ELSE t * Board.unit * Board.period <= c * Board.adds

\* A delay of n takes w counts, provided that its product with the frequency
\* fits a word.  mdelay of msm_shared/timer.c: not less than n milliseconds;
\* its udelay: less than n microseconds by less than one (udelay(31) may take
\* one count, 30.5 microseconds); qtimer.c: less by less than one count.
LongEnough(n, unit, w) ==
    IF part.name = "msm"
    THEN n * GptFactor + Milli - GptFactor < WordSize =>
            IF unit = "ms" THEN w * Milli >= n * SleepRate
            ELSE w * (Milli * Milli) > (n - 1) * SleepRate
    ELSE n * TicksPerSec < WordSize => (w + 1) * PerSec(unit) > n * TicksPerSec

\* The time reported never goes back and is never ahead of the counts, with
\* ticks coming in between the reads current_time makes; and a delay takes
\* the time it was asked for, but for what its conversion rounds off, across
\* a wrap of the counter and while the clear of the timer is still on its way.
ClockKept ==
    IsTimer => /\ hist.prev <= hist.got /\ NotAhead(hist.got, hist.at)
               /\ LongEnough(hist.asked, hist.unit, hist.waited)

TimerInit ==
    /\ \E c \in DOMAIN clocks : part = [kind |-> "timer", name |-> c]
    /\ hw = [now |-> 0, down |-> Board.period, pend |-> 0,
             gpt |-> [count |-> 0, on |-> FALSE, clear |-> FALSE]]
    /\ drv = [sys |-> 0, ints |-> TRUE, trigger |-> Interval * Board.unit]
    /\ cpu = [pc |-> "run", first |-> 0, t |-> 0, cnt |-> 0, n |-> 0, unit |-> "ms", from |-> 0]
    /\ left = FullBounds
    /\ hist = [prev |-> 0, got |-> 0, at |-> 0, asked |-> 0, unit |-> "ms", waited |-> 0]

TimerNext == \/ TimePasses \/ timer_irq \/ Critical \/ current_time_ticks \/ current_time
             \/ FirstRead \/ TimeRead \/ SecondRead \/ mdelay_gpt \/ GptZero \/ GptReached
             \/ delay \/ DelayWraps \/ DelayReaches

TimerSpec == TimerInit /\ [][TimerNext]_vars
=============================================================================
