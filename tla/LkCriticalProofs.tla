--------------------------- MODULE LkCriticalProofs ---------------------------
(* Proof that critical sections of LK mask interrupts, for any threads and *)
(* any depth of nesting.                                                   *)
EXTENDS LkCritical, TLAPS

(* What is tried, and for how long, for a leaf that names no prover.       *)
USE SMTT(15), ZenonT(30), SMTT(60)

(* What critical_section_count is while thread r runs: a section counts    *)
(* from the store of enter_critical_section to that of                     *)
(* exit_critical_section, and an interrupt that preempted it counts twice. *)
Sections(r) ==
    r.depth + (IF r.pc = "enter2" THEN 1 ELSE 0) - (IF r.pc = "exit2" THEN 1 ELSE 0)
            + (IF r.irq THEN 2 ELSE 0)

(* Each thread's part of the inductive invariant.                          *)
Placed(r) ==
    /\ r.irq => r.depth = 0 /\ r.pc \in {"run", "enter1", "enter2"}
    /\ r.pc \in {"exit1", "exit2", "leaving", "away"} => r.depth > 0
    /\ r.pc \in {"enter1", "enter2"} => r.depth < MaxDepth
    /\ r.pc \in {"enter1", "exit1"} => r.reg = r.depth

(* A thread that does not run was switched away or preempted, and its      *)
(* count was saved.                                                        *)
Parked(r) == (r.irq \/ r.pc = "away") /\ r.saved = Sections(r)

Runs(r) == r.pc # "away"

IInv ==
    /\ TypeOK
    /\ \A t \in Thread : Placed(th[t])
    /\ \A t \in Thread \ {cur} : Parked(th[t])
    /\ Runs(th[cur])
    /\ count = Sections(th[cur])
    /\ ints <=> (th[cur].depth = 0 /\ ~th[cur].irq)

-----------------------------------------------------------------------------
(* A step of the running thread that keeps the CPU.                        *)
LEMMA LocalKeeps ==
    ASSUME IInv,
           NEW r \in ThreadRecord,
           th' = [th EXCEPT ![cur] = r], cur' = cur,
           count' = Sections(r), ints' = (r.depth = 0 /\ ~r.irq),
           Placed(r), Runs(r)
    PROVE  IInv'
<1>1. th' \in [Thread -> ThreadRecord] /\ cur \in Thread
  BY DEF IInv, TypeOK
<1>2. th'[cur] = r /\ \A t \in Thread \ {cur} : th'[t] = th[t]
  BY <1>1 DEF IInv, TypeOK
<1>3. Sections(r) \in Int
  BY DEF Sections, ThreadRecord
<1>4. (ints' \in BOOLEAN) /\ (ints' <=> (th'[cur'].depth = 0 /\ ~th'[cur'].irq))
  BY Zenon, <1>2
<1>5. \A t \in Thread : Placed(th'[t])
  BY <1>2 DEF IInv
<1>6. \A t \in Thread \ {cur'} : Parked(th'[t])
  BY <1>2 DEF IInv
<1>7. Runs(th'[cur']) /\ count' = Sections(th'[cur'])
  BY <1>2
<1> QED
  BY <1>1, <1>3, <1>4, <1>5, <1>6, <1>7 DEF IInv, TypeOK, Placed, Parked, Runs, Sections

(* A thread that is switched to finds the count it left with.              *)
LEMMA ResumedFits ==
    ASSUME NEW r \in ThreadRecord, Placed(r), Parked(r)
    PROVE  /\ Resumed(r) \in ThreadRecord
           /\ Placed(Resumed(r)) /\ Runs(Resumed(r))
           /\ r.saved = Sections(Resumed(r))
           /\ ~(Resumed(r).depth = 0 /\ ~Resumed(r).irq)
<1>1. CASE r.irq
  <2>1. Resumed(r) = r
    BY <1>1 DEF Resumed, ThreadRecord
  <2> QED
    BY <1>1, <2>1 DEF Placed, Parked, Runs
<1>2. CASE ~r.irq
  <2>1. r.pc = "away" /\ r.depth > 0
    BY <1>2 DEF Placed, Parked
  <2>2. Resumed(r) \in ThreadRecord
    BY <1>2 DEF Resumed, ThreadRecord, Places
  <2>3. /\ Resumed(r).pc = "run" /\ Resumed(r).depth = r.depth
        /\ Resumed(r).irq = r.irq
    BY <1>2 DEF Resumed, ThreadRecord
  <2>4. r.saved = r.depth /\ r.depth \in Int
    BY <1>2, <2>1 DEF Parked, Sections, ThreadRecord
  <2>5. Sections(Resumed(r)) = r.depth
    BY <1>2, <2>3, <2>4 DEF Sections
  <2> QED
    BY <1>2, <2>1, <2>2, <2>3, <2>4, <2>5 DEF Placed, Runs
<1> QED
  BY <1>1, <1>2

(* A context switch: the old thread is parked and another one runs.        *)
LEMMA SwitchKeeps ==
    ASSUME IInv,
           NEW u \in Thread, u # cur,
           NEW r \in ThreadRecord, Placed(r), Parked(r),
           th' = [th EXCEPT ![cur] = r, ![u] = Resumed(@)],
           cur' = u, count' = th[u].saved, ints' = FALSE
    PROVE  IInv'
<1>1. cur \in Thread /\ th \in [Thread -> ThreadRecord]
  BY DEF IInv, TypeOK
<1>2. Placed(th[u]) /\ Parked(th[u]) /\ th[u] \in ThreadRecord
  BY <1>1 DEF IInv
<1>3. /\ Resumed(th[u]) \in ThreadRecord
      /\ Placed(Resumed(th[u])) /\ Runs(Resumed(th[u]))
      /\ th[u].saved = Sections(Resumed(th[u]))
      /\ ~(Resumed(th[u]).depth = 0 /\ ~Resumed(th[u]).irq)
  BY <1>2, ResumedFits
<1>4. /\ th'[cur] = r /\ th'[u] = Resumed(th[u])
      /\ \A t \in Thread \ {cur, u} : th'[t] = th[t]
  BY <1>1
<1>5. th' \in [Thread -> ThreadRecord]
  BY <1>1, <1>3, <1>4
<1>6. \A t \in Thread : Placed(th'[t])
  BY Zenon, <1>3, <1>4 DEF IInv
<1>7. \A t \in Thread \ {cur'} : Parked(th'[t])
  BY Zenon, <1>4 DEF IInv
<1>8. Runs(th'[cur']) /\ count' = Sections(th'[cur']) /\ count' \in Int
  BY <1>2, <1>3, <1>4 DEF ThreadRecord
<1>9. (ints' \in BOOLEAN) /\ (ints' <=> (th'[cur'].depth = 0 /\ ~th'[cur'].irq))
  BY Zenon, <1>3, <1>4
<1> QED
  BY <1>5, <1>6, <1>7, <1>8, <1>9 DEF IInv, TypeOK, Placed, Parked, Runs, Sections

LEMMA InitEstablishes == Init => IInv
<1> SUFFICES ASSUME Init PROVE IInv
  OBVIOUS
<1>1. cur \in Thread /\ ints \in BOOLEAN
  BY BootAssumption, Zenon DEF Init
<1>c. count \in Int
  BY DEF Init
<1>2. 1 \in 0..MaxDepth /\ 0 \in Int /\ 1 \in Int
  BY DepthAssumption
<1> DEFINE rec(p) == [pc |-> p, depth |-> 1, reg |-> 0, saved |-> 1, irq |-> FALSE]
<1>3. \A t \in Thread : th[t] = rec(IF t = Boot THEN "run" ELSE "away")
  BY Zenon DEF Init
<1>p. \A p : /\ rec(p).depth = 1 /\ rec(p).saved = 1 /\ rec(p).irq = FALSE
             /\ rec(p).pc = p
  OBVIOUS
<1>4. \A p \in Places : rec(p) \in ThreadRecord
  <2> SUFFICES ASSUME NEW p \in Places PROVE rec(p) \in ThreadRecord
    BY Zenon
  <2>1. FALSE \in BOOLEAN
    OBVIOUS
  <2> QED
    BY <1>2, <2>1, Zenon DEF ThreadRecord
<1> HIDE DEF rec
<1>t. \A t \in Thread : (IF t = Boot THEN "run" ELSE "away") \in Places
  BY DEF Places
<1>5. th \in [Thread -> ThreadRecord]
  <2>1. \A t \in Thread : th[t] \in ThreadRecord
    BY Zenon, <1>3, <1>4, <1>t
  <2>2. th = [t \in Thread |-> th[t]]
    BY DEF Init
  <2> QED
    BY <2>1, <2>2
<1>6. \A t \in Thread :
        /\ th[t].depth = 1 /\ th[t].saved = 1 /\ ~th[t].irq
        /\ th[t].pc = IF t = Boot THEN "run" ELSE "away"
  BY <1>3, <1>p, Zenon
<1>7. \A t \in Thread : Placed(th[t])
  <2> SUFFICES ASSUME NEW t \in Thread PROVE Placed(th[t])
    BY Zenon
  <2>1. th[t].depth = 1 /\ ~th[t].irq /\ th[t].pc \notin {"enter1", "enter2", "exit1"}
    BY <1>6
  <2> QED
    BY <2>1 DEF Placed
<1>8. \A t \in Thread : Sections(th[t]) = 1
  <2> SUFFICES ASSUME NEW t \in Thread PROVE Sections(th[t]) = 1
    BY Zenon
  <2>1. th[t].depth = 1 /\ ~th[t].irq /\ th[t].pc # "enter2" /\ th[t].pc # "exit2"
    BY <1>6
  <2> QED
    BY <2>1 DEF Sections
<1>9. \A t \in Thread \ {cur} : Parked(th[t])
  BY Zenon, <1>6, <1>8 DEF Parked, Init
<1>10. Runs(th[cur]) /\ count = Sections(th[cur])
  BY <1>1, <1>6, <1>8 DEF Runs, Init
<1>11. ints <=> (th[cur].depth = 0 /\ ~th[cur].irq)
  BY <1>1, <1>6 DEF Init
<1> QED
  BY <1>1, <1>c, <1>5, <1>7, <1>9, <1>10, <1>11 DEF IInv, TypeOK

-----------------------------------------------------------------------------
LEMMA NextKeeps == IInv /\ [Next]_vars => IInv'
<1> SUFFICES ASSUME IInv, [Next]_vars PROVE IInv'
  OBVIOUS
<1> DEFINE me == th[cur]
<1>0. /\ cur \in Thread /\ me \in ThreadRecord /\ th \in [Thread -> ThreadRecord]
      /\ Placed(me) /\ Runs(me) /\ count = Sections(me)
      /\ ints = (me.depth = 0 /\ ~me.irq)
  BY DEF IInv, TypeOK
<1>f. /\ me.pc \in Places /\ me.depth \in 0..MaxDepth /\ me.reg \in Int
      /\ me.saved \in Int /\ me.irq \in BOOLEAN
  BY <1>0 DEF ThreadRecord
<1>c. count \in Int
  BY DEF IInv, TypeOK
<1>1. CASE EnterLoad
  <2> DEFINE r == [me EXCEPT !.pc = "enter1", !.reg = count]
  <2>1. me.pc = "run" /\ ~me.irq /\ me.depth < MaxDepth /\ count = me.depth
    BY <1>0, <1>f, <1>1 DEF EnterLoad, At, Sections
  <2>2. r \in ThreadRecord
    BY Zenon, <1>0, <1>c, <1>f DEF ThreadRecord, Places
  <2>3. /\ r.pc = "enter1" /\ r.reg = count /\ r.depth = me.depth /\ r.irq = me.irq
    BY <1>0 DEF ThreadRecord
  <2>4. th' = [th EXCEPT ![cur] = r] /\ cur' = cur /\ count' = count /\ ints' = ints
    BY Zenon, <1>0, <1>1 DEF EnterLoad
  <2> HIDE DEF r
  <2>5. count' = Sections(r) /\ Placed(r) /\ Runs(r)
    BY <1>f, <2>1, <2>3, <2>4 DEF Sections, Placed, Runs
  <2>6. ints' = (r.depth = 0 /\ ~r.irq)
    BY <1>0, <2>3, <2>4
  <2> QED
    BY Zenon, <2>2, <2>4, <2>5, <2>6, LocalKeeps
<1>2. CASE EnterStore
  <2> DEFINE r == [me EXCEPT !.pc = "enter2"]
  <2>1. me.pc = "enter1" /\ ~me.irq /\ me.depth < MaxDepth /\ me.reg = me.depth
    BY <1>0, <1>2 DEF EnterStore, At, Placed
  <2>2. r \in ThreadRecord
    BY <1>0, <1>f DEF ThreadRecord, Places
  <2>3. r.pc = "enter2" /\ r.depth = me.depth /\ r.irq = me.irq
    BY <1>0 DEF ThreadRecord
  <2>4. th' = [th EXCEPT ![cur] = r] /\ cur' = cur /\ count' = me.reg + 1 /\ ints' = ints
    BY <1>0, <1>2 DEF EnterStore
  <2> HIDE DEF r
  <2>5. count' = Sections(r) /\ Placed(r) /\ Runs(r)
    BY <1>f, <2>1, <2>3, <2>4 DEF Sections, Placed, Runs
  <2>6. ints' = (r.depth = 0 /\ ~r.irq)
    BY <1>0, <2>3, <2>4
  <2> QED
    BY Zenon, <2>2, <2>4, <2>5, <2>6, LocalKeeps
<1>3. CASE EnterTest
  <2> DEFINE r == [me EXCEPT !.pc = "run", !.depth = @ + 1]
  <2>1. me.pc = "enter2" /\ ~me.irq /\ me.depth < MaxDepth /\ count = me.depth + 1
    BY <1>0, <1>f, <1>3 DEF EnterTest, At, Placed, Sections
  <2>2. me.depth + 1 \in 0..MaxDepth
    BY <1>f, <2>1, DepthAssumption
  <2>3. r \in ThreadRecord
    BY Zenon, <1>0, <1>f, <2>2 DEF ThreadRecord, Places
  <2>4. r.pc = "run" /\ r.depth = me.depth + 1 /\ r.irq = me.irq
    BY <1>0 DEF ThreadRecord
  <2>5. /\ th' = [th EXCEPT ![cur] = r] /\ cur' = cur /\ count' = count
        /\ ints' = (ints /\ count # 1)
    BY Zenon, <1>0, <1>3 DEF EnterTest
  <2> HIDE DEF r
  <2>6. count' = Sections(r) /\ Placed(r) /\ Runs(r)
    BY <1>f, <2>1, <2>4, <2>5 DEF Sections, Placed, Runs
  <2>7. r.depth # 0 /\ (me.depth = 0 => count = 1)
    BY <1>f, <2>1, <2>4
  <2>8. ints' = (r.depth = 0 /\ ~r.irq)
    BY <1>0, <2>5, <2>7, Zenon
  <2> QED
    BY Zenon, <2>3, <2>5, <2>6, <2>8, LocalKeeps
<1>4. CASE ExitLoad
  <2> DEFINE r == [me EXCEPT !.pc = "exit1", !.reg = count]
  <2>1. me.pc = "run" /\ ~me.irq /\ me.depth > 0 /\ count = me.depth
    BY <1>0, <1>f, <1>4 DEF ExitLoad, At, Sections
  <2>2. r \in ThreadRecord
    BY Zenon, <1>0, <1>c, <1>f DEF ThreadRecord, Places
  <2>3. /\ r.pc = "exit1" /\ r.reg = count /\ r.depth = me.depth /\ r.irq = me.irq
    BY <1>0 DEF ThreadRecord
  <2>4. th' = [th EXCEPT ![cur] = r] /\ cur' = cur /\ count' = count /\ ints' = ints
    BY Zenon, <1>0, <1>4 DEF ExitLoad
  <2> HIDE DEF r
  <2>5. count' = Sections(r) /\ Placed(r) /\ Runs(r)
    BY <1>f, <2>1, <2>3, <2>4 DEF Sections, Placed, Runs
  <2>6. ints' = (r.depth = 0 /\ ~r.irq)
    BY <1>0, <2>3, <2>4
  <2> QED
    BY Zenon, <2>2, <2>4, <2>5, <2>6, LocalKeeps
<1>5. CASE ExitStore
  <2> DEFINE r == [me EXCEPT !.pc = "exit2"]
  <2>1. me.pc = "exit1" /\ ~me.irq /\ me.depth > 0 /\ me.reg = me.depth
    BY <1>0, <1>5 DEF ExitStore, At, Placed
  <2>2. r \in ThreadRecord
    BY <1>0, <1>f DEF ThreadRecord, Places
  <2>3. r.pc = "exit2" /\ r.depth = me.depth /\ r.irq = me.irq
    BY <1>0 DEF ThreadRecord
  <2>4. th' = [th EXCEPT ![cur] = r] /\ cur' = cur /\ count' = me.reg - 1 /\ ints' = ints
    BY <1>0, <1>5 DEF ExitStore
  <2> HIDE DEF r
  <2>5. count' = Sections(r) /\ Placed(r) /\ Runs(r)
    BY <1>f, <2>1, <2>3, <2>4 DEF Sections, Placed, Runs
  <2>6. ints' = (r.depth = 0 /\ ~r.irq)
    BY <1>0, <2>3, <2>4
  <2> QED
    BY Zenon, <2>2, <2>4, <2>5, <2>6, LocalKeeps
<1>6. CASE ExitTest
  <2> DEFINE r == [me EXCEPT !.pc = "run", !.depth = @ - 1]
  <2>1. me.pc = "exit2" /\ ~me.irq /\ me.depth > 0 /\ count = me.depth - 1
    BY <1>0, <1>f, <1>6 DEF ExitTest, At, Placed, Sections
  <2>2. me.depth - 1 \in 0..MaxDepth
    BY <1>f, <2>1, DepthAssumption
  <2>3. r \in ThreadRecord
    BY Zenon, <1>0, <1>f, <2>2 DEF ThreadRecord, Places
  <2>4. r.pc = "run" /\ r.depth = me.depth - 1 /\ r.irq = me.irq
    BY <1>0 DEF ThreadRecord
  <2>5. /\ th' = [th EXCEPT ![cur] = r] /\ cur' = cur /\ count' = count
        /\ ints' = (ints \/ count = 0)
    BY Zenon, <1>0, <1>6 DEF ExitTest
  <2> HIDE DEF r
  <2>6. count' = Sections(r) /\ Placed(r) /\ Runs(r)
    BY <1>f, <2>1, <2>4, <2>5 DEF Sections, Placed, Runs
  <2>7. (r.depth = 0 <=> count = 0) /\ me.depth # 0
    BY <1>f, <2>1, <2>4
  <2>8. ints' = (r.depth = 0 /\ ~r.irq)
    BY <1>0, <2>1, <2>4, <2>5, <2>7, Zenon
  <2> QED
    BY Zenon, <2>3, <2>5, <2>6, <2>8, LocalKeeps
<1>7. CASE Leave
  <2> DEFINE r == [me EXCEPT !.pc = "leaving"]
  <2>1. me.pc = "run" /\ ~me.irq /\ me.depth > 0 /\ count = me.depth
    BY <1>0, <1>f, <1>7 DEF Leave, At, Sections
  <2>2. r \in ThreadRecord
    BY <1>0, <1>f DEF ThreadRecord, Places
  <2>3. r.pc = "leaving" /\ r.depth = me.depth /\ r.irq = me.irq
    BY <1>0 DEF ThreadRecord
  <2>4. th' = [th EXCEPT ![cur] = r] /\ cur' = cur /\ count' = count /\ ints' = ints
    BY <1>0, <1>7 DEF Leave
  <2> HIDE DEF r
  <2>5. count' = Sections(r) /\ Placed(r) /\ Runs(r)
    BY <1>f, <2>1, <2>3, <2>4 DEF Sections, Placed, Runs
  <2>6. ints' = (r.depth = 0 /\ ~r.irq)
    BY <1>0, <2>3, <2>4
  <2> QED
    BY Zenon, <2>2, <2>4, <2>5, <2>6, LocalKeeps
<1>8. CASE IrqReturn
  <2> DEFINE r == [me EXCEPT !.irq = FALSE]
  <2>1. me.irq /\ me.depth = 0 /\ me.pc \in {"run", "enter1", "enter2"}
    BY <1>0, <1>8 DEF IrqReturn, Placed
  <2>2. r \in ThreadRecord
    BY Zenon, <1>0, <1>f DEF ThreadRecord, Places
  <2>3. r.pc = me.pc /\ r.depth = me.depth /\ ~r.irq /\ r.reg = me.reg
    BY <1>0 DEF ThreadRecord
  <2>4. th' = [th EXCEPT ![cur] = r] /\ cur' = cur /\ count' = count - 2 /\ ints' = TRUE
    BY <1>0, <1>8 DEF IrqReturn
  <2> HIDE DEF r
  <2>5. Placed(r) /\ Runs(r)
    BY <1>0, <2>1, <2>3 DEF Placed, Runs
  <2>6. count' = Sections(r)
    BY <1>0, <1>f, <2>1, <2>3, <2>4 DEF Sections
  <2>7. ints' = (r.depth = 0 /\ ~r.irq)
    BY Zenon, <2>1, <2>3, <2>4
  <2> QED
    BY Zenon, <2>2, <2>4, <2>5, <2>6, <2>7, LocalKeeps
<1>9. ASSUME NEW u \in Thread, Resched(u)
      PROVE  IInv'
  <2>1. me.pc = "leaving" /\ ~me.irq /\ me.depth > 0 /\ count = me.depth /\ ~ints
    BY <1>0, <1>f, <1>9 DEF Resched, At, Placed, Sections
  <2>2. CASE u = cur
    <3> DEFINE r == [me EXCEPT !.pc = "run"]
    <3>1. r \in ThreadRecord
      BY <1>0, <1>f DEF ThreadRecord, Places
    <3>2. r.pc = "run" /\ r.depth = me.depth /\ r.irq = me.irq
      BY <1>0 DEF ThreadRecord
    <3>3. th' = [th EXCEPT ![cur] = r] /\ cur' = cur /\ count' = count /\ ints' = ints
      BY <1>0, <1>9, <2>2 DEF Resched
    <3> HIDE DEF r
    <3>4. count' = Sections(r) /\ Placed(r) /\ Runs(r)
      BY <1>f, <2>1, <3>2, <3>3 DEF Sections, Placed, Runs
    <3>5. ints' = (r.depth = 0 /\ ~r.irq)
      BY <1>0, <3>2, <3>3
    <3> QED
      BY Zenon, <3>1, <3>3, <3>4, <3>5, LocalKeeps
  <2>3. CASE u # cur
    <3> DEFINE r == [me EXCEPT !.pc = "away", !.saved = count]
    <3>1. r \in ThreadRecord
      BY Zenon, <1>0, <1>c, <1>f DEF ThreadRecord, Places
    <3>2. r.pc = "away" /\ r.depth = me.depth /\ r.irq = me.irq /\ r.saved = count
      BY <1>0 DEF ThreadRecord
    <3>3. /\ th' = [th EXCEPT ![cur] = r, ![u] = Resumed(@)]
          /\ cur' = u /\ count' = th[u].saved /\ ints' = FALSE
      BY <1>0, <1>9, <2>1, <2>3 DEF Resched
    <3> HIDE DEF r
    <3>4. Placed(r) /\ Parked(r)
      BY <1>f, <2>1, <3>2 DEF Sections, Placed, Parked
    <3> QED
      BY Zenon, <2>3, <3>1, <3>3, <3>4, SwitchKeeps
  <2> QED
    BY <2>2, <2>3
<1>10. ASSUME NEW u \in Thread, Irq(u, 0)
       PROVE  IInv'
  <2>1. ints /\ ~me.irq /\ me.depth = 0
    BY Zenon, <1>0, <1>10 DEF Irq
  <2>2. me.pc \in {"run", "enter1", "enter2"}
    BY <1>0, <1>f, <2>1 DEF Placed, Runs, Places
  <2>4. CASE u = cur
    <3>1. UNCHANGED vars
      BY <1>10, <1>c, <2>4 DEF Irq, vars
    <3> QED
      BY <3>1 DEF vars, IInv, TypeOK, Placed, Parked, Runs, Sections
  <2>5. CASE u # cur
    <3> DEFINE r == [me EXCEPT !.irq = TRUE, !.saved = count + 2 + 0]
    <3>c. count + 2 + 0 \in Int
      BY <1>c
    <3>1. r \in ThreadRecord
      BY Zenon, <1>0, <1>f, <3>c DEF ThreadRecord, Places
    <3>2. /\ r.pc = me.pc /\ r.depth = me.depth /\ r.irq /\ r.saved = count + 2 + 0
          /\ r.reg = me.reg
      BY <1>0 DEF ThreadRecord
    <3>3. /\ th' = [th EXCEPT ![cur] = r, ![u] = Resumed(@)]
          /\ cur' = u /\ count' = th[u].saved /\ ints' = FALSE
      BY <1>0, <1>10, <2>5 DEF Irq
    <3> HIDE DEF r
    <3>4. Placed(r)
      BY <1>0, <2>1, <2>2, <3>2 DEF Placed
    <3>5. Parked(r)
      BY <1>0, <1>f, <2>1, <2>2, <3>2 DEF Sections, Parked
    <3> QED
      BY Zenon, <2>5, <3>1, <3>3, <3>4, <3>5, SwitchKeeps
  <2> QED
    BY <2>4, <2>5
<1>11. CASE UNCHANGED vars
  BY <1>11 DEF vars, IInv, TypeOK, Placed, Parked, Runs, Sections
<1> QED
  BY <1>1, <1>2, <1>3, <1>4, <1>5, <1>6, <1>7, <1>8, <1>9, <1>10, <1>11 DEF Next, Step

(* Critical sections mask interrupts for any number of threads and any     *)
(* nesting: exactly the sections a thread is in are counted while it runs, *)
(* whatever interrupts came between the load, the store and the test of    *)
(* the unprotected counter (thread.h:129).                                 *)
THEOREM InterruptsMasked == Spec => []SectionsMaskInterrupts
<1>1. IInv => SectionsMaskInterrupts
  BY DEF IInv, SectionsMaskInterrupts
<1> QED
  BY <1>1, InitEstablishes, NextKeeps, PTL DEF Spec

(* The state of the model stays well-typed.                                *)
THEOREM CriticalTypeCorrect == Spec => []TypeOK
<1>1. IInv => TypeOK
  BY DEF IInv
<1> QED
  BY <1>1, InitEstablishes, NextKeeps, PTL DEF Spec

(* Hence no interrupt finds a thread on its way out of the CPU, and the    *)
(* assertion on the state in thread_preempt (thread.c:429) holds as long   *)
(* as no handler leaves a critical section open.                           *)
THEOREM PreemptAssertionHolds == Spec => []PreemptsRunningOnly
<1>1. IInv => PreemptsRunningOnly
  BY DEF IInv, PreemptsRunningOnly, Placed, TypeOK, ThreadRecord
<1> QED
  BY <1>1, InitEstablishes, NextKeeps, PTL DEF Spec
=============================================================================
