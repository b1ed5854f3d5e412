---------------------------- MODULE ZygoteTables -----------------------------
(***************************************************************************)
(* The tables that runSelectLoop keeps for a process of Zygote, and lemmas *)
(* on what each of its steps makes of them.                                *)
(***************************************************************************)
EXTENDS Zygote, SequenceTheorems, FiniteSetTheorems, TLAPS

(* What is tried, and for how long, for a leaf that names no prover.       *)
USE SMTT(15), ZenonT(30), SMTT(60)

(* Where a process has the tables of the select loop.                      *)
Working == {"preload", "select", "dispatch", "pipe", "start"}

(* What may have come after toArray: one connection less, or one more.     *)
Slack(me) == IF me.st = "select" THEN 1 ELSE 0

(* The tables of a process.  fdArray follows fds with at most one element  *)
(* left behind it, and the gc has at most one turn to make up for.         *)
Tables(me) ==
    /\ me.fds = me.peers
    /\ IsInjective(me.fds)
    /\ Range(me.fds) \subseteq me.open
    /\ Cardinality(me.open \ Range(me.fds)) + me.loopCount <= GcLoopCount + Slack(me)
    /\ \A i \in DOMAIN me.fdArray : i > Len(me.fds) + Slack(me) => me.fdArray[i] = NoOne
    /\ me.st # "select" =>
         /\ Len(me.fds) <= Len(me.fdArray)
         /\ \A i \in 1..Len(me.fds) : me.fdArray[i] = me.fds[i]
         /\ me.index <= Len(me.fds)

(* The process p, with the state me: its tables, and who it may be.  Only  *)
(* the zygote has the server socket in its loop, and a child is at the     *)
(* connection on which it was asked for.                                   *)
Sound(p, me) ==
    /\ me.st \in Working => Tables(me)
    /\ me.st = "preload" => p = Z
    /\ me.st \in {"select", "dispatch", "pipe"} => p # SystemServer /\ (p # Z => ~me.server)
    /\ me.st = "dispatch" /\ me.index = 0 => p = Z
    /\ me.st = "pipe" => me.index > 0
    /\ me.st = "start" => p # Z /\ (p \in Kids => me.index > 0 /\ me.by = me.peers[me.index])

-----------------------------------------------------------------------------
(* Sequences.                                                              *)

LEMMA RemoveProperties ==
    ASSUME NEW S, NEW s \in Seq(S), IsInjective(s), NEW i \in 1..Len(s)
    PROVE  /\ remove(s, i) \in Seq(S) /\ Len(remove(s, i)) = Len(s) - 1
           /\ IsInjective(remove(s, i))
           /\ Range(remove(s, i)) = Range(s) \ {s[i]}
  <1> DEFINE u == SubSeq(s, 1, i - 1)
             v == SubSeq(s, i + 1, Len(s))
             r == remove(s, i)
  <1>1. /\ Len(s) \in Nat /\ DOMAIN s = 1..Len(s) /\ i \in Nat
        /\ \A j \in 1..Len(s) : s[j] \in S
    BY LenProperties, ElementOfSeq
  <1>2. /\ u \in Seq(S) /\ Len(u) = i - 1
        /\ \A j \in 1..(i - 1) : u[j] = s[j]
    <2>1. \A j \in 1..(i - 1) : s[j] \in S
      BY <1>1
    <2> DEFINE m == 1
               n == i - 1
    <2>2. m \in Int /\ n \in Int /\ \A j \in m..n : s[j] \in S
      BY <1>1, <2>1
    <2>3. u = SubSeq(s, m, n) /\ m = 1 /\ n = i - 1
      OBVIOUS
    <2> HIDE DEF m, n, u
    <2>4. /\ u \in Seq(S)
          /\ Len(u) = IF m <= n THEN n - m + 1 ELSE 0
          /\ \A j \in 1..(n - m + 1) : u[j] = s[m + j - 1]
      BY <2>2, <2>3, SubSeqProperties
    <2> QED
      BY <1>1, <2>3, <2>4
  <1>3. /\ v \in Seq(S) /\ Len(v) = Len(s) - i
        /\ \A j \in 1..(Len(s) - i) : v[j] = s[i + j]
    <2>1. \A j \in (i + 1)..Len(s) : s[j] \in S
      BY <1>1
    <2>2. /\ v \in Seq(S)
          /\ Len(v) = IF i + 1 <= Len(s) THEN Len(s) - (i + 1) + 1 ELSE 0
          /\ \A j \in 1..(Len(s) - (i + 1) + 1) : v[j] = s[(i + 1) + j - 1]
      BY <1>1, <2>1, SubSeqProperties
    <2> HIDE DEF v
    <2>3. ASSUME NEW n \in Nat, NEW m \in 1..n
          PROVE  /\ n - (m + 1) + 1 = n - m
                 /\ (IF m + 1 <= n THEN n - (m + 1) + 1 ELSE 0) = n - m
                 /\ \A j \in 1..(n - m) : (m + 1) + j - 1 = m + j
      OBVIOUS
    <2>4. /\ Len(s) - (i + 1) + 1 = Len(s) - i
          /\ (IF i + 1 <= Len(s) THEN Len(s) - (i + 1) + 1 ELSE 0) = Len(s) - i
          /\ \A j \in 1..(Len(s) - i) : (i + 1) + j - 1 = i + j
      BY ONLY <1>1, <2>3, i \in 1..Len(s), Zenon
    <2> QED
      BY ONLY <2>2, <2>4, Zenon
  <1>4. r = u \o v
    BY DEF remove
  <1> HIDE DEF u, v, r
  <1>5. /\ r \in Seq(S) /\ Len(r) = Len(s) - 1
        /\ \A j \in 1..(Len(s) - 1) : r[j] = IF j <= i - 1 THEN s[j] ELSE s[j + 1]
    <2>1. /\ r \in Seq(S) /\ Len(r) = Len(u) + Len(v)
          /\ \A j \in 1..(Len(u) + Len(v)) : r[j] =
               IF j <= Len(u) THEN u[j] ELSE v[j - Len(u)]
      BY <1>2, <1>3, <1>4, ConcatProperties, ZenonT(30)
    <2>2. Len(u) + Len(v) = Len(s) - 1
      BY <1>1, <1>2, <1>3
    <2>3. ASSUME NEW j \in 1..(Len(s) - 1)
          PROVE  r[j] = IF j <= i - 1 THEN s[j] ELSE s[j + 1]
      <3>1. r[j] = IF j <= i - 1 THEN u[j] ELSE v[j - (i - 1)]
        BY <1>2, <2>1, <2>2
      <3>2. CASE j <= i - 1
        BY <1>1, <1>2, <3>1, <3>2
      <3>3. CASE ~(j <= i - 1)
        <4>1. j - (i - 1) \in 1..(Len(s) - i)
          BY <1>1, <3>3
        <4>2. v[j - (i - 1)] = s[i + (j - (i - 1))]
          BY <1>3, <4>1
        <4>3. i + (j - (i - 1)) = j + 1
          BY <1>1
        <4> QED
          BY <3>1, <3>3, <4>2, <4>3
      <3> QED
        BY <3>2, <3>3
    <2> QED
      BY <2>1, <2>2, <2>3
  <1>6. DOMAIN r = 1..(Len(s) - 1)
    BY <1>5, LenProperties
  <1>7. IsInjective(r)
    <2>1. SUFFICES ASSUME NEW a \in 1..(Len(s) - 1), NEW b \in 1..(Len(s) - 1), r[a] = r[b]
                   PROVE  a = b
      BY <1>6 DEF IsInjective
    <2>2. \A x, y \in 1..Len(s) : s[x] = s[y] => x = y
      BY <1>1 DEF IsInjective
    <2> QED
      BY <1>1, <1>5, <2>1, <2>2
  <1>8. Range(r) = Range(s) \ {s[i]}
    <2>0. \A x, y \in 1..Len(s) : s[x] = s[y] => x = y
      BY <1>1 DEF IsInjective
    <2>1. ASSUME NEW j \in 1..(Len(s) - 1) PROVE r[j] \in Range(s) \ {s[i]}
      <3> DEFINE k == IF j <= i - 1 THEN j ELSE j + 1
      <3>1. k \in 1..Len(s) /\ k # i
        BY <1>1
      <3>2. r[j] = s[k]
        BY <1>5
      <3> HIDE DEF k
      <3>3. s[k] # s[i] /\ i \in 1..Len(s)
        BY <1>1, <2>0, <3>1, Zenon
      <3>4. s[k] \in Range(s)
        BY <1>1, <3>1, Zenon DEF Range
      <3> QED
        BY <3>2, <3>3, <3>4, Zenon
    <2>2. ASSUME NEW j \in 1..Len(s), j # i PROVE s[j] \in Range(r)
      <3>1. CASE j < i
        <4>1. j \in 1..(Len(s) - 1) /\ r[j] = s[j]
          BY <1>1, <1>5, <3>1
        <4> QED
          BY <1>6, <4>1 DEF Range
      <3>2. CASE j > i
        <4>1. j - 1 \in 1..(Len(s) - 1) /\ ~(j - 1 <= i - 1) /\ (j - 1) + 1 = j
          BY <1>1, <3>2
        <4>2. r[j - 1] = s[j]
          BY <1>5, <4>1
        <4> QED
          BY <1>6, <4>1, <4>2 DEF Range
      <3> QED
        BY <1>1, <2>2, <3>1, <3>2
    <2> QED
      BY <1>1, <1>6, <2>1, <2>2 DEF Range
  <1> QED
    BY <1>5, <1>7, <1>8 DEF r

LEMMA AppendInjectiveSeq ==
    ASSUME NEW S, NEW s \in Seq(S), IsInjective(s), NEW e \in S, e \notin Range(s)
    PROVE  /\ IsInjective(Append(s, e))
           /\ Range(Append(s, e)) = Range(s) \union {e}
  <1> DEFINE r == Append(s, e)
  <1>1. /\ Len(s) \in Nat /\ DOMAIN s = 1..Len(s) /\ DOMAIN r = 1..(Len(s) + 1)
        /\ r[Len(s) + 1] = e /\ \A i \in 1..Len(s) : r[i] = s[i]
    BY AppendProperties, LenProperties
  <1> HIDE DEF r
  <1>2. /\ \A i \in 1..Len(s) : s[i] # e
        /\ \A x, y \in 1..Len(s) : s[x] = s[y] => x = y
    BY <1>1 DEF Range, IsInjective
  <1>3. \A i \in 1..(Len(s) + 1) : i \in 1..Len(s) \/ i = Len(s) + 1
    BY <1>1
  <1>4. IsInjective(r)
    BY <1>1, <1>2, <1>3 DEF IsInjective
  <1>5. Range(r) = Range(s) \union {e}
    <2>1. \A i \in 1..Len(s) : i \in 1..(Len(s) + 1)
      BY <1>1
    <2>2. Len(s) + 1 \in 1..(Len(s) + 1)
      BY <1>1
    <2> QED
      BY <1>1, <1>3, <2>1, <2>2 DEF Range
  <1> QED
    BY <1>4, <1>5 DEF r

LEMMA TailInjective ==
    ASSUME NEW S, NEW s \in Seq(S), s # <<>>, IsInjective(s)
    PROVE  /\ Tail(s) \in Seq(S) /\ IsInjective(Tail(s)) /\ Head(s) \in S
           /\ Head(s) \in Range(s) /\ Range(Tail(s)) = Range(s) \ {Head(s)}
  <1> DEFINE t == Tail(s)
             n == Len(s)
  <1>1. /\ Head(s) = s[1] /\ Head(s) \in S /\ t \in Seq(S) /\ Len(t) = n - 1
        /\ \A i \in 1..Len(t) : t[i] = s[i + 1]
    BY HeadTailProperties
  <1>2. n \in Nat /\ n > 0 /\ DOMAIN s = 1..n /\ DOMAIN t = 1..(n - 1)
    BY <1>1, LenProperties, EmptySeq
  <1>3. \A i, j \in 1..n : s[i] = s[j] => i = j
    BY <1>2 DEF IsInjective
  <1> HIDE DEF t, n
  <1>4. IsInjective(t)
    <2>1. ASSUME NEW i \in 1..(n - 1), NEW j \in 1..(n - 1), t[i] = t[j] PROVE i = j
      <3>1. i + 1 \in 1..n /\ j + 1 \in 1..n
        BY <1>2
      <3>2. s[i + 1] = s[j + 1]
        BY <1>1, <2>1
      <3>3. i + 1 = j + 1
        BY <1>3, <3>1, <3>2
      <3> QED
        BY <3>3
    <2> QED
      BY <1>2, <2>1 DEF IsInjective
  <1>5. ASSUME NEW x PROVE x \in Range(t) <=> x \in Range(s) \ {s[1]}
    <2>1. ASSUME x \in Range(t) PROVE x \in Range(s) \ {s[1]}
      <3>1. PICK i \in 1..(n - 1) : x = t[i]
        BY <1>2, <2>1 DEF Range
      <3>2. i + 1 \in 1..n /\ 1 \in 1..n /\ i + 1 # 1
        BY <1>2
      <3>3. x = s[i + 1]
        BY <1>1, <3>1
      <3> QED
        BY <1>2, <1>3, <3>2, <3>3 DEF Range
    <2>2. ASSUME x \in Range(s) \ {s[1]} PROVE x \in Range(t)
      <3>1. PICK i \in 1..n : x = s[i]
        BY <1>2, <2>2 DEF Range
      <3>2. i - 1 \in 1..(n - 1) /\ (i - 1) + 1 = i
        BY <1>2, <2>2, <3>1
      <3>3. x = t[i - 1]
        BY <1>1, <3>1, <3>2
      <3> QED
        BY <1>2, <3>2, <3>3 DEF Range
    <2> QED
      BY <2>1, <2>2
  <1>6. Head(s) \in Range(s)
    BY <1>1, <1>2 DEF Range
  <1> QED
    BY <1>1, <1>4, <1>5, <1>6 DEF t

LEMMA InjectiveLength ==
    ASSUME NEW s \in Seq(Clients), IsInjective(s)
    PROVE  Len(s) \in 0..Cardinality(Clients)
  <1>1. /\ Len(s) \in Nat /\ s \in [1..Len(s) -> Clients] /\ DOMAIN s = 1..Len(s)
    BY LenProperties
  <1>2. s \in Injection(1..Len(s), Clients)
    BY <1>1 DEF IsInjective, Injection
  <1>3. Cardinality(1..Len(s)) <= Cardinality(Clients)
    BY <1>2, FS_Injection, FiniteAndApart
  <1>4. Cardinality(1..Len(s)) = Len(s)
    <2>1. /\ 1 \in Int /\ Len(s) \in Int
          /\ (IF 1 > Len(s) THEN 0 ELSE Len(s) - 1 + 1) = Len(s)
      BY <1>1
    <2> QED BY <2>1, FS_Interval, Zenon
  <1>5. Cardinality(Clients) \in Nat
    BY FS_CardinalityType, FiniteAndApart
  <1> QED
    BY <1>1, <1>3, <1>4, <1>5

LEMMA HasMinimum ==
    ASSUME NEW T \in SUBSET Nat, T # {}
    PROVE  \E i \in T : \A j \in T : i <= j
  <1>1. PICK i \in T : \A j \in T : ~(<<j, i>> \in OpToRel(<, Nat))
    BY WFMin, NatLessThanWellFounded, Zenon
  <1>2. \A j \in T : ~(j < i)
    BY <1>1, Zenon DEF OpToRel
  <1> QED
    BY <1>2

-----------------------------------------------------------------------------
(* What the steps of runSelectLoop make of the tables of one process.      *)

(* Sets of descriptors are finite.                                         *)
LEMMA OpenFinite ==
    ASSUME NEW A \in SUBSET Clients
    PROVE  IsFiniteSet(A) /\ Cardinality(A) \in Nat
  BY FS_Subset, FS_CardinalityType, FiniteAndApart

LEMMA SmallerSet ==
    ASSUME NEW B \in SUBSET Clients, NEW A \in SUBSET B
    PROVE  Cardinality(A) <= Cardinality(B)
  BY FS_Subset, OpenFinite

LEMMA OneMore ==
    ASSUME NEW B \in SUBSET Clients, NEW x \in Clients, NEW A \in SUBSET (B \union {x})
    PROVE  Cardinality(A) <= Cardinality(B) + 1
  <1>1. Cardinality(A) <= Cardinality(B \union {x})
    BY SmallerSet
  <1>2. Cardinality(B \union {x}) <= Cardinality(B) + 1
    BY FS_AddElement, OpenFinite
  <1> QED
    BY <1>1, <1>2, OpenFinite

LEMMA EmptyTables ==
    ASSUME NEW me \in Process, me.fds = <<>>, me.peers = <<>>, me.open = {},
           me.fdArray = <<NoOne, NoOne, NoOne>>, me.index = 0, me.loopCount = GcLoopCount
    PROVE  Tables(me)
  <1>1. Len(me.fds) = 0 /\ DOMAIN me.fds = {} /\ Range(me.fds) = {} /\ IsInjective(me.fds)
    BY EmptySeq DEF Range, IsInjective
  <1>2. Cardinality(me.open \ Range(me.fds)) = 0 /\ Slack(me) \in {0, 1}
    BY <1>1, FS_EmptySet DEF Slack
  <1>3. /\ Len(me.fdArray) = 3 /\ DOMAIN me.fdArray = 1..3
        /\ \A i \in 1..3 : me.fdArray[i] = NoOne
    OBVIOUS
  <1> QED
    BY <1>1, <1>2, <1>3, RequestsAndLimits DEF Tables

(* The process ends.                                                       *)
LEMMA DeadSound ==
    ASSUME NEW p, NEW me \in Process
    PROVE  /\ Dead(me) \in Process /\ Sound(p, Dead(me)) /\ Dead(me).st = "dead"
           /\ Dead(me).by = me.by /\ Dead(me).req = me.req /\ Dead(me).uid = me.uid
           /\ Dead(me).fds = <<>>
  <1>1. <<NoOne, NoOne, NoOne>> \in Seq(Clients \union {NoOne}) /\ <<>> \in Seq(Clients)
    BY EmptySeq
  <1>2. 0 \in 0..Cardinality(Clients) /\ GcLoopCount \in 0..GcLoopCount
    BY OpenFinite, RequestsAndLimits
  <1>3. Absent \in Process
    BY <1>1, <1>2 DEF Absent, Process
  <1>4. /\ Dead(me) \in Process /\ Dead(me).st = "dead" /\ Dead(me).by = me.by
        /\ Dead(me).req = me.req /\ Dead(me).uid = me.uid /\ Dead(me).fds = Absent.fds
    BY <1>3, ZenonT(30) DEF Dead, Process
  <1>5. Absent.fds = <<>>
    BY DEF Absent
  <1> HIDE DEF Dead
  <1>6. Sound(p, Dead(me))
    BY <1>4 DEF Sound, Working
  <1> QED
    BY <1>4, <1>5, <1>6

(* The selected connection leaves the lists, closed or not.                *)
LEMMA TablesDone ==
    ASSUME NEW me \in Process, Tables(me), me.st # "select", me.index > 0,
           NEW n \in Process, n.st = "select",
           n.peers = remove(me.peers, me.index), n.fds = remove(me.fds, me.index),
           n.fdArray = me.fdArray, n.loopCount = me.loopCount,
           \/ n.open = me.open
           \/ n.open = me.open \ {me.peers[me.index]}
    PROVE  Tables(n) /\ Range(n.fds) = Range(me.fds) \ {me.peers[me.index]}
  <1> DEFINE c == me.peers[me.index]
             s == me.fds
             spare == me.open \ Range(s)
  <1>1. /\ s \in Seq(Clients) /\ me.index \in 1..Len(s) /\ Len(s) \in Nat
        /\ c = s[me.index] /\ c \in Clients /\ IsInjective(s) /\ me.peers = s
        /\ me.open \in SUBSET Clients /\ me.loopCount \in Nat
    <2>1. /\ s \in Seq(Clients) /\ Len(s) \in Nat /\ me.peers = s /\ IsInjective(s)
          /\ me.index \in Nat /\ me.index <= Len(s)
          /\ me.open \in SUBSET Clients /\ me.loopCount \in Nat
      BY LenProperties DEF Tables, Process
    <2>2. me.index \in 1..Len(s)
      BY <2>1
    <2> QED
      BY <2>1, <2>2, ElementOfSeq
  <1>2. /\ n.fds \in Seq(Clients) /\ Len(n.fds) = Len(s) - 1 /\ IsInjective(n.fds)
        /\ Range(n.fds) = Range(s) \ {c} /\ n.fds = n.peers
    BY <1>1, RemoveProperties
  <1>3. Range(n.fds) \subseteq n.open
    BY <1>2 DEF Tables
  <1>4. Cardinality(n.open \ Range(n.fds)) <= Cardinality(spare) + 1
    <2>1. n.open \ Range(n.fds) \subseteq spare \union {c}
      BY <1>2
    <2>2. spare \in SUBSET Clients
      BY <1>1
    <2> QED
      BY <1>1, <2>1, <2>2, OneMore
  <1>5. Cardinality(n.open \ Range(n.fds)) + n.loopCount <= GcLoopCount + Slack(n)
    <2>1. Cardinality(spare) + me.loopCount <= GcLoopCount + 0
      BY DEF Tables, Slack
    <2>2. Cardinality(spare) \in Nat /\ Cardinality(n.open \ Range(n.fds)) \in Nat
      BY <1>1, OpenFinite DEF Process
    <2>3. Slack(n) = 1
      BY DEF Slack
    <2> QED
      BY <1>1, <1>4, <2>1, <2>2, <2>3, RequestsAndLimits
  <1>6. \A i \in DOMAIN n.fdArray : i > Len(n.fds) + Slack(n) => n.fdArray[i] = NoOne
    <2>1. Len(n.fds) + Slack(n) = Len(s)
      BY <1>1, <1>2 DEF Slack
    <2>2. \A i \in DOMAIN me.fdArray : i > Len(s) + 0 => me.fdArray[i] = NoOne
      BY DEF Tables, Slack
    <2> QED
      BY <1>1, <2>1, <2>2
  <1> QED
    BY <1>2, <1>3, <1>5, <1>6 DEF Tables

(* The fields of a process after a connection has left both lists.         *)
LEMMA DoneFields ==
    ASSUME NEW n \in Process, n.peers = n.fds, remove(n.fds, n.index) \in Seq(Clients)
    PROVE  /\ Done(n) \in Process /\ Done(n).st = "select"
           /\ Done(n).peers = remove(n.fds, n.index) /\ Done(n).fds = remove(n.fds, n.index)
           /\ Done(n).fdArray = n.fdArray /\ Done(n).loopCount = n.loopCount
           /\ Done(n).server = n.server /\ Done(n).open = n.open
           /\ Done(n).by = n.by /\ Done(n).req = n.req /\ Done(n).uid = n.uid
  <1> DEFINE r == remove(n.fds, n.index)
             d == Done(n)
  <1>1. d = [n EXCEPT !.st = "select", !.peers = r, !.fds = r]
    BY DEF Done
  <1>2. r \in Seq(Clients)
    OBVIOUS
  <1> HIDE DEF r, d
  <1>3. /\ d \in Process /\ d.st = "select" /\ d.peers = r /\ d.fds = r
        /\ d.fdArray = n.fdArray /\ d.loopCount = n.loopCount
        /\ d.server = n.server /\ d.open = n.open
        /\ d.by = n.by /\ d.req = n.req /\ d.uid = n.uid
    BY ONLY <1>1, <1>2, n \in Process, Zenon DEF Process
  <1> QED BY ONLY <1>3, Zenon DEF r, d

LEMMA DoneSound ==
    ASSUME NEW p, NEW me \in Process, Sound(p, me), me.st \in {"dispatch", "pipe"},
           me.index > 0, NEW n, n = me \/ n = closeSocket(me, me.peers[me.index])
    PROVE  /\ Done(n) \in Process /\ Sound(p, Done(n)) /\ Done(n).st = "select"
           /\ Done(n).by = me.by /\ Done(n).req = me.req /\ Done(n).uid = me.uid
           /\ Range(Done(n).fds) \subseteq Range(me.fds)
  <1>1. /\ Tables(me) /\ p # SystemServer /\ (p # Z => ~me.server)
        /\ me.fds \in Seq(Clients) /\ me.peers = me.fds /\ IsInjective(me.fds)
        /\ me.index \in 1..Len(me.fds) /\ me.st # "select"
    <2>1. /\ Tables(me) /\ p # SystemServer /\ (p # Z => ~me.server) /\ me.st # "select"
          /\ me.fds \in Seq(Clients) /\ me.peers = me.fds /\ IsInjective(me.fds)
          /\ me.index \in Nat /\ me.index <= Len(me.fds)
      BY DEF Sound, Working, Tables, Process
    <2>2. Len(me.fds) \in Nat
      BY <2>1, LenProperties
    <2> QED
      BY <2>1, <2>2
  <1>2. remove(me.fds, me.index) \in Seq(Clients)
    BY <1>1, RemoveProperties
  <1>3. /\ n \in Process /\ n.peers = me.peers /\ n.fds = me.fds /\ n.index = me.index
        /\ n.fdArray = me.fdArray /\ n.loopCount = me.loopCount /\ n.server = me.server
        /\ n.by = me.by /\ n.req = me.req /\ n.uid = me.uid
        /\ n.open = me.open \/ n.open = me.open \ {me.peers[me.index]}
    <2>1. CASE n = me
      BY <2>1, Zenon
    <2>2. CASE n = closeSocket(me, me.peers[me.index])
      <3> DEFINE o == me.open \ {me.peers[me.index]}
      <3>1. n = [me EXCEPT !.open = o]
        BY <2>2 DEF closeSocket
      <3>2. o \in SUBSET Clients
        BY DEF Process
      <3> HIDE DEF o
      <3>3. /\ n \in Process /\ n.peers = me.peers /\ n.fds = me.fds /\ n.index = me.index
            /\ n.fdArray = me.fdArray /\ n.loopCount = me.loopCount /\ n.server = me.server
            /\ n.by = me.by /\ n.req = me.req /\ n.uid = me.uid /\ n.open = o
        BY ONLY <3>1, <3>2, me \in Process, ZenonT(30) DEF Process
      <3> QED BY <3>3, Zenon DEF o
    <2> QED BY <2>1, <2>2
  <1> DEFINE d == Done(n)
  <1>4. /\ d \in Process /\ d.st = "select" /\ d.peers = remove(me.peers, me.index)
        /\ d.fds = remove(me.fds, me.index) /\ d.fdArray = me.fdArray
        /\ d.loopCount = me.loopCount /\ d.server = me.server /\ d.open = n.open
        /\ d.by = me.by /\ d.req = me.req /\ d.uid = me.uid
    BY <1>1, <1>2, <1>3, DoneFields
  <1> HIDE DEF d
  <1>5. Tables(d) /\ Range(d.fds) = Range(me.fds) \ {me.peers[me.index]}
    BY <1>1, <1>3, <1>4, TablesDone, ZenonT(30)
  <1>6. Sound(p, d)
    BY <1>1, <1>4, <1>5 DEF Sound
  <1> QED
    BY <1>4, <1>5, <1>6 DEF d

(* The same for a child that closes its connection and the server socket.  *)
LEMMA ChildSound ==
    ASSUME NEW k \in Kids, NEW me \in Process, Sound(k, me), me.st = "start",
           NEW n, n = [closeSocket(me, me.by) EXCEPT !.server = FALSE]
    PROVE  /\ n \in Process /\ n.by = me.by /\ n.req = me.req /\ n.uid = me.uid
           /\ Done(n) \in Process /\ Sound(k, Done(n)) /\ Done(n).st = "select"
           /\ Done(n).by = me.by /\ Done(n).req = me.req /\ Done(n).uid = me.uid
  <1>0. k # Z /\ k # SystemServer
    BY FiniteAndApart
  <1>1. /\ Tables(me) /\ me.by = me.peers[me.index] /\ me.index > 0
        /\ me.fds \in Seq(Clients) /\ me.peers = me.fds /\ IsInjective(me.fds)
        /\ me.index \in 1..Len(me.fds)
    <2>1. /\ Tables(me) /\ me.by = me.peers[me.index] /\ me.index > 0
          /\ me.fds \in Seq(Clients) /\ me.peers = me.fds /\ IsInjective(me.fds)
          /\ me.index \in Nat /\ me.index <= Len(me.fds)
      BY <1>0 DEF Sound, Working, Tables, Process
    <2>2. Len(me.fds) \in Nat
      BY <2>1, LenProperties
    <2> QED
      BY <2>1, <2>2
  <1>2. remove(me.fds, me.index) \in Seq(Clients)
    BY <1>1, RemoveProperties
  <1>3. /\ n \in Process /\ n.peers = me.peers /\ n.fds = me.fds /\ n.index = me.index
        /\ n.fdArray = me.fdArray /\ n.loopCount = me.loopCount /\ n.server = FALSE
        /\ n.by = me.by /\ n.req = me.req /\ n.uid = me.uid
        /\ n.open = me.open \ {me.by}
    BY ZenonT(30) DEF closeSocket, Process
  <1> DEFINE d == Done(n)
  <1>4. /\ d \in Process /\ d.st = "select" /\ d.peers = remove(me.peers, me.index)
        /\ d.fds = remove(me.fds, me.index) /\ d.fdArray = me.fdArray
        /\ d.loopCount = me.loopCount /\ d.server = n.server /\ d.open = n.open
        /\ d.by = me.by /\ d.req = me.req /\ d.uid = me.uid
    BY ONLY <1>1, <1>2, <1>3, DoneFields
  <1> HIDE DEF d
  <1>5. Tables(d)
    BY <1>1, <1>3, <1>4, TablesDone, ZenonT(30)
  <1>6. Sound(k, d)
    BY <1>0, <1>3, <1>4, <1>5 DEF Sound
  <1> QED
    BY <1>3, <1>4, <1>6 DEF d

LEMMA AgainSound ==
    ASSUME NEW p, NEW me \in Process, Sound(p, me), me.st \in {"preload", "dispatch", "pipe"}
    PROVE  /\ Again(me) \in Process /\ Sound(p, Again(me)) /\ Again(me).st = "select"
           /\ Again(me).by = me.by /\ Again(me).req = me.req /\ Again(me).uid = me.uid
           /\ Again(me).fds = me.fds
  <1> DEFINE d == Again(me)
  <1>1. /\ d \in Process /\ d.st = "select" /\ d.by = me.by /\ d.req = me.req
        /\ d.uid = me.uid /\ d.fds = me.fds /\ d.peers = me.peers /\ d.open = me.open
        /\ d.loopCount = me.loopCount /\ d.fdArray = me.fdArray /\ d.server = me.server
    BY Zenon DEF Again, Process
  <1> HIDE DEF d
  <1>2. Tables(me) /\ p # SystemServer /\ (p # Z => ~me.server) /\ me.st # "select"
    BY DEF Sound, Working, Z, SystemServer
  <1>3. /\ Cardinality(me.open \ Range(me.fds)) \in Nat /\ me.loopCount \in Nat
        /\ Len(me.fds) \in Nat /\ DOMAIN me.fdArray \subseteq Nat
    <2>1. /\ me.open \in SUBSET Clients /\ me.loopCount \in Nat /\ me.fds \in Seq(Clients)
          /\ me.fdArray \in Seq(Clients \union {NoOne})
      BY DEF Process
    <2>2. DOMAIN me.fdArray = 1..Len(me.fdArray)
      BY <2>1, LenProperties
    <2> QED
      BY <2>1, <2>2, OpenFinite, LenProperties
  <1>4. Slack(me) = 0 /\ Slack(d) = 1
    BY <1>1, <1>2 DEF Slack
  <1>5. Cardinality(d.open \ Range(d.fds)) + d.loopCount <= GcLoopCount + Slack(d)
    BY <1>1, <1>2, <1>3, <1>4, RequestsAndLimits DEF Tables
  <1>6. \A i \in DOMAIN d.fdArray : i > Len(d.fds) + Slack(d) => d.fdArray[i] = NoOne
    BY <1>1, <1>2, <1>3, <1>4 DEF Tables
  <1>7. Tables(d)
    BY <1>1, <1>2, <1>5, <1>6 DEF Tables
  <1>8. Sound(p, d)
    BY <1>1, <1>2, <1>7 DEF Sound
  <1> QED
    BY <1>1, <1>8 DEF d

(* ArrayList.toArray, and the gc of a turn.                                *)
LEMMA ToArrayProperties ==
    ASSUME NEW f \in Seq(Clients), NEW a \in Seq(Clients \union {NoOne}),
           \A i \in DOMAIN a : i > Len(f) + 1 => a[i] = NoOne
    PROVE  LET t == toArray(f, a)
           IN  /\ t \in Seq(Clients \union {NoOne}) /\ Len(f) <= Len(t)
               /\ \A i \in 1..Len(f) : t[i] = f[i]
               /\ \A i \in DOMAIN t : i > Len(f) => t[i] = NoOne
  <1>1. /\ Len(f) \in Nat /\ Len(a) \in Nat /\ DOMAIN f = 1..Len(f) /\ DOMAIN a = 1..Len(a)
        /\ f \in [1..Len(f) -> Clients] /\ a \in [1..Len(a) -> Clients \union {NoOne}]
    BY LenProperties
  <1>2. CASE Len(a) < Len(f)
    <2>1. toArray(f, a) = f
      BY <1>2 DEF toArray
    <2>2. f \in Seq(Clients \union {NoOne})
      BY SeqMonotonic
    <2> QED
      BY <1>1, <2>1, <2>2
  <1>3. CASE ~(Len(a) < Len(f))
    <2> DEFINE t == [i \in DOMAIN a |-> IF i <= Len(f) THEN f[i]
                                        ELSE IF i = Len(f) + 1 THEN NoOne ELSE a[i]]
    <2>1. toArray(f, a) = t
      BY <1>3 DEF toArray
    <2>2. t \in [1..Len(a) -> Clients \union {NoOne}]
      BY <1>1
    <2>3. \A i \in 1..Len(f) : t[i] = f[i]
      BY <1>1, <1>3
    <2>4. \A i \in 1..Len(a) : i > Len(f) => t[i] = NoOne
      BY <1>1, <1>3
    <2> HIDE DEF t
    <2>5. t \in Seq(Clients \union {NoOne})
      BY <1>1, <2>2, SeqDef
    <2>6. DOMAIN t = 1..Len(a)
      BY <2>2
    <2>7. Len(t) = Len(a)
      BY <1>1, <2>5, <2>6, LenProperties
    <2> QED
      BY <1>1, <1>3, <2>1, <2>3, <2>4, <2>5, <2>6, <2>7
  <1> QED
    BY <1>2, <1>3

LEMMA GcProperties ==
    ASSUME NEW me \in Process, Range(me.fds) \subseteq me.open,
           Cardinality(me.open \ Range(me.fds)) + me.loopCount <= GcLoopCount + 1
    PROVE  LET n == gc(me)
           IN  /\ n \in Process /\ n.st = me.st /\ n.fds = me.fds /\ n.peers = me.peers
               /\ n.fdArray = me.fdArray /\ n.server = me.server
               /\ n.by = me.by /\ n.req = me.req /\ n.uid = me.uid
               /\ Range(n.fds) \subseteq n.open
               /\ Cardinality(n.open \ Range(n.fds)) + n.loopCount <= GcLoopCount
  <1> DEFINE n == gc(me)
  <1>1. me.loopCount \in 0..GcLoopCount /\ GcLoopCount \in Nat /\ me.open \in SUBSET Clients
    BY RequestsAndLimits DEF Process
  <1>2. CASE me.loopCount = 0
    <2> DEFINE o1 == me.open \intersect Range(me.fds)
    <2>1. n = [me EXCEPT !.loopCount = GcLoopCount, !.open = o1]
      BY <1>2 DEF gc
    <2>t. o1 \in SUBSET Clients /\ GcLoopCount \in 0..GcLoopCount
      BY <1>1
    <2>o. o1 = me.open \intersect Range(me.fds)
      OBVIOUS
    <2> HIDE DEF n, o1
    <2>2. /\ n \in Process /\ n.st = me.st /\ n.fds = me.fds /\ n.peers = me.peers
          /\ n.fdArray = me.fdArray /\ n.server = me.server
          /\ n.by = me.by /\ n.req = me.req /\ n.uid = me.uid
          /\ n.open = me.open \intersect Range(me.fds) /\ n.loopCount = GcLoopCount
      BY ONLY <2>1, <2>t, <2>o, me \in Process, Zenon DEF Process
    <2>3. n.open \ Range(n.fds) = {}
      BY <2>2
    <2>4. Cardinality(n.open \ Range(n.fds)) = 0
      BY <2>3, FS_EmptySet
    <2>5. Range(n.fds) \subseteq n.open
      BY <2>2
    <2>6. Cardinality(n.open \ Range(n.fds)) + n.loopCount <= GcLoopCount
      BY <1>1, <2>2, <2>4
    <2> QED
      BY ONLY <2>2, <2>5, <2>6, Zenon DEF n
  <1>3. CASE me.loopCount # 0
    <2> DEFINE l1 == me.loopCount - 1
    <2>1. n = [me EXCEPT !.loopCount = l1]
      BY <1>3 DEF gc
    <2>t. l1 \in 0..GcLoopCount /\ l1 = me.loopCount - 1
      BY <1>1, <1>3
    <2> HIDE DEF n, l1
    <2>2. /\ n \in Process /\ n.st = me.st /\ n.fds = me.fds /\ n.peers = me.peers
          /\ n.fdArray = me.fdArray /\ n.server = me.server
          /\ n.by = me.by /\ n.req = me.req /\ n.uid = me.uid
          /\ n.open = me.open /\ n.loopCount = me.loopCount - 1
      BY ONLY <2>1, <2>t, me \in Process, Zenon DEF Process
    <2>3. Cardinality(me.open \ Range(me.fds)) \in Nat
      BY <1>1, OpenFinite
    <2>4. Cardinality(n.open \ Range(n.fds)) + n.loopCount <= GcLoopCount
      BY <1>1, <2>2, <2>3
    <2>5. Range(n.fds) \subseteq n.open
      BY <2>2
    <2> QED
      BY ONLY <2>2, <2>4, <2>5, Zenon DEF n
  <1> QED
    BY <1>2, <1>3

Turned(was) == gc([was EXCEPT !.fdArray = toArray(was.fds, @)])

Dispatched(me, x) == [me EXCEPT !.st = "dispatch", !.index = x]

(* What a turn has in hand once the descriptors are copied and gc() ran.   *)
TurnedWell(was, me) ==
    /\ me \in Process /\ me.st = "select" /\ me.fds = was.fds /\ me.peers = was.peers
    /\ me.server = was.server
    /\ me.by = was.by /\ me.req = was.req /\ me.uid = was.uid
    /\ Range(me.fds) \subseteq me.open
    /\ Cardinality(me.open \ Range(me.fds)) + me.loopCount <= GcLoopCount
    /\ Len(was.fds) <= Len(me.fdArray)
    /\ \A i \in 1..Len(was.fds) : me.fdArray[i] = was.fds[i]
    /\ \A i \in DOMAIN me.fdArray : i > Len(was.fds) => me.fdArray[i] = NoOne
    /\ DOMAIN me.fdArray = 1..Len(me.fdArray) /\ Len(me.fdArray) \in Nat

LEMMA TurnGc ==
    ASSUME NEW p, NEW was \in Process, Sound(p, was), was.st = "select",
           NEW me, me = Turned(was)
    PROVE  TurnedWell(was, me)
  <1> DEFINE a == toArray(was.fds, was.fdArray)
             m == [was EXCEPT !.fdArray = a]
  <1>1. /\ Tables(was) /\ p # SystemServer /\ (p # Z => ~was.server) /\ Slack(was) = 1
        /\ was.fds \in Seq(Clients) /\ was.fdArray \in Seq(Clients \union {NoOne})
        /\ IsInjective(was.fds)
    BY DEF Sound, Working, Process, Slack, Tables
  <1>2. /\ a \in Seq(Clients \union {NoOne}) /\ Len(was.fds) <= Len(a)
        /\ \A i \in 1..Len(was.fds) : a[i] = was.fds[i]
        /\ \A i \in DOMAIN a : i > Len(was.fds) => a[i] = NoOne
    <2>1. \A i \in DOMAIN was.fdArray : i > Len(was.fds) + 1 => was.fdArray[i] = NoOne
      BY <1>1 DEF Tables
    <2> HIDE DEF a
    <2> QED
      BY <1>1, <2>1, ToArrayProperties DEF a
  <1>3. me = gc(m)
    BY DEF Turned
  <1> HIDE DEF a
  <1>4. /\ m \in Process /\ m.fdArray = a /\ m.st = "select" /\ m.fds = was.fds
        /\ m.peers = was.peers /\ m.open = was.open /\ m.loopCount = was.loopCount
        /\ m.server = was.server /\ m.by = was.by /\ m.req = was.req /\ m.uid = was.uid
    BY <1>2, Zenon DEF Process
  <1> HIDE DEF m
  <1>5. /\ Range(m.fds) \subseteq m.open
        /\ Cardinality(m.open \ Range(m.fds)) + m.loopCount <= GcLoopCount + 1
    BY <1>1, <1>4 DEF Tables
  <1>6. /\ me \in Process /\ me.st = "select" /\ me.fds = was.fds /\ me.peers = was.peers
        /\ me.fdArray = a /\ me.server = was.server
        /\ me.by = was.by /\ me.req = was.req /\ me.uid = was.uid
        /\ Range(me.fds) \subseteq me.open
        /\ Cardinality(me.open \ Range(me.fds)) + me.loopCount <= GcLoopCount
    <2> DEFINE g == gc(m)
    <2>1. /\ g \in Process /\ g.st = m.st /\ g.fds = m.fds /\ g.peers = m.peers
          /\ g.fdArray = m.fdArray /\ g.server = m.server
          /\ g.by = m.by /\ g.req = m.req /\ g.uid = m.uid
          /\ Range(g.fds) \subseteq g.open
          /\ Cardinality(g.open \ Range(g.fds)) + g.loopCount <= GcLoopCount
      BY ONLY <1>4, <1>5, GcProperties, Zenon
    <2> QED
      BY ONLY <1>3, <1>4, <2>1, Zenon
  <1>7. DOMAIN a = 1..Len(a) /\ Len(a) \in Nat /\ Len(was.fds) \in Nat
    BY <1>1, <1>2, LenProperties
  <1> QED
    BY ONLY <1>2, <1>6, <1>7 DEF TurnedWell

(* A turn selects a connection, or the server socket, of which the index   *)
(* is 0.                                                                   *)
LEMMA TurnSound ==
    ASSUME NEW p, NEW was \in Process, Sound(p, was), was.st = "select",
           NEW me, me = Turned(was),
           NEW x \in DOMAIN me.fdArray \union {0},
           x = 0 => p = Z, x # 0 => me.fdArray[x] # NoOne,
           NEW n, n = Dispatched(me, x)
    PROVE  /\ n \in Process /\ Sound(p, n) /\ n.st = "dispatch" /\ n.index = x
           /\ n.by = was.by /\ n.req = was.req /\ n.uid = was.uid
           /\ n.fds = was.fds
  <1>1. /\ Tables(was) /\ p # SystemServer /\ (p # Z => ~was.server)
        /\ was.fds \in Seq(Clients) /\ IsInjective(was.fds)
    BY DEF Sound, Working, Process, Tables
  <1>a. TurnedWell(was, me)
    BY TurnGc
  <1>2. /\ me \in Process /\ me.st = "select" /\ me.fds = was.fds /\ me.peers = was.peers
        /\ me.server = was.server
        /\ me.by = was.by /\ me.req = was.req /\ me.uid = was.uid
        /\ Range(me.fds) \subseteq me.open
        /\ Cardinality(me.open \ Range(me.fds)) + me.loopCount <= GcLoopCount
        /\ Len(was.fds) <= Len(me.fdArray)
        /\ \A i \in 1..Len(was.fds) : me.fdArray[i] = was.fds[i]
        /\ \A i \in DOMAIN me.fdArray : i > Len(was.fds) => me.fdArray[i] = NoOne
        /\ DOMAIN me.fdArray = 1..Len(me.fdArray) /\ Len(me.fdArray) \in Nat
    BY ONLY <1>a DEF TurnedWell
  <1>3. Len(was.fds) \in Nat
    BY <1>1, LenProperties
  <1>4. x \in Nat /\ x <= Len(was.fds)
    <2>1. CASE x = 0
      BY <1>2, <1>3, <2>1
    <2>2. CASE x \in DOMAIN me.fdArray /\ x # 0
      <3>1. ~(x > Len(was.fds))
        BY <1>2, <2>2
      <3> QED
        BY <1>2, <1>3, <2>2, <3>1
    <2> QED
      BY <2>1, <2>2
  <1>5. x \in 0..Cardinality(Clients)
    <2>1. Len(was.fds) \in 0..Cardinality(Clients)
      BY <1>1, InjectiveLength
    <2>2. Cardinality(Clients) \in Nat
      BY OpenFinite
    <2> QED
      BY <1>4, <2>1, <2>2
  <1>6. /\ n \in Process /\ n.st = "dispatch" /\ n.index = x
        /\ n.by = was.by /\ n.req = was.req /\ n.uid = was.uid
        /\ n.fds = was.fds /\ n.peers = was.peers /\ n.fdArray = me.fdArray
        /\ n.server = was.server /\ n.open = me.open /\ n.loopCount = me.loopCount
    BY ONLY <1>2, <1>5, n = Dispatched(me, x), ZenonT(30) DEF Process, Dispatched
  <1>7. Tables(n)
    <2>1. Slack(n) = 0
      BY ONLY <1>6 DEF Slack
    <2>2. n.fds = n.peers /\ IsInjective(n.fds) /\ Range(n.fds) \subseteq n.open
      BY ONLY <1>1, <1>2, <1>6 DEF Tables
    <2>3. Cardinality(n.open \ Range(n.fds)) + n.loopCount <= GcLoopCount + Slack(n)
      <3>1. Cardinality(n.open \ Range(n.fds)) + n.loopCount <= GcLoopCount
        BY ONLY <1>2, <1>6
      <3> QED
        BY ONLY <2>1, <3>1, RequestsAndLimits
    <2>4. \A i \in DOMAIN n.fdArray : i > Len(n.fds) + Slack(n) => n.fdArray[i] = NoOne
      <3>1. Len(n.fds) + Slack(n) = Len(was.fds)
        BY ONLY <1>2, <1>3, <1>6, <2>1
      <3> QED
        BY ONLY <1>2, <1>6, <3>1
    <2> QED
      BY ONLY <1>2, <1>4, <1>6, <2>2, <2>3, <2>4 DEF Tables
  <1>8. Sound(p, n)
    BY ONLY <1>1, x = 0 => p = Z, <1>6, <1>7 DEF Sound
  <1> QED
    BY ONLY <1>6, <1>8

(* acceptCommandPeer puts a connection at the end of both lists.           *)
Accepted(me, c) ==
    [me EXCEPT !.st = "select", !.peers = Append(@, c),
               !.fds = Append(@, c), !.open = @ \union {c}]

LEMMA AcceptSound ==
    ASSUME NEW p, NEW me \in Process, Sound(p, me), me.st = "dispatch",
           NEW c \in Clients, c \notin Range(me.fds)
    PROVE  LET n == Accepted(me, c)
           IN  /\ n \in Process /\ Sound(p, n) /\ n.st = "select"
               /\ n.by = me.by /\ n.req = me.req /\ n.uid = me.uid
               /\ Range(n.fds) = Range(me.fds) \union {c}
  <1> DEFINE fds1 == Append(me.fds, c)
             peers1 == Append(me.peers, c)
             open1 == me.open \union {c}
             n == [me EXCEPT !.st = "select", !.peers = peers1, !.fds = fds1, !.open = open1]
  <1>1. /\ Tables(me) /\ p # SystemServer /\ (p # Z => ~me.server) /\ Slack(me) = 0
        /\ me.fds \in Seq(Clients) /\ me.peers = me.fds /\ IsInjective(me.fds)
        /\ me.open \in SUBSET Clients /\ me.loopCount \in Nat
        /\ me.fdArray \in Seq(Clients \union {NoOne})
    BY DEF Sound, Working, Tables, Process, Slack
  <1>2. /\ fds1 \in Seq(Clients) /\ Len(fds1) = Len(me.fds) + 1 /\ Len(me.fds) \in Nat
        /\ IsInjective(fds1) /\ Range(fds1) = Range(me.fds) \union {c}
        /\ peers1 = fds1 /\ open1 \in SUBSET Clients
    BY <1>1, AppendProperties, LenProperties, AppendInjectiveSeq
  <1>3. open1 = me.open \union {c}
    OBVIOUS
  <1> HIDE DEF fds1, peers1, open1
  <1>4. /\ n \in Process /\ n.st = "select" /\ n.peers = peers1 /\ n.fds = fds1
        /\ n.open = open1 /\ n.loopCount = me.loopCount /\ n.fdArray = me.fdArray
        /\ n.server = me.server /\ n.by = me.by /\ n.req = me.req /\ n.uid = me.uid
    BY ONLY <1>2, me \in Process, ZenonT(30) DEF Process
  <1> HIDE DEF n
  <1>5. Range(n.fds) \subseteq n.open
    BY <1>1, <1>2, <1>3, <1>4 DEF Tables
  <1>6. Slack(n) = 1
    BY <1>4 DEF Slack
  <1>7. Cardinality(n.open \ Range(n.fds)) + n.loopCount <= GcLoopCount + Slack(n)
    <2>1. n.open \ Range(n.fds) \subseteq me.open \ Range(me.fds)
      BY <1>2, <1>3, <1>4
    <2>2. Cardinality(n.open \ Range(n.fds)) <= Cardinality(me.open \ Range(me.fds))
      BY <1>1, <2>1, SmallerSet
    <2>3. /\ Cardinality(n.open \ Range(n.fds)) \in Nat
          /\ Cardinality(me.open \ Range(me.fds)) \in Nat
      BY <1>1, <1>2, <1>4, OpenFinite
    <2>4. Cardinality(me.open \ Range(me.fds)) + me.loopCount <= GcLoopCount + Slack(me)
      BY <1>1 DEF Tables
    <2> QED
      BY <1>1, <1>4, <1>6, <2>2, <2>3, <2>4, RequestsAndLimits
  <1>8. \A i \in DOMAIN n.fdArray : i > Len(n.fds) + Slack(n) => n.fdArray[i] = NoOne
    <2>1. \A i \in DOMAIN me.fdArray : i > Len(me.fds) + Slack(me) => me.fdArray[i] = NoOne
      BY <1>1 DEF Tables
    <2>2. DOMAIN me.fdArray \subseteq Nat
      BY <1>1, LenProperties
    <2>3. \A i \in Nat : i > Len(n.fds) + Slack(n) => i > Len(me.fds) + Slack(me)
      BY <1>1, <1>2, <1>4, <1>6
    <2> QED
      BY <1>4, <2>1, <2>2, <2>3
  <1>9. Tables(n)
    BY <1>2, <1>4, <1>5, <1>7, <1>8 DEF Tables
  <1>10. Sound(p, n)
    BY <1>1, <1>4, <1>9 DEF Sound
  <1> QED
    BY <1>2, <1>4, <1>10 DEF n, fds1, peers1, open1, Accepted

(* A fork: the child has the tables, and the parent may wait.              *)
LEMMA SameTables ==
    ASSUME NEW me, Tables(me), me.st # "select", NEW n, n.st # "select",
           n.fds = me.fds, n.peers = me.peers, n.open = me.open,
           n.loopCount = me.loopCount, n.fdArray = me.fdArray, n.index = me.index
    PROVE  Tables(n)
  <1>1. Slack(n) = 0 /\ Slack(me) = 0
    BY DEF Slack
  <1> QED
    BY <1>1 DEF Tables

Child(me, r, u) ==
    [me EXCEPT !.st = "start", !.by = me.peers[me.index], !.req = r, !.uid = u]

Piped(me, k) == [me EXCEPT !.st = "pipe", !.kid = k]

LEMMA ForkSound ==
    ASSUME NEW p, NEW me \in Process, Sound(p, me), me.st = "dispatch", me.index > 0,
           NEW k \in Kids, NEW r \in Requests, NEW u \in {"root", "system", "app", "low", "high"}
    PROVE  LET n == Child(me, r, u)
           IN  /\ n \in Process /\ Sound(k, n) /\ n.st = "start"
               /\ n.by = me.peers[me.index] /\ n.req = r /\ n.uid = u
               /\ n.by \in Clients
  <1> DEFINE c == me.peers[me.index]
             n == [me EXCEPT !.st = "start", !.by = c, !.req = r, !.uid = u]
  <1>1. Tables(me) /\ me.index <= Len(me.peers) /\ me.index \in Nat /\ me.peers \in Seq(Clients)
    BY DEF Sound, Working, Tables, Process
  <1>2. c \in Clients
    <2>1. me.index \in 1..Len(me.peers)
      BY <1>1, LenProperties
    <2> QED
      BY <1>1, <2>1, ElementOfSeq
  <1>3. c = me.peers[me.index]
    OBVIOUS
  <1> HIDE DEF c
  <1>4. /\ n \in Process /\ n.st = "start" /\ n.by = c /\ n.req = r /\ n.uid = u
        /\ n.fds = me.fds /\ n.peers = me.peers /\ n.open = me.open
        /\ n.loopCount = me.loopCount /\ n.fdArray = me.fdArray /\ n.index = me.index
    BY ONLY <1>2, me \in Process, r \in Requests,
            u \in {"root", "system", "app", "low", "high"}, ZenonT(30) DEF Process
  <1> HIDE DEF n
  <1>5. Tables(n)
    BY <1>1, <1>4, SameTables
  <1>6. k # Z /\ k # SystemServer
    BY FiniteAndApart
  <1>7. Sound(k, n)
    BY <1>3, <1>4, <1>5, <1>6 DEF Sound
  <1> QED
    BY <1>2, <1>4, <1>7 DEF n, c, Child

LEMMA PipeSound ==
    ASSUME NEW p, NEW me \in Process, Sound(p, me), me.st = "dispatch", me.index > 0,
           NEW k \in Kids
    PROVE  LET n == Piped(me, k)
           IN  /\ n \in Process /\ Sound(p, n) /\ n.st = "pipe" /\ n.kid = k
               /\ n.by = me.by /\ n.req = me.req /\ n.uid = me.uid
               /\ n.fds = me.fds /\ n.peers = me.peers /\ n.index = me.index
  <1> DEFINE n == [me EXCEPT !.st = "pipe", !.kid = k]
  <1>1. Tables(me) /\ p # SystemServer /\ (p # Z => ~me.server)
    BY DEF Sound, Working
  <1>2. k \in Procs
    BY DEF Procs
  <1>4. /\ n \in Process /\ n.st = "pipe" /\ n.by = me.by /\ n.req = me.req
        /\ n.uid = me.uid /\ n.kid = k /\ n.server = me.server
        /\ n.fds = me.fds /\ n.peers = me.peers /\ n.open = me.open
        /\ n.loopCount = me.loopCount /\ n.fdArray = me.fdArray /\ n.index = me.index
    BY ONLY <1>2, me \in Process, Zenon DEF Process
  <1> HIDE DEF n
  <1>5. Tables(n)
    BY <1>1, <1>4, SameTables
  <1>6. Sound(p, n)
    BY <1>1, <1>4, <1>5 DEF Sound
  <1> QED
    BY <1>4, <1>6 DEF n, Piped

(* What a process in the loop has in its tables.                           *)
LEMMA InLoopTables ==
    ASSUME NEW me \in Process, Tables(me), me.st \in {"select", "dispatch", "pipe"}
    PROVE  /\ me.fds = me.peers
           /\ me.st # "select" =>
                /\ Len(me.fds) <= Len(me.fdArray)
                /\ \A i \in DOMAIN me.fdArray :
                     me.fdArray[i] = IF i <= Len(me.fds) THEN me.fds[i] ELSE NoOne
                /\ me.index <= Len(me.peers)
           /\ Range(me.fds) \subseteq me.open
           /\ Cardinality(me.open \ Range(me.fds)) <= GcLoopCount + 1
  <1>1. /\ me.fds \in Seq(Clients) /\ me.fdArray \in Seq(Clients \union {NoOne})
        /\ me.open \in SUBSET Clients /\ me.loopCount \in Nat
    BY DEF Process
  <1>2. /\ Len(me.fds) \in Nat /\ DOMAIN me.fdArray = 1..Len(me.fdArray)
        /\ Len(me.fdArray) \in Nat /\ Cardinality(me.open \ Range(me.fds)) \in Nat
        /\ Slack(me) \in {0, 1}
    BY <1>1, LenProperties, OpenFinite DEF Slack
  <1>3. Cardinality(me.open \ Range(me.fds)) <= GcLoopCount + 1
    BY <1>1, <1>2, RequestsAndLimits DEF Tables
  <1>4. ASSUME me.st # "select", NEW i \in DOMAIN me.fdArray
        PROVE  me.fdArray[i] = IF i <= Len(me.fds) THEN me.fds[i] ELSE NoOne
    <2>1. Slack(me) = 0 /\ i \in Nat /\ i >= 1
      BY <1>2, <1>4 DEF Slack
    <2>2. CASE i <= Len(me.fds)
      BY <1>2, <1>4, <2>1, <2>2 DEF Tables
    <2>3. CASE i > Len(me.fds)
      BY <1>2, <1>4, <2>1, <2>3 DEF Tables
    <2> QED
      BY <1>2, <2>1, <2>2, <2>3
  <1> QED
    BY <1>3, <1>4, Zenon DEF Tables
=============================================================================
