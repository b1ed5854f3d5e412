--------------------------- MODULE InitBootProofs ----------------------------
(***************************************************************************)
(* Proof that the nodes of ueventd follow the devices of the kernel, for   *)
(* any devices, any size of the netlink socket and any plan of init, with  *)
(* ueventd and the machine going down at any time.                         *)
(***************************************************************************)
EXTENDS InitBoot, SequenceTheorems, TLAPS

(* What is tried, and for how long, for a leaf that names no prover.       *)
USE SMTT(15), ZenonT(30), SMTT(60)

(* No event about d is under way in q.                                     *)
Silent(q, d) == \A i \in 1..Len(q) : q[i].of # d

(* The last event in q about d says whether d is in the set there; if      *)
(* there is none, the node in the set node does.                           *)
Agrees(q, node, there, d) ==
    \/ \E i \in 1..Len(q) : /\ q[i].of = d
                            /\ \A j \in 1..Len(q) : j > i => q[j].of # d
                            /\ q[i].what = "add" <=> d \in there
    \/ Silent(q, d) /\ (d \in node <=> d \in there)

(* Where ueventd is in its life, and what of the devices it has yet to     *)
(* hear of: before coldboot those without a node, during coldboot those    *)
(* in its list, and afterwards none.                                       *)
NodesFollow ==
    /\ ~Listening => dev.queue = <<>>
    /\ ud.st = "coldboot" => ~fs.coldboot_done
    /\ ud.st = "loop" => fs.coldboot_done /\ ud.todo = {}
    /\ \A d \in Devices \ dev.lost :
         /\ ~Listening /\ ~fs.coldboot_done => (d \in ud.node => d \in dev.there)
         /\ ~Listening /\ fs.coldboot_done => (d \in ud.node <=> d \in dev.there)
         /\ Listening => \/ Agrees(dev.queue, ud.node, dev.there, d)
                         \/ d \in ud.todo /\ d \in dev.there

NodesInv == UdTypeOK /\ NodesFollow

-----------------------------------------------------------------------------
(* The queue and what is agreed.                                           *)

LEMMA AgreesAppend ==
    ASSUME NEW q \in Seq(Events), NEW e \in Events, NEW d,
           NEW node, NEW there, NEW there1,
           \/ e.of # d /\ Agrees(q, node, there, d) /\ (d \in there1 <=> d \in there)
           \/ e.of = d /\ (e.what = "add" <=> d \in there1)
    PROVE  Agrees(Append(q, e), node, there1, d)
  <1> DEFINE r == Append(q, e)
  <1>1. /\ Len(q) \in Nat /\ Len(r) = Len(q) + 1 /\ r[Len(q) + 1] = e
        /\ \A i \in 1..Len(q) : r[i] = q[i]
    BY AppendProperties, LenProperties
  <1> HIDE DEF r
  <1>2. CASE e.of = d /\ (e.what = "add" <=> d \in there1)
    <2>1. Len(q) + 1 \in 1..Len(r) /\ \A j \in 1..Len(r) : ~(j > Len(q) + 1)
      BY <1>1
    <2> QED
      BY <1>1, <1>2, <2>1 DEF Agrees, r
  <1>3. CASE /\ e.of # d /\ Agrees(q, node, there, d)
             /\ d \in there1 <=> d \in there
    <2>0. \A j \in 1..Len(r) : j \in 1..Len(q) \/ r[j].of # d
      BY <1>1, <1>3
    <2>1. CASE Silent(q, d) /\ (d \in node <=> d \in there)
      <3>1. Silent(r, d)
        BY <1>1, <2>0, <2>1 DEF Silent
      <3> QED
        BY <1>3, <2>1, <3>1 DEF Agrees, r
    <2>2. ASSUME NEW i \in 1..Len(q), q[i].of = d,
                 \A j \in 1..Len(q) : j > i => q[j].of # d,
                 q[i].what = "add" <=> d \in there
          PROVE  Agrees(r, node, there1, d)
      <3>1. i \in 1..Len(r) /\ r[i] = q[i]
        BY <1>1
      <3>2. \A j \in 1..Len(r) : j > i => r[j].of # d
        BY <1>1, <2>0, <2>2
      <3> QED
        BY <1>3, <2>2, <3>1, <3>2 DEF Agrees
    <2> QED
      BY <1>3, <2>1, <2>2 DEF Agrees, r
  <1> QED
    BY <1>2, <1>3

LEMMA AgreesTail ==
    ASSUME NEW q \in Seq(Events), q # <<>>, NEW d, NEW node, NEW node1, NEW there,
           Agrees(q, node, there, d),
           \/ Head(q).of # d /\ (d \in node1 <=> d \in node)
           \/ Head(q).of = d /\ (d \in node1 <=> Head(q).what = "add")
    PROVE  Agrees(Tail(q), node1, there, d)
  <1> DEFINE r == Tail(q)
  <1>1. /\ Len(q) \in Nat \ {0} /\ Len(r) = Len(q) - 1 /\ Head(q) = q[1]
        /\ \A i \in 1..Len(r) : r[i] = q[i + 1]
    BY HeadTailProperties, LenProperties, EmptySeq
  <1> HIDE DEF r
  <1>2. \A i \in 2..Len(q) : i - 1 \in 1..Len(r) /\ r[i - 1] = q[i]
    BY <1>1
  <1>3. CASE Silent(q, d) /\ (d \in node <=> d \in there)
    <2>1. q[1].of # d
      BY <1>1, <1>3 DEF Silent
    <2>2. Silent(r, d)
      BY <1>1, <1>3 DEF Silent
    <2> QED
      BY <1>1, <1>3, <2>1, <2>2 DEF Agrees, r
  <1>4. ASSUME NEW i \in 1..Len(q), q[i].of = d,
               \A j \in 1..Len(q) : j > i => q[j].of # d,
               q[i].what = "add" <=> d \in there
        PROVE  Agrees(r, node1, there, d)
    <2>1. CASE i = 1
      <3>1. Silent(r, d)
        BY <1>1, <1>4, <2>1 DEF Silent
      <3>2. d \in node1 <=> d \in there
        BY <1>1, <1>4, <2>1
      <3> QED
        BY <3>1, <3>2 DEF Agrees
    <2>2. CASE i # 1
      <3>1. i - 1 \in 1..Len(r) /\ r[i - 1] = q[i]
        BY <1>1, <1>2, <2>2
      <3>2. \A j \in 1..Len(r) : j > i - 1 => r[j].of # d
        BY <1>1, <1>4
      <3> QED
        BY <1>4, <3>1, <3>2 DEF Agrees
    <2> QED
      BY <2>1, <2>2
  <1> QED
    BY <1>3, <1>4 DEF Agrees, r

-----------------------------------------------------------------------------
(* The types of the parts.                                                 *)
DevType == [there : SUBSET Devices, req : [Firmware -> Request],
            queue : Seq(Events), lost : SUBSET Devices]

LoaderType == [at : LoaderSteps, booting : BOOLEAN]

UdType == [st : {"off", "deaf", "coldboot", "loop"},
           todo : SUBSET (Devices \union Firmware), node : SUBSET Devices, deaths : 0..MaxDeaths,
           loader : [Loaders -> LoaderType]]

FsType == [booting : BOOLEAN, coldboot_done : BOOLEAN,
           mounted : SUBSET {"system", "data"}]

LEMMA TypeParts ==
    /\ UdTypeOK <=> /\ dev \in DevType /\ ud \in UdType /\ fs \in FsType
                    /\ Len(dev.queue) <= NetlinkRoom
    /\ UdTypeOK' <=> /\ dev' \in DevType /\ ud' \in UdType /\ fs' \in FsType
                     /\ Len(dev'.queue) <= NetlinkRoom
  BY DEF UdTypeOK, DevType, UdType, FsType, LoaderType

LEMMA SentTyped ==
    ASSUME UdTypeOK, NEW e \in Events
    PROVE  /\ Sent(e) \in Seq(Events) /\ Len(Sent(e)) <= NetlinkRoom
           /\ dev.queue \in Seq(Events)
           /\ Sent(e) = IF Heard THEN Append(dev.queue, e) ELSE dev.queue
           /\ ~Listening => ~Heard
  <1>1. /\ dev.queue \in Seq(Events) /\ Len(dev.queue) \in Nat
        /\ Len(dev.queue) <= NetlinkRoom /\ NetlinkRoom \in Nat
    BY LenProperties, NetlinkHolds DEF UdTypeOK
  <1>2. Append(dev.queue, e) \in Seq(Events) /\ Len(Append(dev.queue, e)) = Len(dev.queue) + 1
    BY <1>1, AppendProperties
  <1> QED
    BY <1>1, <1>2 DEF Sent, Heard

(* A step that leaves the devices, the nodes and the queue as they are.    *)
LEMMA QuietFollow ==
    ASSUME NodesFollow, dev'.queue = dev.queue,
           dev'.there = dev.there, dev'.lost = dev.lost, ud'.st = ud.st,
           ud'.node = ud.node, ud'.todo = ud.todo,
           fs'.coldboot_done = fs.coldboot_done
    PROVE  NodesFollow'
  BY DEF NodesFollow, Listening, Agrees, Silent

(* A device comes or goes.                                                 *)
LEMMA HotplugKeeps ==
    ASSUME NodesInv, NEW d \in Devices, Hotplug(d)
    PROVE  NodesInv'
  <1> DEFINE e == [what |-> IF d \in dev.there THEN "remove" ELSE "add", of |-> d]
             t1 == IF d \in dev.there THEN dev.there \ {d} ELSE dev.there \union {d}
  <1>1. dev \in DevType /\ UdTypeOK /\ NodesFollow /\ ud' = ud /\ fs' = fs
    BY TypeParts DEF NodesInv, Hotplug
  <1>2. /\ e \in Events /\ e.of = d /\ e.what \in {"add", "remove"}
        /\ e.what = "add" <=> d \in t1
    BY DEF Events
  <1>3. dev' = [dev EXCEPT !.there = t1, !.queue = Sent(e), !.lost = Lost(e)]
    BY DEF Hotplug
  <1>4. t1 \in SUBSET Devices /\ \A c \in Devices \ {d} : c \in t1 <=> c \in dev.there
    BY <1>1 DEF DevType
  <1> HIDE DEF e, t1
  <1>5. /\ Sent(e) \in Seq(Events) /\ Len(Sent(e)) <= NetlinkRoom
        /\ dev.queue \in Seq(Events)
        /\ Sent(e) = IF Heard THEN Append(dev.queue, e) ELSE dev.queue
        /\ ~Listening => ~Heard
    BY <1>1, <1>2, SentTyped
  <1>6. Lost(e) \in SUBSET Devices
    BY <1>1, <1>2 DEF Lost, DevType
  <1>7. /\ dev'.there = t1 /\ dev'.queue = Sent(e) /\ dev'.lost = Lost(e)
        /\ dev' \in DevType
    BY <1>1, <1>3, <1>4, <1>5, <1>6, ZenonT(30) DEF DevType
  <1>8. UdTypeOK'
    BY <1>1, <1>5, <1>7, TypeParts
  <1>9. ASSUME NEW c \in Devices \ dev'.lost
        PROVE  /\ ~Listening /\ ~fs.coldboot_done => (c \in ud.node => c \in t1)
               /\ ~Listening /\ fs.coldboot_done => (c \in ud.node <=> c \in t1)
               /\ Listening => \/ Agrees(Sent(e), ud.node, t1, c)
                               \/ c \in ud.todo /\ c \in t1
    <2>1. CASE c = d /\ Heard
      <3>1. Agrees(Sent(e), ud.node, t1, c)
        BY <1>2, <1>5, <2>1, AgreesAppend
      <3> QED
        BY <1>5, <2>1, <3>1
    <2>2. CASE c = d /\ ~Heard
      <3>1. e.what = "add" /\ ~fs.coldboot_done /\ ~Listening
        BY <1>2, <1>7, <1>9, <2>2 DEF Lost
      <3> QED
        BY <1>2, <2>2, <3>1
    <2>3. CASE c # d
      <3>1. c \notin dev.lost
        BY <1>2, <1>7, <1>9, <2>3 DEF Lost
      <3>2. c \in t1 <=> c \in dev.there
        BY <1>4, <2>3
      <3>3. CASE Agrees(dev.queue, ud.node, dev.there, c)
        <4>1. Heard => Agrees(Sent(e), ud.node, t1, c)
          BY <1>2, <1>5, <2>3, <3>2, <3>3, AgreesAppend
        <4>2. ~Heard => Agrees(Sent(e), ud.node, t1, c)
          BY <1>5, <3>2, <3>3 DEF Agrees
        <4> QED
          BY <1>1, <3>1, <3>2, <4>1, <4>2 DEF NodesFollow, Listening
      <3>4. CASE ~Agrees(dev.queue, ud.node, dev.there, c)
        BY <1>1, <3>1, <3>2, <3>4 DEF NodesFollow, Listening
      <3> QED
        BY <3>3, <3>4
    <2> QED
      BY <2>1, <2>2, <2>3
  <1>10. ~Listening => dev'.queue = <<>>
    BY <1>1, <1>5, <1>7 DEF NodesFollow, Listening
  <1>11. NodesFollow'
    BY <1>1, <1>7, <1>9, <1>10 DEF NodesFollow, Listening
  <1> QED
    BY <1>8, <1>11 DEF NodesInv

(* An event about firmware is about no device.                             *)
LEMMA FirmwareEventKeeps ==
    ASSUME NodesInv, NEW f \in Firmware,
           dev'.queue = Sent([what |-> "firmware", of |-> f]),
           dev'.there = dev.there, dev'.lost = dev.lost, ud'.st = ud.st,
           ud'.node = ud.node, ud'.todo \subseteq ud.todo,
           ud.todo \intersect dev.there \subseteq ud'.todo \union Firmware,
           ud.st = "loop" => ud'.todo = {},
           fs'.coldboot_done = fs.coldboot_done
    PROVE  NodesFollow'
  <1> DEFINE e == [what |-> "firmware", of |-> f]
  <1>1. e \in Events /\ \A d \in Devices : e.of # d /\ d \notin Firmware
    BY DevicesAreNoFiles DEF Events
  <1> HIDE DEF e
  <1>2. /\ dev.queue \in Seq(Events) /\ (~Listening => ~Heard)
        /\ Sent(e) = IF Heard THEN Append(dev.queue, e) ELSE dev.queue
        /\ dev'.queue = Sent(e) /\ NodesFollow
    BY <1>1, SentTyped DEF NodesInv, e
  <1>3. ASSUME NEW d \in Devices, Agrees(dev.queue, ud.node, dev.there, d)
        PROVE  Agrees(Sent(e), ud.node, dev.there, d)
    <2>1. Agrees(Append(dev.queue, e), ud.node, dev.there, d)
      BY <1>1, <1>2, <1>3, AgreesAppend
    <2> QED
      BY <1>2, <1>3, <2>1
  <1> QED
    BY <1>1, <1>2, <1>3 DEF NodesFollow, Listening

LEMMA RequestFirmwareKeeps ==
    ASSUME NodesInv, NEW f \in Firmware, RequestFirmware(f)
    PROVE  NodesInv'
  <1> DEFINE e == [what |-> "firmware", of |-> f]
             r1 == [dev.req EXCEPT ![f] = [st |-> "pending", error |-> FALSE]]
  <1>1. dev \in DevType /\ UdTypeOK /\ ud' = ud /\ fs' = fs
    BY TypeParts DEF NodesInv, RequestFirmware
  <1>2. e \in Events
    BY DEF Events
  <1>3. dev' = [dev EXCEPT !.req = r1, !.queue = Sent(e)]
    <2>1. dev' = [dev EXCEPT !.req[f] = [st |-> "pending", error |-> FALSE],
                             !.queue = Sent(e)]
      BY DEF RequestFirmware
    <2> QED
      BY <2>1
  <1>4. r1 \in [Firmware -> Request]
    BY <1>1 DEF DevType, Request
  <1>5. Sent(e) \in Seq(Events) /\ Len(Sent(e)) <= NetlinkRoom
    BY <1>1, <1>2, SentTyped
  <1> HIDE DEF r1
  <1>6. /\ dev' \in DevType /\ dev'.queue = Sent(e)
        /\ dev'.there = dev.there /\ dev'.lost = dev.lost
    BY <1>1, <1>3, <1>4, <1>5, ZenonT(30) DEF DevType
  <1>7. UdTypeOK'
    BY <1>1, <1>5, <1>6, TypeParts
  <1>8. NodesFollow'
    <2>1. ud.st = "loop" => ud.todo = {}
      BY DEF NodesInv, NodesFollow, Listening
    <2> QED
      BY <1>1, <1>6, <2>1, FirmwareEventKeeps
  <1> QED
    BY <1>7, <1>8 DEF NodesInv

(* ueventd starts: what coldboot has to do is what is there.               *)
LEMMA DeviceInitKeeps ==
    ASSUME NodesInv, device_init
    PROVE  NodesInv'
  <1> DEFINE st1 == IF fs.coldboot_done THEN "loop" ELSE "coldboot"
             todo1 == IF fs.coldboot_done THEN {}
                      ELSE dev.there \union {f \in Firmware : Waiting(f)}
  <1>1. /\ dev \in DevType /\ ud \in UdType /\ UdTypeOK /\ NodesFollow
        /\ dev' = dev /\ fs' = fs /\ ud.st = "off"
    BY TypeParts DEF NodesInv, device_init
  <1>d. CASE ud' = [ud EXCEPT !.st = "deaf"]
    <2>1. /\ ud' \in UdType /\ ud'.st = "deaf" /\ ud'.todo = ud.todo
          /\ ud'.node = ud.node
      BY <1>1, <1>d DEF UdType
    <2>2. UdTypeOK'
      BY <1>1, <2>1, TypeParts
    <2>3. NodesFollow'
      BY <1>1, <2>1 DEF NodesFollow, Listening
    <2> QED
      BY <2>2, <2>3 DEF NodesInv
  <1>e. SUFFICES ASSUME ud' = [ud EXCEPT !.st = st1, !.todo = todo1] PROVE NodesInv'
    BY <1>d DEF device_init
  <1>2. todo1 \in SUBSET (Devices \union Firmware) /\ st1 \in {"off", "deaf", "coldboot", "loop"}
    BY <1>1 DEF DevType
  <1>3. /\ ud' \in UdType /\ ud'.st = st1 /\ ud'.todo = todo1 /\ ud'.node = ud.node
    BY <1>1, <1>e, <1>2, Zenon DEF UdType
  <1>4. UdTypeOK'
    BY <1>1, <1>3, TypeParts
  <1>5. \A d \in Devices : Silent(dev.queue, d)
    BY <1>1 DEF Silent, NodesFollow, Listening
  <1>6. ASSUME NEW d \in Devices \ dev.lost
        PROVE  \/ Agrees(dev.queue, ud.node, dev.there, d)
               \/ d \in todo1 /\ d \in dev.there
    <2>1. CASE d \in ud.node <=> d \in dev.there
      BY <1>5, <2>1 DEF Agrees
    <2>2. CASE ~(d \in ud.node <=> d \in dev.there)
      <3>1. ~fs.coldboot_done /\ d \in dev.there
        BY <1>1, <2>2 DEF NodesFollow, Listening
      <3> QED
        BY <3>1
    <2> QED
      BY <2>1, <2>2
  <1>7. NodesFollow'
    BY <1>1, <1>3, <1>6 DEF NodesFollow, Listening
  <1> QED
    BY <1>4, <1>7 DEF NodesInv

LEMMA ColdbootDoneKeeps ==
    ASSUME NodesInv, ColdbootDone
    PROVE  NodesInv'
  <1>1. /\ dev \in DevType /\ ud \in UdType /\ fs \in FsType /\ UdTypeOK /\ NodesFollow
        /\ dev' = dev /\ ud.st = "coldboot" /\ ud.todo = {}
        /\ ud' = [ud EXCEPT !.st = "loop"]
        /\ fs' = [fs EXCEPT !.coldboot_done = TRUE]
    BY TypeParts DEF NodesInv, ColdbootDone
  <1>2. /\ ud' \in UdType /\ ud'.st = "loop" /\ ud'.todo = ud.todo /\ ud'.node = ud.node
    BY <1>1 DEF UdType
  <1>3. fs' \in FsType /\ fs'.coldboot_done = TRUE
    BY <1>1, ZenonT(30) DEF FsType
  <1>4. UdTypeOK'
    BY <1>1, <1>2, <1>3, TypeParts
  <1>5. NodesFollow'
    BY <1>1, <1>2, <1>3 DEF NodesFollow, Listening
  <1> QED
    BY <1>4, <1>5 DEF NodesInv

(* One directory of coldboot: the event it sends finds room.               *)
LEMMA ColdbootKeeps ==
    ASSUME NodesInv, NEW x \in Devices \union Firmware, do_coldboot(x)
    PROVE  NodesInv'
  <1>1. /\ dev \in DevType /\ ud \in UdType /\ fs \in FsType /\ UdTypeOK /\ NodesFollow
        /\ fs' = fs /\ ud.st = "coldboot" /\ dev.queue = <<>> /\ x \in ud.todo
        /\ ud' = [ud EXCEPT !.todo = @ \ {x}]
    BY TypeParts DEF NodesInv, do_coldboot
  <1>2. /\ ud' \in UdType /\ ud'.st = ud.st /\ ud'.todo = ud.todo \ {x}
        /\ ud'.node = ud.node
    BY <1>1 DEF UdType
  <1>3. CASE x \in dev.there
    <2> DEFINE e == [what |-> "add", of |-> x]
    <2>1. x \in Devices
      BY <1>1, <1>3 DEF DevType
    <2>2. e \in Events /\ e.of = x /\ e.what = "add"
      BY <2>1 DEF Events
    <2>3. dev' = [dev EXCEPT !.queue = Sent(e), !.lost = Lost(e)]
      BY <1>3 DEF do_coldboot
    <2> HIDE DEF e
    <2>4. Heard
      BY <1>1, NetlinkHolds DEF Heard, Listening
    <2>5. /\ Sent(e) \in Seq(Events) /\ Len(Sent(e)) <= NetlinkRoom
          /\ dev.queue \in Seq(Events) /\ Sent(e) = Append(dev.queue, e)
      BY <1>1, <2>2, <2>4, SentTyped
    <2>6. Lost(e) = dev.lost \ {x} /\ Lost(e) \in SUBSET Devices
      BY <1>1, <2>2, <2>4 DEF Lost, DevType
    <2>7. /\ dev'.there = dev.there /\ dev'.queue = Sent(e) /\ dev'.lost = Lost(e)
          /\ dev' \in DevType
      BY <1>1, <2>3, <2>5, <2>6, Zenon DEF DevType
    <2>8. UdTypeOK'
      BY <1>1, <1>2, <2>5, <2>7, TypeParts
    <2>9. ASSUME NEW d \in Devices \ dev'.lost
          PROVE  \/ Agrees(dev'.queue, ud.node, dev.there, d)
                 \/ d \in ud'.todo /\ d \in dev.there
      <3>1. CASE d = x
        BY <1>3, <2>2, <2>5, <2>7, <3>1, AgreesAppend
      <3>2. CASE d # x
        <4>1. d \notin dev.lost
          BY <2>6, <2>7, <2>9, <3>2
        <4>2. Agrees(dev.queue, ud.node, dev.there, d) =>
                Agrees(dev'.queue, ud.node, dev.there, d)
          BY <2>2, <2>5, <2>7, <3>2, AgreesAppend
        <4> QED
          BY <1>1, <1>2, <3>2, <4>1, <4>2 DEF NodesFollow, Listening
      <3> QED
        BY <3>1, <3>2
    <2>10. NodesFollow'
      BY <1>1, <1>2, <2>7, <2>9 DEF NodesFollow, Listening
    <2> QED
      BY <2>8, <2>10 DEF NodesInv
  <1>4. CASE x \notin dev.there /\ x \in Firmware /\ Waiting(x)
    <2> DEFINE e == [what |-> "firmware", of |-> x]
    <2>1. dev' = [dev EXCEPT !.queue = Sent(e)]
      BY <1>4 DEF do_coldboot
    <2>2. e \in Events
      BY <1>4 DEF Events
    <2>3. Sent(e) \in Seq(Events) /\ Len(Sent(e)) <= NetlinkRoom
      BY <1>1, <2>2, SentTyped
    <2>4. /\ dev'.there = dev.there /\ dev'.queue = Sent(e) /\ dev'.lost = dev.lost
          /\ dev' \in DevType
      BY <1>1, <2>1, <2>3 DEF DevType
    <2>5. UdTypeOK'
      BY <1>1, <1>2, <2>3, <2>4, TypeParts
    <2>6. NodesFollow'
      BY <1>1, <1>2, <1>4, <2>4, FirmwareEventKeeps
    <2> QED
      BY <2>5, <2>6 DEF NodesInv
  <1>5. CASE x \notin dev.there /\ ~(x \in Firmware /\ Waiting(x))
    <2>1. dev' = dev
      BY <1>5 DEF do_coldboot
    <2>2. UdTypeOK'
      BY <1>1, <1>2, <2>1, TypeParts
    <2>3. NodesFollow'
      BY <1>1, <1>2, <1>5, <2>1 DEF NodesFollow, Listening
    <2> QED
      BY <2>2, <2>3 DEF NodesInv
  <1> QED
    BY <1>3, <1>4, <1>5

(* One event is handled.                                                   *)
LEMMA HandleKeeps ==
    ASSUME NodesInv, handle_device_fd
    PROVE  NodesInv'
  <1> DEFINE e == Head(dev.queue)
  <1>1. /\ dev \in DevType /\ ud \in UdType /\ fs \in FsType /\ UdTypeOK /\ NodesFollow
        /\ fs' = fs /\ Listening /\ dev.queue # <<>>
        /\ dev' = [dev EXCEPT !.queue = Tail(@)]
    BY TypeParts DEF NodesInv, handle_device_fd
  <1>2. /\ dev.queue \in Seq(Events) /\ e \in Events
        /\ Tail(dev.queue) \in Seq(Events) /\ Len(Tail(dev.queue)) = Len(dev.queue) - 1
        /\ Len(dev.queue) \in Nat /\ Len(dev.queue) <= NetlinkRoom /\ NetlinkRoom \in Nat
    BY <1>1, HeadTailProperties, LenProperties, TypeParts, NetlinkHolds DEF DevType
  <1>3. /\ dev'.there = dev.there /\ dev'.queue = Tail(dev.queue) /\ dev'.lost = dev.lost
        /\ dev' \in DevType /\ Len(dev'.queue) <= NetlinkRoom
    <2>1. dev' \in DevType /\ dev'.queue = Tail(dev.queue)
      BY <1>1, <1>2, Zenon DEF DevType
    <2>2. dev'.there = dev.there /\ dev'.lost = dev.lost
      BY <1>1 DEF DevType
    <2>3. Len(Tail(dev.queue)) <= NetlinkRoom
      BY <1>2
    <2> QED
      BY <2>1, <2>2, <2>3
  <1>4. /\ e.what \in {"add", "remove"} => e.of \in Devices
        /\ e.what \in {"add", "remove", "firmware"}
        /\ e.what = "firmware" => e.of \notin Devices
    BY <1>2, DevicesAreNoFiles DEF Events
  <1>5. /\ ud' \in UdType /\ ud'.st = ud.st /\ ud'.todo = ud.todo
        /\ \A d \in Devices : \/ e.of # d /\ (d \in ud'.node <=> d \in ud.node)
                              \/ e.of = d /\ (d \in ud'.node <=> e.what = "add")
    <2>1. CASE e.what = "firmware" /\ Waiting(e.of)
      <3> DEFINE l == NewLoader(e.of)
                 x == [at |-> "try", booting |-> fs.booting]
      <3>1. ud' = [ud EXCEPT !.loader[l] = x]
        BY <2>1 DEF handle_device_fd
      <3>2. x \in LoaderType
        BY <1>1 DEF FsType, LoaderType, LoaderSteps
      <3> HIDE DEF l, x
      <3>3. ud' = [ud EXCEPT !.loader = [ud.loader EXCEPT ![l] = x]]
        BY <3>1
      <3>4. [ud.loader EXCEPT ![l] = x] \in [Loaders -> LoaderType]
        BY <1>1, <3>2, ZenonT(30) DEF UdType
      <3>5. /\ ud' \in UdType /\ ud'.st = ud.st /\ ud'.todo = ud.todo
            /\ ud'.node = ud.node
        BY <1>1, <3>3, <3>4 DEF UdType
      <3> QED
        BY <1>4, <2>1, <3>5
    <2>2. CASE e.what = "firmware" /\ ~Waiting(e.of)
      <3>1. ud' = ud
        BY <2>2 DEF handle_device_fd, handle_device_event
      <3> QED
        BY <1>1, <1>4, <2>2, <3>1
    <2>3. CASE e.what = "add"
      <3>1. ud' = [ud EXCEPT !.node = @ \union {e.of}]
        BY <2>3 DEF handle_device_fd, handle_device_event
      <3> HIDE DEF e
      <3> QED
        BY <1>1, <1>4, <2>3, <3>1 DEF UdType
    <2>4. CASE e.what = "remove"
      <3>1. ud' = [ud EXCEPT !.node = @ \ {e.of}]
        BY <2>4 DEF handle_device_fd, handle_device_event
      <3> HIDE DEF e
      <3> QED
        BY <1>1, <1>4, <2>4, <3>1 DEF UdType
    <2> QED
      BY <1>4, <2>1, <2>2, <2>3, <2>4
  <1>6. UdTypeOK'
    BY <1>1, <1>3, <1>5, TypeParts
  <1>7. ASSUME NEW d \in Devices, Agrees(dev.queue, ud.node, dev.there, d)
        PROVE  Agrees(dev'.queue, ud'.node, dev.there, d)
    BY <1>1, <1>2, <1>3, <1>5, <1>7, AgreesTail
  <1>8. NodesFollow'
    BY <1>1, <1>3, <1>5, <1>7 DEF NodesFollow, Listening
  <1> QED
    BY <1>6, <1>8 DEF NodesInv

(* ueventd dies, and the events it had not handled are lost.               *)
LEMMA DieKeeps ==
    ASSUME NodesInv, Die
    PROVE  NodesInv'
  <1> DEFINE gone == {d \in Devices : \E i \in DOMAIN dev.queue :
                        /\ dev.queue[i].of = d
                        /\ dev.queue[i].what = "remove" \/ fs.coldboot_done}
  <1>1. /\ dev \in DevType /\ ud \in UdType /\ fs \in FsType /\ UdTypeOK /\ NodesFollow
        /\ fs' = fs /\ ud.st # "off" /\ ud.deaths < MaxDeaths
        /\ ud' = [ud EXCEPT !.st = "off", !.todo = {}, !.deaths = @ + 1]
        /\ dev' = [dev EXCEPT !.queue = <<>>, !.lost = @ \union gone]
    BY TypeParts DEF NodesInv, Die
  <1>2. gone \in SUBSET Devices
    OBVIOUS
  <1>3. /\ dev.queue \in Seq(Events) /\ DOMAIN dev.queue = 1..Len(dev.queue)
        /\ Len(dev.queue) \in Nat
        /\ \A i \in 1..Len(dev.queue) : dev.queue[i] \in Events
    BY <1>1, LenProperties, ElementOfSeq DEF DevType
  <1>4. \A d \in Devices \ gone : \A i \in 1..Len(dev.queue) :
          dev.queue[i].of = d => dev.queue[i].what = "add" /\ ~fs.coldboot_done
    <2> SUFFICES ASSUME NEW d \in Devices \ gone, NEW i \in 1..Len(dev.queue),
                        dev.queue[i].of = d
                 PROVE  dev.queue[i].what = "add" /\ ~fs.coldboot_done
      OBVIOUS
    <2>1. dev.queue[i].what # "remove" /\ ~fs.coldboot_done
      BY <1>3
    <2>2. dev.queue[i] \in Events
      BY <1>3
    <2>3. dev.queue[i].what \in {"add", "remove"}
      BY <2>2, DevicesAreNoFiles DEF Events
    <2> QED
      BY <2>1, <2>3
  <1> HIDE DEF gone
  <1>5. /\ dev'.there = dev.there /\ dev'.queue = <<>> /\ dev'.lost = dev.lost \union gone
        /\ dev' \in DevType /\ Len(dev'.queue) <= NetlinkRoom
    <2>1. dev' = [dev EXCEPT !.queue = <<>>, !.lost = @ \union gone]
      BY <1>1
    <2>2. <<>> \in Seq(Events) /\ Len(<<>>) = 0 /\ 0 <= NetlinkRoom
      BY NetlinkHolds
    <2>3. dev.lost \union gone \in SUBSET Devices
      BY <1>1, <1>2 DEF DevType
    <2>4. /\ dev' \in DevType /\ dev'.queue = <<>>
          /\ dev'.there = dev.there /\ dev'.lost = dev.lost \union gone
      BY <1>1, <2>1, <2>2, <2>3, Zenon DEF DevType
    <2> QED
      BY <2>2, <2>4
  <1>6. /\ ud' \in UdType /\ ud'.st = "off" /\ ud'.node = ud.node
    <2>1. ud' = [ud EXCEPT !.st = "off", !.todo = {}, !.deaths = @ + 1]
      BY <1>1
    <2>2. ud.deaths + 1 \in 0..MaxDeaths
      BY <1>1, DeathsAreCounted DEF UdType
    <2> QED
      BY <1>1, <2>1, <2>2, Zenon DEF UdType
  <1>7. UdTypeOK'
    BY <1>1, <1>5, <1>6, TypeParts
  <1>8. ASSUME NEW d \in Devices \ dev'.lost
        PROVE  /\ ~fs.coldboot_done => (d \in ud.node => d \in dev.there)
               /\ fs.coldboot_done => (d \in ud.node <=> d \in dev.there)
    <2>1. d \notin dev.lost /\ d \notin gone
      BY <1>5, <1>8
    <2>2. CASE Listening
      <3>1. \/ Agrees(dev.queue, ud.node, dev.there, d)
            \/ d \in ud.todo /\ d \in dev.there
        BY <1>1, <2>1, <2>2 DEF NodesFollow
      <3>2. fs.coldboot_done => ud.todo = {}
        BY <1>1, <2>2 DEF NodesFollow, Listening, UdType
      <3> QED
        BY <1>4, <2>1, <3>1, <3>2 DEF Agrees
    <2>3. CASE ~Listening
      BY <1>1, <2>1, <2>3 DEF NodesFollow
    <2> QED
      BY <2>2, <2>3
  <1>9. NodesFollow'
    BY <1>1, <1>5, <1>6, <1>8 DEF NodesFollow, Listening
  <1> QED
    BY <1>7, <1>9 DEF NodesInv

-----------------------------------------------------------------------------
(* The loaders change only their own state and the requests.               *)
LEMMA MoveKeeps ==
    ASSUME UdTypeOK, NEW l, NEW from, NEW to \in LoaderType, Move(l, from, to)
    PROVE  /\ ud' \in UdType /\ ud'.st = ud.st /\ ud'.todo = ud.todo
           /\ ud'.node = ud.node
  <1>1. ud \in UdType /\ ud' = [ud EXCEPT !.loader = [ud.loader EXCEPT ![l] = to]]
    BY TypeParts DEF Move
  <1>2. [ud.loader EXCEPT ![l] = to] \in [Loaders -> LoaderType]
    BY <1>1, Zenon DEF UdType
  <1> QED
    BY <1>1, <1>2 DEF UdType

LEMMA AnswerKeeps ==
    ASSUME UdTypeOK, NEW r1 \in [Firmware -> Request],
           dev' = dev \/ dev' = [dev EXCEPT !.req = r1]
    PROVE  /\ dev' \in DevType /\ dev'.queue = dev.queue
           /\ dev'.there = dev.there /\ dev'.lost = dev.lost
           /\ Len(dev'.queue) <= NetlinkRoom
  <1>1. dev \in DevType /\ Len(dev.queue) <= NetlinkRoom
    BY TypeParts
  <1>2. CASE dev' = dev
    BY <1>1, <1>2
  <1>3. CASE dev' = [dev EXCEPT !.req = r1]
    <2>1. /\ dev' \in DevType /\ dev'.queue = dev.queue
          /\ dev'.there = dev.there /\ dev'.lost = dev.lost
      BY <1>1, <1>3 DEF DevType
    <2> QED
      BY <1>1, <2>1
  <1> QED
    BY <1>2, <1>3

LEMMA LoaderKeeps ==
    ASSUME NodesInv, NEW l \in Loaders, TryOpen(l) \/ Wake(l) \/ load_firmware(l)
    PROVE  NodesInv'
  <1>1. /\ UdTypeOK /\ NodesFollow /\ dev \in DevType /\ ud \in UdType /\ fs \in FsType
        /\ l[1] \in Firmware /\ ud.loader[l] \in LoaderType
    BY TypeParts DEF NodesInv, Loaders, UdType
  <1>2. ASSUME NEW from, NEW to \in LoaderType, Move(l, from, to),
               NEW r1 \in [Firmware -> Request],
               dev' = dev \/ dev' = [dev EXCEPT !.req = r1], fs' = fs
        PROVE  NodesInv'
    <2>1. /\ ud' \in UdType /\ ud'.st = ud.st /\ ud'.todo = ud.todo
          /\ ud'.node = ud.node
      BY <1>1, <1>2, MoveKeeps
    <2>2. /\ dev' \in DevType /\ dev'.queue = dev.queue
          /\ dev'.there = dev.there /\ dev'.lost = dev.lost
          /\ Len(dev'.queue) <= NetlinkRoom
      BY <1>1, <1>2, AnswerKeeps
    <2>3. UdTypeOK'
      BY <1>1, <1>2, <2>1, <2>2, TypeParts
    <2>4. NodesFollow'
      BY <1>1, <1>2, <2>1, <2>2, QuietFollow
    <2> QED
      BY <2>3, <2>4 DEF NodesInv
  <1>3. [dev.req EXCEPT ![l[1]].st = "failed"] \in [Firmware -> Request]
    BY <1>1 DEF DevType, Request
  <1>4. dev.req \in [Firmware -> Request] /\ dev.req[l[1]] \in Request
    BY <1>1, ZenonT(30) DEF DevType
  <1>a. ASSUME NEW st \in {"idle", "pending", "loading", "done", "failed"},
               NEW error \in BOOLEAN, Tell(l[1], st, error),
               NEW from, NEW to \in LoaderType, Move(l, from, to), fs' = fs
        PROVE  NodesInv'
    <2> DEFINE r == [st |-> st, error |-> dev.req[l[1]].error \/ error]
               r1 == [dev.req EXCEPT ![l[1]] = r]
    <2>1. r \in Request
      BY <1>4 DEF Request
    <2>2. dev' = dev \/ dev' = [dev EXCEPT !.req = r1]
      BY <1>a DEF Tell
    <2> HIDE DEF r
    <2>3. r1 \in [Firmware -> Request]
      BY <1>1, <1>4, <2>1
    <2> QED
      BY <1>2, <1>a, <2>2, <2>3
  <1>5. NoLoader \in LoaderType
    BY DEF NoLoader, LoaderType, LoaderSteps
  <1>6. CASE Wake(l)
    <2>1. [at |-> "try", booting |-> fs.booting] \in LoaderType
      BY <1>1 DEF LoaderType, LoaderSteps, FsType
    <2> QED
      BY <1>2, <1>4, <1>6, <2>1 DEF Wake
  <1>7. CASE TryOpen(l)
    <2> DEFINE booting == ud.loader[l].booting
               found == "system" \in fs.mounted
               to == IF found THEN [at |-> "begin", booting |-> booting]
                     ELSE IF booting THEN [at |-> "sleep", booting |-> booting]
                     ELSE NoLoader
    <2>1. to \in LoaderType
      BY <1>1, <1>5 DEF LoaderType, LoaderSteps
    <2>2. /\ Move(l, "try", to) /\ fs' = fs
          /\ dev' = dev \/ dev' = [dev EXCEPT !.req[l[1]].st = "failed"]
      BY <1>7 DEF TryOpen
    <2> HIDE DEF to
    <2>3. dev' = dev \/ dev' = [dev EXCEPT !.req = [dev.req EXCEPT ![l[1]].st = "failed"]]
      BY <2>2
    <2> QED
      BY <1>2, <1>3, <2>1, <2>2, <2>3, ZenonT(30)
  <1>8. CASE LoadBegin(l)
    <2>1. [ud.loader[l] EXCEPT !.at = "copy"] \in LoaderType
      BY <1>1 DEF LoaderType, LoaderSteps
    <2>2. dev.req[l[1]].st \in {"idle", "pending", "loading", "done", "failed"}
      BY <1>4 DEF Request
    <2>3. CASE /\ Move(l, "begin", [ud.loader[l] EXCEPT !.at = "copy"])
               /\ Tell(l[1], "loading", FALSE)
      BY <1>8, <1>a, <2>1, <2>3 DEF LoadBegin
    <2>4. CASE /\ Move(l, "begin", NoLoader)
               /\ Tell(l[1], dev.req[l[1]].st, TRUE)
      BY <1>8, <1>a, <1>5, <2>2, <2>4 DEF LoadBegin
    <2> QED
      BY <1>8, <2>3, <2>4 DEF LoadBegin
  <1>9. CASE LoadCopy(l)
    <2>1. [ud.loader[l] EXCEPT !.at = "end"] \in LoaderType
      BY <1>1 DEF LoaderType, LoaderSteps
    <2>2. CASE Move(l, "copy", [ud.loader[l] EXCEPT !.at = "end"]) /\ UNCHANGED dev
      BY <1>9, <1>2, <1>4, <2>1, <2>2 DEF LoadCopy
    <2>3. CASE Move(l, "copy", NoLoader) /\ Tell(l[1], "failed", TRUE)
      BY <1>9, <1>a, <1>5, <2>3 DEF LoadCopy
    <2> QED
      BY <1>9, <2>2, <2>3 DEF LoadCopy
  <1>10. CASE LoadEnd(l)
    BY <1>10, <1>a, <1>5 DEF LoadEnd
  <1> QED
    BY <1>6, <1>7, <1>8, <1>9, <1>10 DEF load_firmware

-----------------------------------------------------------------------------
(* init, and the machine.                                                  *)

LEMMA BootKeeps ==
    ASSUME NEW S \in SUBSET Devices, NEW x \in BOOLEAN,
           dev' = DevicesAtBoot(S), ud' = UeventdAtBoot,
           fs' = [booting |-> x, coldboot_done |-> FALSE, mounted |-> {}]
    PROVE  NodesInv'
  <1>1. /\ dev' \in DevType /\ Len(dev'.queue) <= NetlinkRoom
        /\ dev'.there = S /\ dev'.queue = <<>>
    <2>1. [f \in Firmware |-> [st |-> "idle", error |-> FALSE]] \in [Firmware -> Request]
      BY DEF Request
    <2> QED
      BY <2>1, EmptySeq, NetlinkHolds DEF DevicesAtBoot, DevType
  <1>2. ud' \in UdType /\ ud'.st = "off" /\ ud'.todo = {} /\ ud'.node = {}
    <2>1. NoLoader \in LoaderType /\ 0 \in 0..MaxDeaths
      BY DeathsAreCounted DEF NoLoader, LoaderType, LoaderSteps
    <2> QED
      BY <2>1 DEF UeventdAtBoot, UdType
  <1>3. fs' \in FsType /\ fs'.coldboot_done = FALSE
    BY DEF FsType
  <1>4. UdTypeOK'
    BY <1>1, <1>2, <1>3, TypeParts
  <1>5. NodesFollow'
    BY <1>1, <1>2, <1>3 DEF NodesFollow, Listening
  <1> QED
    BY <1>4, <1>5 DEF NodesInv

LEMMA MountKeeps ==
    ASSUME NodesInv, dev' = dev, ud' = ud, fs' \in FsType,
           fs'.coldboot_done = fs.coldboot_done
    PROVE  NodesInv'
  <1>1. UdTypeOK'
    BY TypeParts DEF NodesInv
  <1>2. NodesFollow'
    BY QuietFollow DEF NodesInv
  <1> QED
    BY <1>1, <1>2 DEF NodesInv

LEMMA StopKeeps ==
    ASSUME NEW reached, NEW safe, Stop(reached, safe)
    PROVE  NodesInv'
  BY BootKeeps, Zenon DEF Stop

LEMMA RunKeeps ==
    ASSUME NodesInv, NEW s, NEW c, Run(s, c)
    PROVE  NodesInv' /\ plan' = plan
  <1>1. fs \in FsType
    BY TypeParts DEF NodesInv
  <1>2. ASSUME InitOnly PROVE NodesInv' /\ plan' = plan
    BY <1>1, <1>2, MountKeeps DEF InitOnly
  <1>3. ASSUME NEW reached, NEW safe, Stop(reached, safe)
        PROVE  NodesInv' /\ plan' = plan
    BY <1>3, StopKeeps DEF Stop
  <1>4. CASE do_powerctl(s, c.n)
    BY <1>2, <1>3, <1>4 DEF do_powerctl
  <1>5. CASE check_startup(s)
    <2>1. CASE Crash
      BY <1>3, <2>1 DEF Crash
    <2>2. CASE fs' = [fs EXCEPT !.booting = FALSE] /\ UNCHANGED <<plan, disk, dev, ud>>
      <3>1. fs' \in FsType /\ fs'.coldboot_done = fs.coldboot_done
        BY <1>1, <2>2, Zenon DEF FsType
      <3> QED
        BY <2>2, <3>1, MountKeeps
    <2> QED
      BY <1>5, <2>1, <2>2 DEF check_startup
  <1>6. CASE do_mount_all(s) /\ UNCHANGED <<plan, disk, dev, ud>>
    <2>1. \/ fs' = [fs EXCEPT !.mounted = @ \union {"system"}]
          \/ fs' = [fs EXCEPT !.mounted = {"system", "data"}]
          \/ fs' = fs
      BY <1>6 DEF do_mount_all
    <2>2. fs' \in FsType /\ fs'.coldboot_done = fs.coldboot_done
      BY <1>1, <2>1 DEF FsType
    <2> QED
      BY <1>6, <2>2, MountKeeps
  <1> QED
    BY <1>2, <1>4, <1>5, <1>6 DEF Run

(* The invariant: the device is one of those of the plans, and its nodes   *)
(* follow.                                                                 *)
BootInv == plan \in DOMAIN Plans /\ NodesInv

LEMMA InitNodes ==
    ASSUME Init
    PROVE  BootInv
  <1>1. /\ dev = DevicesAtBoot({}) /\ ud = UeventdAtBoot
        /\ fs = [booting |-> FALSE, coldboot_done |-> FALSE, mounted |-> {}]
    BY DEF Init
  <1>2. dev \in DevType /\ Len(dev.queue) <= NetlinkRoom /\ dev.queue = <<>>
    <2>1. [f \in Firmware |-> [st |-> "idle", error |-> FALSE]] \in [Firmware -> Request]
      BY DEF Request
    <2> QED
      BY <1>1, <2>1, EmptySeq, NetlinkHolds DEF DevicesAtBoot, DevType
  <1>3. ud \in UdType /\ ud.st = "off" /\ ud.node = {}
    <2>1. NoLoader \in LoaderType /\ 0 \in 0..MaxDeaths
      BY DeathsAreCounted DEF NoLoader, LoaderType, LoaderSteps
    <2> QED
      BY <1>1, <2>1 DEF UeventdAtBoot, UdType
  <1>4. fs \in FsType /\ fs.coldboot_done = FALSE
    BY <1>1 DEF FsType
  <1>5. UdTypeOK
    BY <1>2, <1>3, <1>4, TypeParts
  <1>6. NodesFollow
    BY <1>2, <1>3, <1>4 DEF NodesFollow, Listening
  <1> QED
    BY <1>5, <1>6 DEF BootInv, NodesInv, Init

LEMMA NextNodes ==
    ASSUME BootInv, [Next]_vars
    PROVE  BootInv'
  <1>1. /\ plan \in DOMAIN Plans /\ NodesInv /\ fs \in FsType
        /\ This.devices \subseteq Devices /\ This.hotplug \subseteq Devices
        /\ This.firmware \subseteq Firmware
    BY TypeParts, PlansAssumption DEF BootInv, NodesInv, This
  <1>2. SUFFICES NodesInv' /\ plan' = plan
    BY <1>1 DEF BootInv
  <1>3. ASSUME InitOnly PROVE NodesInv' /\ plan' = plan
    BY <1>1, <1>3, MountKeeps DEF InitOnly
  <1>4. CASE main
    BY <1>1, <1>4, BootKeeps, Zenon DEF main
  <1>5. CASE execute_one_command
    <2> DEFINE s == [NextCommand EXCEPT !.pc = "poll"]
               c == Commands(s.cur)[s.cmd]
    <2>1. \/ b' = s /\ InitOnly
          \/ \E w \in WritesOf(c.op) : Run([s EXCEPT !.writes = w], c)
      BY <1>5 DEF execute_one_command
    <2> HIDE DEF s, c
    <2> QED
      BY <1>1, <1>3, <2>1, RunKeeps
  <1>6. CASE PollTimeout \/ Client \/ VoldLoad
    BY <1>3, <1>6, ZenonT(30) DEF PollTimeout, Client, VoldLoad, handle_property_set_fd
  <1>7. CASE VoldMount
    <2>1. /\ fs' \in FsType /\ fs'.coldboot_done = fs.coldboot_done
          /\ dev' = dev /\ ud' = ud /\ plan' = plan
      BY <1>1, <1>7 DEF VoldMount, FsType
    <2> QED
      BY <1>1, <2>1, MountKeeps
  <1>8. CASE Ueventd
    BY <1>1, <1>8, DeviceInitKeeps, ColdbootKeeps, ColdbootDoneKeeps, HandleKeeps
       DEF Ueventd, Beside
  <1>9. ASSUME NEW l \in Loaders, Loader(l) PROVE NodesInv' /\ plan' = plan
    BY <1>1, <1>9, LoaderKeeps DEF Loader, Beside
  <1>10. CASE Kernel
    <2>1. plan' = plan
      BY <1>10 DEF Kernel, Beside
    <2>2. \/ \E d \in Devices : Hotplug(d)
          \/ \E f \in Firmware : RequestFirmware(f)
          \/ Die
      BY <1>1, <1>10 DEF Kernel
    <2> QED
      BY <1>1, <2>1, <2>2, HotplugKeeps, RequestFirmwareKeeps, DieKeeps
  <1>11. CASE Writeback \/ UNCHANGED vars
    BY <1>1, <1>11, MountKeeps DEF Writeback, vars, udvars
  <1>12. CASE PowerCut
    BY <1>12, StopKeeps DEF PowerCut, Crash, Stop
  <1> QED
    BY <1>4, <1>5, <1>6, <1>7, <1>8, <1>9, <1>10, <1>11, <1>12 DEF Next, InitLoop

(* Device nodes: whatever comes and goes, before ueventd runs, during its  *)
(* coldboot, while it handles events and when it dies at any of these      *)
(* points, and wherever the machine is stopped, ueventd with no event left *)
(* has a node for exactly the devices that are there, except for events    *)
(* that the kernel could not deliver after coldboot.                       *)
THEOREM NodesFollowDevices == Spec => []NodesAgree
  <1>1. BootInv => NodesAgree
    <2>1. SUFFICES ASSUME BootInv, ud.st = "loop", dev.queue = <<>>,
                          NEW d \in Devices \ dev.lost
                   PROVE  d \in ud.node <=> d \in dev.there
      BY DEF NodesAgree
    <2>2. Agrees(dev.queue, ud.node, dev.there, d)
      BY <2>1 DEF BootInv, NodesInv, NodesFollow, Listening
    <2>3. \A i \in 1..Len(dev.queue) : FALSE
      BY <2>1, EmptySeq
    <2> QED
      BY <2>2, <2>3 DEF Agrees
  <1> QED
    BY <1>1, InitNodes, NextNodes, PTL DEF Spec
=============================================================================
