---------------------------- MODULE PfcHopProofs ----------------------------
(***************************************************************************)
(* Safety of a PFC hop for any number of upstream ports and egress queues, *)
(* any thresholds, packet time and delays.  The lemmas about one port come *)
(* from LosslessOutputQueueProofs.  Three parts: what holds between the    *)
(* two ends of a link, what an input queue counts, how much it can hold.   *)
(***************************************************************************)
EXTENDS PfcHop, FiniteSetTheorems, FunctionTheorems, SequenceTheorems, TLAPS

(* The lemmas about one port; they mention neither its variable nor its    *)
(* bound.                                                                  *)
L == INSTANCE LosslessOutputQueueProofs
        WITH Tags <- Up \cup Egress, MaxBacklog <- 0, port <- EmptyQueue

(***************************************************************************)
(* One port                                                                *)
(***************************************************************************)

PortOK(q) == q \in Queue /\ OneService(q) /\ StateMatchesService(q)

(* A port of the hop is a port of LosslessOutputQueueProofs. *)
LEMMA SamePort == ASSUME NEW q PROVE PortOK(q) <=> L!PortOK(q)
  BY DEF PortOK, L!PortOK, Queue, L!Queue, SendStates, L!SendStates,
         OneService, L!OneService, StateMatchesService, L!StateMatchesService

LEMMA SameTime == L!TxAssumption /\ L!BacklogAssumption
  BY PfcAssumption DEF L!TxAssumption, L!BacklogAssumption

LEMMA EmptyPort == PortOK(EmptyQueue)
  <1>1. EmptyQueue = L!EmptyQueue
    BY DEF EmptyQueue, L!EmptyQueue
  <1> QED BY <1>1, SamePort, SameTime, L!EmptyOK

LEMMA PausedPort ==
    ASSUME NEW q, PortOK(q)
    PROVE  /\ PortOK(ReceivePause(q))
           /\ ReceivePause(q).enqueued = q.enqueued
           /\ ReceivePause(q).state_send # "READY"
  <1>1. ReceivePause(q) = L!ReceivePause(q)
    BY DEF ReceivePause, L!ReceivePause
  <1>2. PortOK(ReceivePause(q))
    BY <1>1, SamePort, SameTime, L!PauseOK
  <1> QED BY <1>2 DEF ReceivePause, PortOK, Queue

LEMMA ResumedPort ==
    ASSUME NEW q, PortOK(q)
    PROVE  /\ PortOK(ReceiveResume(q))
           /\ ReceiveResume(q).enqueued = q.enqueued
           /\ ReceiveResume(q).state_send = "READY"
  <1>1. ReceiveResume(q) = L!ReceiveResume(q)
    BY DEF ReceiveResume, L!ReceiveResume, BeginService, L!BeginService
  <1>2. PortOK(ReceiveResume(q))
    BY <1>1, SamePort, SameTime, L!ResumeOK
  <1> QED BY <1>2 DEF ReceiveResume, BeginService, PortOK, Queue

LEMMA PortWithPacket ==
    ASSUME NEW q, PortOK(q), NEW tag \in Up \cup Egress
    PROVE  /\ PortOK(ReceivePacket(q, tag))
           /\ ReceivePacket(q, tag).enqueued = Append(q.enqueued, tag)
           /\ ReceivePacket(q, tag).state_send = q.state_send
  <1>1. ReceivePacket(q, tag) = L!ReceivePacket(q, tag)
    BY DEF ReceivePacket, L!ReceivePacket, BeginService, L!BeginService
  <1>2. PortOK(ReceivePacket(q, tag))
    BY <1>1, SamePort, SameTime, L!PacketOK
  <1> QED BY <1>2 DEF ReceivePacket, BeginService, PortOK, Queue

LEMMA CompletedPort ==
    ASSUME NEW q, PortOK(q), ServiceDue(q)
    PROVE  /\ PortOK(CompleteService(q))
           /\ q.enqueued # <<>>
           /\ CompleteService(q).enqueued = Tail(q.enqueued)
           /\ CompleteService(q).state_send = "READY" <=> q.state_send = "READY"
  <1>1. CompleteService(q) = L!CompleteService(q)
    BY DEF CompleteService, L!CompleteService, BeginService, L!BeginService
  <1>2. ServiceDue(q) <=> L!ServiceDue(q)
    BY DEF ServiceDue, L!ServiceDue
  <1>3. /\ PortOK(CompleteService(q)) /\ q.sending
        /\ CompleteService(q).enqueued = Tail(q.enqueued)
    BY <1>1, <1>2, SamePort, SameTime, L!CompleteOK
  <1>4. CompleteService(q).state_send = "READY" <=> q.state_send = "READY"
    BY DEF CompleteService, BeginService, PortOK, Queue
  <1> QED BY <1>3, <1>4 DEF PortOK, OneService

LEMMA AgedPort ==
    ASSUME NEW q, PortOK(q), ~ServiceDue(q)
    PROVE  /\ PortOK(Age(q))
           /\ Age(q).enqueued = q.enqueued
           /\ Age(q).state_send = q.state_send
  <1>1. Age(q) = L!Age(q)
    BY DEF Age, L!Age
  <1>2. ServiceDue(q) <=> L!ServiceDue(q)
    BY DEF ServiceDue, L!ServiceDue
  <1> QED BY <1>1, <1>2, SamePort, SameTime, L!AgeOK

(***************************************************************************)
(* Pipes and wires: what entered first leaves first, so only the head can  *)
(* become due.                                                             *)
(***************************************************************************)

InOrder(s) == \A i, j \in 1 .. Len(s) : i <= j => s[i].left <= s[j].left

(* The records of a pipe with delay d, closed under the passage of time. *)
Timed(R, d) ==
    \A x \in R : /\ x.left \in 0 .. d
                 /\ x.left # 0 => /\ [x EXCEPT !.left = @ - 1] \in R
                                  /\ [x EXCEPT !.left = @ - 1].left = x.left - 1

LEMMA Enters ==
    ASSUME NEW R, NEW d \in Nat, Timed(R, d), NEW s \in Seq(R), InOrder(s),
           NEW x \in R, x.left = d
    PROVE  Append(s, x) \in Seq(R) /\ InOrder(Append(s, x))
  <1>1. /\ Append(s, x) \in Seq(R) /\ Len(Append(s, x)) = Len(s) + 1 /\ Len(s) \in Nat
        /\ \A i \in 1 .. Len(s) : Append(s, x)[i] = s[i]
        /\ Append(s, x)[Len(s) + 1] = x
    BY AppendProperties, LenProperties
  <1>2. \A i \in 1 .. Len(s) : s[i].left \in 0 .. d
    BY ElementOfSeq DEF Timed
  <1>3. ASSUME NEW i \in 1 .. Len(s) + 1, NEW j \in 1 .. Len(s) + 1, i <= j
        PROVE  Append(s, x)[i].left <= Append(s, x)[j].left
    <2>1. CASE j \in 1 .. Len(s)
      <3>1. i \in 1 .. Len(s)
        BY <1>1, <1>3, <2>1
      <3> QED BY <1>1, <1>3, <2>1, <3>1 DEF InOrder
    <2>2. CASE j = Len(s) + 1 /\ i \in 1 .. Len(s)
      BY <1>1, <1>2, <2>2
    <2>3. CASE j = Len(s) + 1 /\ i = Len(s) + 1
      BY <1>1, <2>3
    <2> QED BY <1>1, <2>1, <2>2, <2>3
  <1> QED BY <1>1, <1>3 DEF InOrder

LEMMA Leaves ==
    ASSUME NEW R, NEW s \in Seq(R), InOrder(s), s # <<>>
    PROVE  /\ Head(s) \in R /\ Head(s) = s[1]
           /\ Tail(s) \in Seq(R) /\ InOrder(Tail(s))
  <1>1. /\ Head(s) \in R /\ Tail(s) \in Seq(R) /\ Len(Tail(s)) = Len(s) - 1
        /\ \A i \in 1 .. Len(Tail(s)) : Tail(s)[i] = s[i + 1]
        /\ Len(s) \in Nat
    BY HeadTailProperties, LenProperties
  <1>2. ASSUME NEW i \in 1 .. Len(Tail(s)), NEW j \in 1 .. Len(Tail(s)), i <= j
        PROVE  Tail(s)[i].left <= Tail(s)[j].left
    <2>1. i + 1 \in 1 .. Len(s) /\ j + 1 \in 1 .. Len(s) /\ i + 1 <= j + 1
      BY <1>1, <1>2
    <2> QED BY <1>1, <1>2, <2>1 DEF InOrder
  <1>3. Head(s) = s[1]
    OBVIOUS
  <1> QED BY <1>1, <1>2, <1>3 DEF InOrder

LEMMA GetsOlder ==
    ASSUME NEW R, NEW d \in Nat, Timed(R, d), NEW s \in Seq(R), InOrder(s), ~Arrived(s)
    PROVE  /\ Aged(s) \in Seq(R) /\ InOrder(Aged(s)) /\ Len(Aged(s)) = Len(s)
           /\ \A i \in 1 .. Len(s) : Aged(s)[i] = [s[i] EXCEPT !.left = @ - 1]
  <1>1. Len(s) \in Nat /\ \A i \in 1 .. Len(s) : s[i] \in R /\ s[i].left \in 0 .. d
    BY LenProperties, ElementOfSeq DEF Timed
  <1>2. ASSUME NEW i \in 1 .. Len(s) PROVE s[i].left # 0
    <2>1. s # <<>> /\ 1 \in 1 .. Len(s) /\ 1 <= i
      BY <1>1
    <2>2. s[1].left # 0
      BY <2>1 DEF Arrived
    <2>3. s[1].left <= s[i].left
      BY <2>1 DEF InOrder
    <2> QED BY <1>1, <2>1, <2>2, <2>3
  <1>3. \A i \in 1 .. Len(s) :
            /\ [s[i] EXCEPT !.left = @ - 1] \in R
            /\ [s[i] EXCEPT !.left = @ - 1].left = s[i].left - 1
    BY <1>1, <1>2 DEF Timed
  <1>4. /\ Aged(s) \in Seq(R) /\ Len(Aged(s)) = Len(s)
        /\ \A i \in 1 .. Len(s) : Aged(s)[i] = [s[i] EXCEPT !.left = @ - 1]
    BY <1>1, <1>3 DEF Aged
  <1>5. ASSUME NEW i \in 1 .. Len(s), NEW j \in 1 .. Len(s), i <= j
        PROVE  Aged(s)[i].left <= Aged(s)[j].left
    <2>1. s[i].left <= s[j].left
      BY <1>5 DEF InOrder
    <2>2. Aged(s)[i].left = s[i].left - 1 /\ Aged(s)[j].left = s[j].left - 1
      BY <1>3, <1>4
    <2> QED BY <1>1, <2>1, <2>2
  <1> QED BY <1>4, <1>5 DEF InOrder

(***************************************************************************)
(* The state of a hop: ports of the two kinds, links, pipeline and wires.  *)
(***************************************************************************)

UpPort  == {q \in Queue : PortOK(q) /\ q.enqueued \in Seq(Egress)}
OutPort == {q \in Queue : PortOK(q) /\ q.enqueued \in Seq(Up)}

OnLink == [left : 0 .. LinkDelay, to : Egress]
Inside == [left : 0 .. SwitchDelay, from : Up, to : Egress]
Frame  == [left : 0 .. WireDelay, pause : BOOLEAN]

Ordered(R) == {s \in Seq(R) : InOrder(s)}

HopType ==
    /\ up \in [Up -> UpPort]
    /\ out \in [Egress -> OutPort]
    /\ pipe \in [Up -> Ordered(OnLink)]
    /\ fabric \in Ordered(Inside)
    /\ wire \in [Up -> Ordered(Frame)]
    /\ ingress \in [Up -> [queuesize : Int, state_recv : {"READY", "PAUSED"}]]

LEMMA AllTimed ==
    /\ Timed(OnLink, LinkDelay) /\ Timed(Inside, SwitchDelay) /\ Timed(Frame, WireDelay)
    /\ LinkDelay \in Nat /\ SwitchDelay \in Nat /\ WireDelay \in Nat
  BY PfcAssumption DEF Timed, OnLink, Inside, Frame

LEMMA EmptyOrdered == ASSUME NEW R PROVE <<>> \in Ordered(R)
  BY DEF Ordered, InOrder

(* What the handlers make of a port of either kind. *)
LEMMA UpPortSteps ==
    ASSUME NEW q \in UpPort
    PROVE  /\ ReceivePause(q) \in UpPort /\ ReceiveResume(q) \in UpPort
           /\ \A e \in Egress : ReceivePacket(q, e) \in UpPort
           /\ ServiceDue(q) => CompleteService(q) \in UpPort /\ Head(q.enqueued) \in Egress
           /\ ~ServiceDue(q) => Age(q) \in UpPort
  <1>1. PortOK(q) /\ q.enqueued \in Seq(Egress)
    BY DEF UpPort
  <1>2. ReceivePause(q) \in UpPort
    BY <1>1, PausedPort DEF UpPort, PortOK
  <1>3. ReceiveResume(q) \in UpPort
    BY <1>1, ResumedPort DEF UpPort, PortOK
  <1>4. ASSUME NEW e \in Egress PROVE ReceivePacket(q, e) \in UpPort
    <2>1. Append(q.enqueued, e) \in Seq(Egress)
      BY <1>1, AppendProperties
    <2> QED BY <1>1, <2>1, PortWithPacket DEF UpPort, PortOK
  <1>5. ASSUME ServiceDue(q)
        PROVE  CompleteService(q) \in UpPort /\ Head(q.enqueued) \in Egress
    <2>1. PortOK(CompleteService(q)) /\ q.enqueued # <<>>
          /\ CompleteService(q).enqueued = Tail(q.enqueued)
      BY <1>1, <1>5, CompletedPort
    <2>2. Tail(q.enqueued) \in Seq(Egress) /\ Head(q.enqueued) \in Egress
      BY <1>1, <2>1, HeadTailProperties
    <2> QED BY <2>1, <2>2 DEF UpPort, PortOK
  <1>6. ~ServiceDue(q) => Age(q) \in UpPort
    BY <1>1, AgedPort DEF UpPort, PortOK
  <1> QED BY <1>2, <1>3, <1>4, <1>5, <1>6

LEMMA OutPortSteps ==
    ASSUME NEW q \in OutPort
    PROVE  /\ ReceivePause(q) \in OutPort /\ ReceiveResume(q) \in OutPort
           /\ \A u \in Up : ReceivePacket(q, u) \in OutPort
           /\ ServiceDue(q) => CompleteService(q) \in OutPort /\ Head(q.enqueued) \in Up
           /\ ~ServiceDue(q) => Age(q) \in OutPort
  <1>1. PortOK(q) /\ q.enqueued \in Seq(Up)
    BY DEF OutPort
  <1>2. ReceivePause(q) \in OutPort
    BY <1>1, PausedPort DEF OutPort, PortOK
  <1>3. ReceiveResume(q) \in OutPort
    BY <1>1, ResumedPort DEF OutPort, PortOK
  <1>4. ASSUME NEW u \in Up PROVE ReceivePacket(q, u) \in OutPort
    <2>1. Append(q.enqueued, u) \in Seq(Up)
      BY <1>1, AppendProperties
    <2> QED BY <1>1, <2>1, PortWithPacket DEF OutPort, PortOK
  <1>5. ASSUME ServiceDue(q)
        PROVE  CompleteService(q) \in OutPort /\ Head(q.enqueued) \in Up
    <2>1. PortOK(CompleteService(q)) /\ q.enqueued # <<>>
          /\ CompleteService(q).enqueued = Tail(q.enqueued)
      BY <1>1, <1>5, CompletedPort
    <2>2. Tail(q.enqueued) \in Seq(Up) /\ Head(q.enqueued) \in Up
      BY <1>1, <2>1, HeadTailProperties
    <2> QED BY <2>1, <2>2 DEF OutPort, PortOK
  <1>6. ~ServiceDue(q) => Age(q) \in OutPort
    BY <1>1, AgedPort DEF OutPort, PortOK
  <1> QED BY <1>2, <1>3, <1>4, <1>5, <1>6

LEMMA OrderedSteps ==
    ASSUME NEW R, NEW d \in Nat, Timed(R, d), NEW s \in Ordered(R)
    PROVE  /\ \A x \in R : x.left = d => Append(s, x) \in Ordered(R)
           /\ s # <<>> => Head(s) \in R /\ Tail(s) \in Ordered(R)
           /\ ~Arrived(s) => Aged(s) \in Ordered(R)
  BY Enters, Leaves, GetsOlder DEF Ordered

(***************************************************************************)
(* The type is inductive, one handler at a time.                           *)
(***************************************************************************)

LEMMA SendPauseType ==
    ASSUME HopType, NEW u \in Up, NEW b \in BOOLEAN, SendPause(u, b)
    PROVE  wire' \in [Up -> Ordered(Frame)]
  <1>1. [left |-> WireDelay, pause |-> b] \in Frame
    BY AllTimed DEF Frame
  <1>2. Append(wire[u], [left |-> WireDelay, pause |-> b]) \in Ordered(Frame)
    BY <1>1, AllTimed, OrderedSteps DEF HopType
  <1> QED BY <1>2 DEF SendPause, HopType

LEMMA OfferType ==
    ASSUME HopType, NEW u \in Up, NEW e \in Egress, Offer(u, e)
    PROVE  HopType'
  <1>1. ReceivePacket(up[u], e) \in UpPort
    BY UpPortSteps DEF HopType
  <1> QED BY <1>1 DEF Offer, switchVars, HopType

LEMMA UpstreamCompleteType ==
    ASSUME HopType, NEW u \in Up, UpstreamComplete(u)
    PROVE  HopType'
  <1> DEFINE e == Head(up[u].enqueued)
             p == [left |-> LinkDelay, to |-> e]
  <1>1. CompleteService(up[u]) \in UpPort /\ e \in Egress
    BY UpPortSteps DEF HopType, UpstreamComplete
  <1>2. p \in OnLink
    BY <1>1, AllTimed DEF OnLink
  <1>3. Append(pipe[u], p) \in Ordered(OnLink)
    BY <1>2, AllTimed, OrderedSteps DEF HopType
  <1> QED BY <1>1, <1>3 DEF UpstreamComplete, Launch, HopType

LEMMA FrameArrivesType ==
    ASSUME HopType, NEW u \in Up, FrameArrives(u)
    PROVE  HopType'
  <1>1. ReceivePause(up[u]) \in UpPort /\ ReceiveResume(up[u]) \in UpPort
    BY UpPortSteps DEF HopType
  <1>2. Tail(wire[u]) \in Ordered(Frame)
    BY AllTimed, OrderedSteps DEF HopType, FrameArrives, TakeFrame, Arrived
  <1> QED BY <1>1, <1>2 DEF FrameArrives, TakeFrame, HopType

LEMMA IngressReceiveType ==
    ASSUME HopType, NEW u \in Up, IngressReceive(u), UNCHANGED up
    PROVE  HopType'
  <1>1. Head(pipe[u]) \in OnLink /\ Tail(pipe[u]) \in Ordered(OnLink)
    BY AllTimed, OrderedSteps DEF HopType, IngressReceive, Arrived
  <1>2. pipe' \in [Up -> Ordered(OnLink)]
    BY <1>1 DEF IngressReceive, HopType
  <1>3. ingress' \in [Up -> [queuesize : Int, state_recv : {"READY", "PAUSED"}]]
    BY DEF IngressReceive, HopType
  <1>4. wire' \in [Up -> Ordered(Frame)]
    BY SendPauseType DEF IngressReceive, HopType
  <1>5. fabric' \in Ordered(Inside)
    <2>1. [left |-> SwitchDelay, from |-> u, to |-> Head(pipe[u]).to] \in Inside
      BY <1>1, AllTimed DEF OnLink, Inside
    <2> QED BY <2>1, AllTimed, OrderedSteps DEF IngressReceive, EnterSwitch, HopType
  <1> QED BY <1>2, <1>3, <1>4, <1>5 DEF IngressReceive, HopType

LEMMA SwitchForwardsType ==
    ASSUME HopType, SwitchForwards, UNCHANGED up
    PROVE  HopType'
  <1>1. Head(fabric) \in Inside /\ Tail(fabric) \in Ordered(Inside)
    BY AllTimed, OrderedSteps DEF HopType, SwitchForwards, Arrived
  <1>2. ReceivePacket(out[Head(fabric).to], Head(fabric).from) \in OutPort
    BY <1>1, OutPortSteps DEF HopType, Inside
  <1> QED BY <1>1, <1>2 DEF SwitchForwards, HopType

LEMMA EgressCompleteType ==
    ASSUME HopType, NEW e \in Egress, EgressComplete(e), UNCHANGED up
    PROVE  HopType'
  <1> DEFINE u == Head(out[e].enqueued)
  <1>1. CompleteService(out[e]) \in OutPort /\ u \in Up
    BY OutPortSteps DEF HopType, EgressComplete
  <1>2. ingress' \in [Up -> [queuesize : Int, state_recv : {"READY", "PAUSED"}]]
    BY <1>1 DEF EgressComplete, IngressCompleted, HopType
  <1>3. wire' \in [Up -> Ordered(Frame)]
    BY <1>1, SendPauseType DEF EgressComplete, IngressCompleted, HopType
  <1> QED BY <1>1, <1>2, <1>3 DEF EgressComplete, HopType

LEMMA EgressOrderType ==
    ASSUME HopType, NEW e \in Egress, EgressPaused(e) \/ EgressResumed(e), UNCHANGED up
    PROVE  HopType'
  <1>1. ReceivePause(out[e]) \in OutPort /\ ReceiveResume(out[e]) \in OutPort
    BY OutPortSteps DEF HopType
  <1> QED BY <1>1 DEF EgressPaused, EgressResumed, HopType

LEMMA TickType ==
    ASSUME HopType, Tick
    PROVE  HopType'
  <1>1. \A u \in Up : Age(up[u]) \in UpPort
    BY UpPortSteps DEF HopType, Tick, Due
  <1>2. \A e \in Egress : Age(out[e]) \in OutPort
    BY OutPortSteps DEF HopType, Tick, Due, SwitchDue
  <1>3. \A u \in Up : Aged(pipe[u]) \in Ordered(OnLink) /\ Aged(wire[u]) \in Ordered(Frame)
    BY AllTimed, OrderedSteps DEF HopType, Tick, Due, SwitchDue
  <1>4. Aged(fabric) \in Ordered(Inside)
    BY AllTimed, OrderedSteps DEF HopType, Tick, Due, SwitchDue
  <1> QED BY <1>1, <1>2, <1>3, <1>4 DEF Tick, SwitchTick, HopType

LEMMA InitType == Init => HopType
  <1>1. EmptyQueue \in UpPort /\ EmptyQueue \in OutPort
    <2>1. EmptyQueue \in Queue
      BY EmptyPort DEF PortOK
    <2>2. EmptyQueue.enqueued \in Seq(Egress) /\ EmptyQueue.enqueued \in Seq(Up)
      BY DEF EmptyQueue
    <2> QED BY <2>1, <2>2, EmptyPort DEF UpPort, OutPort
  <1> QED BY <1>1, EmptyOrdered DEF Init, SwitchInit, HopType

(* The steps of a hop, one disjunct per handler. *)
LEMMA Steps ==
    ASSUME Next
    PROVE  \/ \E u \in Up, e \in Egress : Offer(u, e)
           \/ \E u \in Up : UpstreamComplete(u)
           \/ \E u \in Up : FrameArrives(u)
           \/ \E u \in Up : IngressReceive(u) /\ UNCHANGED up
           \/ SwitchForwards /\ UNCHANGED up
           \/ \E e \in Egress : EgressComplete(e) /\ UNCHANGED up
           \/ \E e \in Egress : (EgressPaused(e) \/ EgressResumed(e)) /\ UNCHANGED up
           \/ Tick
  BY DEF Next, Event, SwitchEvent, SwitchEvents, Resumed

LEMMA NextType ==
    ASSUME HopType, [Next]_vars
    PROVE  HopType'
  <1>1. CASE Next
    BY <1>1, Steps, OfferType, UpstreamCompleteType, FrameArrivesType, IngressReceiveType,
       SwitchForwardsType, EgressCompleteType, EgressOrderType, TickType
  <1>2. CASE UNCHANGED vars
    BY <1>2 DEF vars, switchVars, HopType
  <1> QED BY <1>1, <1>2

(***************************************************************************)
(* The two ends of a link: what the input queue believes (s), the frames   *)
(* on the wire (w) and the port at the far end (q).                        *)
(***************************************************************************)

Agrees(q, w, s) ==
    (s = "PAUSED") <=> IF w = <<>> THEN q.state_send # "READY" ELSE w[Len(w)].pause

Alternates(w) == \A i \in 1 .. Len(w) - 1 : w[i].pause # w[i + 1].pause

Linked(q, w, i) ==
    /\ Agrees(q, w, i.state_recv) /\ Alternates(w)
    /\ i.state_recv = "PAUSED" => i.queuesize >= Low

LinksInv == \A u \in Up : Linked(up[u], wire[u], ingress[u])

LEMMA LinksInvMeans == LinksInv <=> PauseAgreement /\ FramesAlternate /\ ResumeWillCome
  BY DEF LinksInv, Linked, Agrees, Alternates, PauseAgreement, FramesAlternate, ResumeWillCome

(* The input queue changes its mind: the frame it sends says so.           *)
LEMMA FrameSent ==
    ASSUME NEW q, NEW w \in Seq(Frame), NEW s \in {"READY", "PAUSED"}, NEW x \in Frame,
           Agrees(q, w, s), Alternates(w), x.pause <=> s = "READY"
    PROVE  /\ Agrees(q, Append(w, x), IF x.pause THEN "PAUSED" ELSE "READY")
           /\ Alternates(Append(w, x))
  <1>1. /\ Len(Append(w, x)) = Len(w) + 1 /\ Len(w) \in Nat /\ Append(w, x) # <<>>
        /\ \A i \in 1 .. Len(w) : Append(w, x)[i] = w[i]
        /\ Append(w, x)[Len(w) + 1] = x
    BY AppendProperties, LenProperties
  <1>2. x.pause \in BOOLEAN /\ \A i \in 1 .. Len(w) : w[i].pause \in BOOLEAN
    <2>1. \A i \in 1 .. Len(w) : w[i] \in Frame
      BY ElementOfSeq
    <2> QED BY <2>1 DEF Frame
  <1>3. Agrees(q, Append(w, x), IF x.pause THEN "PAUSED" ELSE "READY")
    BY <1>1, <1>2 DEF Agrees
  <1>4. ASSUME NEW i \in 1 .. Len(w)
        PROVE  Append(w, x)[i].pause # Append(w, x)[i + 1].pause
    <2>1. CASE i < Len(w)
      <3>1. i \in 1 .. Len(w) - 1 /\ i + 1 \in 1 .. Len(w)
        BY <1>1, <2>1
      <3> QED BY <1>1, <3>1 DEF Alternates
    <2>2. CASE i = Len(w)
      <3>1. w # <<>> /\ Append(w, x)[i] = w[Len(w)] /\ Append(w, x)[i + 1] = x
        BY <1>1, <2>2
      <3>2. w[Len(w)].pause <=> s = "PAUSED"
        BY <3>1 DEF Agrees
      <3> QED BY <1>2, <2>2, <3>1, <3>2
    <2> QED BY <1>1, <2>1, <2>2
  <1> QED BY <1>1, <1>3, <1>4 DEF Alternates

LEMMA EmptyIsShort == ASSUME NEW R, NEW s \in Seq(R) PROVE s = <<>> <=> Len(s) = 0
  <1>1. Len(<<>>) = 0
    OBVIOUS
  <1>2. s # <<>> => Len(s) # 0
    BY EmptySeq
  <1> QED BY <1>1, <1>2

(* The port obeys a frame: what it was told is now what it is.             *)
LEMMA FrameTaken ==
    ASSUME NEW q, NEW w \in Seq(Frame), NEW s, NEW r,
           Agrees(q, w, s), Alternates(w), w # <<>>,
           r.state_send = "READY" <=> ~Head(w).pause
    PROVE  Agrees(r, Tail(w), s) /\ Alternates(Tail(w))
  <1>1. /\ Len(w) \in Nat \ {0} /\ Len(Tail(w)) = Len(w) - 1 /\ Head(w) = w[1]
        /\ Tail(w) \in Seq(Frame)
        /\ \A i \in 1 .. Len(w) - 1 : Tail(w)[i] = w[i + 1]
    BY HeadTailProperties, LenProperties, EmptySeq
  <1>2. Alternates(Tail(w))
    BY <1>1 DEF Alternates
  <1>3. Tail(w) = <<>> <=> Len(w) = 1
    <2>1. Tail(w) = <<>> <=> Len(Tail(w)) = 0
      BY <1>1, EmptyIsShort, Zenon
    <2> QED BY <1>1, <2>1
  <1>4. CASE Len(w) = 1
    <2>1. Head(w) = w[Len(w)] /\ Head(w) \in Frame
      BY <1>1, <1>4, HeadTailProperties
    <2>2. Head(w).pause \in BOOLEAN
      BY <2>1 DEF Frame
    <2> QED BY <1>2, <1>3, <1>4, <2>1, <2>2 DEF Agrees
  <1>5. CASE Len(w) > 1
    <2>1. Len(w) - 1 \in 1 .. Len(w) - 1
      BY <1>1, <1>5
    <2>2. Tail(w)[Len(Tail(w))] = w[Len(w)]
      BY <1>1, <2>1
    <2> QED BY <1>2, <1>3, <1>5, <2>2 DEF Agrees
  <1> QED BY <1>1, <1>4, <1>5

(* A state change at the switch end of a link. *)
LEMMA CountedLink ==
    ASSUME HopType, NEW u \in Up, Linked(up[u], wire[u], ingress[u]), NEW n \in Int,
           NEW b \in BOOLEAN, b <=> ingress[u].state_recv = "READY",
           b => n >= Low, SendPause(u, b)
    PROVE  Linked(up[u], wire'[u],
                  [queuesize |-> n, state_recv |-> IF b THEN "PAUSED" ELSE "READY"])
  <1> DEFINE x == [left |-> WireDelay, pause |-> b]
  <1>1. x \in Frame /\ x.pause = b
    BY AllTimed DEF Frame
  <1>2. wire[u] \in Seq(Frame) /\ ingress[u].state_recv \in {"READY", "PAUSED"}
    BY DEF HopType, Ordered
  <1>3. wire'[u] = Append(wire[u], x)
    BY DEF SendPause, HopType
  <1>4. /\ Agrees(up[u], wire'[u], IF b THEN "PAUSED" ELSE "READY")
        /\ Alternates(wire'[u])
    <2> HIDE DEF x
    <2> QED BY <1>1, <1>2, <1>3, FrameSent DEF Linked
  <1> QED BY <1>4 DEF Linked

LEMMA SendElsewhere ==
    ASSUME HopType, NEW u \in Up, NEW b, SendPause(u, b), NEW v \in Up, v # u
    PROVE  wire'[v] = wire[v]
  BY DEF SendPause, HopType

LEMMA IngressReceiveLinks ==
    ASSUME HopType, LinksInv, NEW u \in Up, IngressReceive(u), UNCHANGED up
    PROVE  LinksInv'
  <1> DEFINE n == ingress[u].queuesize + 1
             pausing == n > High /\ ingress[u].state_recv # "PAUSED"
  <1>1. n \in Int /\ ingress[u].state_recv \in {"READY", "PAUSED"}
    BY DEF HopType
  <1>2. ASSUME NEW v \in Up, v # u PROVE Linked(up'[v], wire'[v], ingress'[v])
    <2>1. wire'[v] = wire[v] /\ ingress'[v] = ingress[v]
      BY <1>2, SendElsewhere DEF IngressReceive, HopType
    <2> QED BY <2>1 DEF LinksInv
  <1>3. CASE pausing
    <2>1. /\ ingress'[u] = [queuesize |-> n, state_recv |-> "PAUSED"]
          /\ SendPause(u, TRUE)
      BY <1>3 DEF IngressReceive, HopType
    <2>2. n >= Low
      BY <1>1, <1>3, PfcAssumption
    <2>3. Linked(up[u], wire'[u], [queuesize |-> n, state_recv |-> "PAUSED"])
      BY <1>1, <1>3, <2>1, <2>2, CountedLink DEF LinksInv
    <2> QED BY <1>2, <2>1, <2>3 DEF LinksInv
  <1>4. CASE ~pausing
    <2>1. /\ ingress'[u].queuesize = n /\ ingress'[u].state_recv = ingress[u].state_recv
          /\ wire'[u] = wire[u]
      BY <1>4 DEF IngressReceive, HopType
    <2>2. Linked(up[u], wire'[u], ingress'[u])
      BY <1>1, <2>1, PfcAssumption DEF LinksInv, Linked, HopType
    <2> QED BY <1>2, <2>2 DEF LinksInv
  <1> QED BY <1>3, <1>4

LEMMA EgressCompleteLinks ==
    ASSUME HopType, LinksInv, NEW e \in Egress, EgressComplete(e), UNCHANGED up
    PROVE  LinksInv'
  <1> DEFINE u == Head(out[e].enqueued)
             n == ingress[u].queuesize - 1
             resuming == n < Low /\ ingress[u].state_recv = "PAUSED"
  <1>1. u \in Up /\ IngressCompleted(u)
    BY OutPortSteps DEF HopType, EgressComplete
  <1> HIDE DEF u
  <1>2. n \in Int /\ ingress[u].state_recv \in {"READY", "PAUSED"}
    BY <1>1 DEF HopType
  <1>3. ASSUME NEW v \in Up, v # u PROVE Linked(up'[v], wire'[v], ingress'[v])
    <2>1. wire'[v] = wire[v] /\ ingress'[v] = ingress[v]
      BY <1>1, <1>3, SendElsewhere DEF IngressCompleted, HopType
    <2> QED BY <2>1 DEF LinksInv
  <1>4. CASE resuming
    <2>1. /\ ingress'[u] = [queuesize |-> n, state_recv |-> "READY"]
          /\ SendPause(u, FALSE)
      BY <1>1, <1>4 DEF IngressCompleted, HopType
    <2>2. Linked(up[u], wire'[u], [queuesize |-> n, state_recv |-> "READY"])
      BY <1>1, <1>2, <1>4, <2>1, CountedLink DEF LinksInv
    <2> QED BY <1>3, <2>1, <2>2 DEF LinksInv
  <1>5. CASE ~resuming
    <2>1. /\ ingress'[u].queuesize = n /\ ingress'[u].state_recv = ingress[u].state_recv
          /\ wire'[u] = wire[u]
      BY <1>1, <1>5 DEF IngressCompleted, HopType
    <2>2. Linked(up[u], wire'[u], ingress'[u])
      BY <1>1, <1>2, <1>5, <2>1, PfcAssumption DEF LinksInv, Linked, HopType
    <2> QED BY <1>3, <2>2 DEF LinksInv
  <1> QED BY <1>4, <1>5

LEMMA FrameArrivesLinks ==
    ASSUME HopType, LinksInv, NEW u \in Up, FrameArrives(u)
    PROVE  LinksInv'
  <1> DEFINE w == wire[u]
  <1>1. w \in Seq(Frame) /\ w # <<>> /\ PortOK(up[u])
    BY DEF HopType, Ordered, UpPort, FrameArrives, TakeFrame, Arrived
  <1>2. Head(w).pause \in BOOLEAN
    <2>1. Head(w) \in Frame
      BY <1>1, HeadTailProperties
    <2> QED BY <2>1 DEF Frame
  <1>3. up'[u].state_send = "READY" <=> ~Head(w).pause
    BY <1>1, <1>2, PausedPort, ResumedPort DEF FrameArrives, HopType
  <1>4. wire'[u] = Tail(w) /\ ingress' = ingress
    BY DEF FrameArrives, TakeFrame, HopType
  <1>5. Linked(up'[u], wire'[u], ingress'[u])
    <2>1. Agrees(up[u], w, ingress[u].state_recv) /\ Alternates(w)
      BY DEF LinksInv, Linked
    <2>2. Agrees(up'[u], Tail(w), ingress[u].state_recv) /\ Alternates(Tail(w))
      <3> HIDE DEF w
      <3> QED BY <1>1, <1>3, <2>1, FrameTaken
    <2> QED BY <1>4, <2>2 DEF LinksInv, Linked
  <1>6. ASSUME NEW v \in Up, v # u PROVE Linked(up'[v], wire'[v], ingress'[v])
    <2>1. wire'[v] = wire[v] /\ ingress'[v] = ingress[v] /\ up'[v] = up[v]
      BY <1>6 DEF FrameArrives, TakeFrame, HopType
    <2> QED BY <2>1 DEF LinksInv
  <1> QED BY <1>5, <1>6 DEF LinksInv

LEMMA TickLinks ==
    ASSUME HopType, LinksInv, Tick
    PROVE  LinksInv'
  <1> SUFFICES ASSUME NEW u \in Up PROVE Linked(up'[u], wire'[u], ingress'[u])
    BY DEF LinksInv
  <1>1. up'[u].state_send = up[u].state_send
    BY AgedPort DEF HopType, UpPort, Tick, Due
  <1>2. /\ wire'[u] = Aged(wire[u]) /\ ingress'[u] = ingress[u]
        /\ wire[u] \in Seq(Frame) /\ InOrder(wire[u]) /\ ~Arrived(wire[u])
    BY DEF HopType, Ordered, Tick, SwitchTick, Due, SwitchDue
  <1>3. /\ wire'[u] \in Seq(Frame) /\ Len(wire'[u]) = Len(wire[u])
        /\ \A i \in 1 .. Len(wire[u]) : wire'[u][i] = [wire[u][i] EXCEPT !.left = @ - 1]
    BY <1>2, AllTimed, GetsOlder
  <1>4. \A i \in 1 .. Len(wire[u]) : wire'[u][i].pause = wire[u][i].pause
    <2>1. \A i \in 1 .. Len(wire[u]) : wire[u][i] \in Frame
      BY <1>2, ElementOfSeq
    <2> QED BY <1>3, <2>1 DEF Frame
  <1>5. Len(wire[u]) \in Nat /\ (wire'[u] = <<>> <=> wire[u] = <<>>)
        /\ (wire[u] # <<>> => Len(wire[u]) \in 1 .. Len(wire[u]))
    BY <1>2, <1>3, EmptyIsShort, LenProperties
  <1>6. Agrees(up'[u], wire'[u], ingress'[u].state_recv)
    BY <1>1, <1>2, <1>3, <1>4, <1>5 DEF LinksInv, Linked, Agrees
  <1>7. Alternates(wire'[u])
    <2>1. \A i \in 1 .. Len(wire[u]) - 1 : i \in 1 .. Len(wire[u]) /\ i + 1 \in 1 .. Len(wire[u])
      BY <1>5
    <2> QED BY <1>3, <1>4, <2>1 DEF LinksInv, Linked, Alternates
  <1> QED BY <1>2, <1>6, <1>7 DEF LinksInv, Linked

LEMMA NextLinks ==
    ASSUME HopType, LinksInv, [Next]_vars
    PROVE  LinksInv'
  <1>1. ASSUME NEW u \in Up, NEW e \in Egress, Offer(u, e) PROVE LinksInv'
    <2>1. \A v \in Up : up'[v].state_send = up[v].state_send
      BY <1>1, PortWithPacket DEF Offer, HopType, UpPort
    <2> QED BY <1>1, <2>1 DEF Offer, switchVars, LinksInv, Linked, Agrees
  <1>2. ASSUME NEW u \in Up, UpstreamComplete(u) PROVE LinksInv'
    <2>1. \A v \in Up : up'[v].state_send = "READY" <=> up[v].state_send = "READY"
      BY <1>2, CompletedPort DEF UpstreamComplete, HopType, UpPort
    <2> QED BY <1>2, <2>1 DEF UpstreamComplete, Launch, LinksInv, Linked, Agrees
  <1>3. ASSUME SwitchForwards, UNCHANGED up PROVE LinksInv'
    BY <1>3 DEF SwitchForwards, LinksInv
  <1>4. ASSUME NEW e \in Egress, EgressPaused(e) \/ EgressResumed(e), UNCHANGED up
        PROVE  LinksInv'
    BY <1>4 DEF EgressPaused, EgressResumed, LinksInv
  <1>5. ASSUME UNCHANGED vars PROVE LinksInv'
    BY <1>5 DEF vars, switchVars, LinksInv
  <1> QED BY <1>1, <1>2, <1>3, <1>4, <1>5, Steps, FrameArrivesLinks, IngressReceiveLinks,
             EgressCompleteLinks, TickLinks

LEMMA InitLinks == Init => LinksInv
  BY DEF Init, SwitchInit, EmptyQueue, LinksInv, Linked, Agrees, Alternates

(***************************************************************************)
(* The theorems about ports, links and wires                               *)
(***************************************************************************)

(* Ports, links, the pipeline and the wires keep their type; what is on a  *)
(* link or a wire is never overtaken.                                      *)
THEOREM HopTypeCorrect == Spec => []HopType
  BY InitType, NextType, PTL DEF Spec

(* Every output queue of the hop has one service event while it transmits, *)
(* none otherwise, and never waits with packets and nothing to wake it.    *)
THEOREM PortsCorrect == Spec => []PortsInv
  <1>1. HopType => PortsInv
    BY DEF HopType, UpPort, OutPort, PortOK, PortsInv
  <1> QED BY <1>1, HopTypeCorrect, PTL

LEMMA LinksCorrect == Spec => []LinksInv
  BY InitLinks, NextLinks, HopTypeCorrect, PTL DEF Spec

(* Both ends of a link agree once the frames on the wire have arrived.     *)
THEOREM AgreementCorrect == Spec => []PauseAgreement
  BY LinksCorrect, LinksInvMeans, PTL

(* PAUSE and RESUME alternate on every wire.                               *)
THEOREM AlternationCorrect == Spec => []FramesAlternate
  BY LinksCorrect, LinksInvMeans, PTL

(* A paused input queue still has the packets whose departure resumes it.  *)
THEOREM ResumeCorrect == Spec => []ResumeWillCome
  BY LinksCorrect, LinksInvMeans, PTL

----------------------------------------------------------------------------
(***************************************************************************)
(* The virtual input queue counts what it should: its size is the number   *)
(* of its packets between the link and the wire of an output queue.        *)
(* Packets are counted by their places; a departure moves every place      *)
(* behind it, hence the bijections.                                        *)
(***************************************************************************)

(***************************************************************************)
(* Places in the pipeline and in the output queues, as values.             *)
(***************************************************************************)

InPipeline(f, u) == {i \in DOMAIN f : f[i].from = u}

InQueues(o, u) == {p \in Egress \X (Nat \ {0}) :
                       p[2] \in DOMAIN o[p[1]].enqueued /\ o[p[1]].enqueued[p[2]] = u}

(* One place less, the others renumbered.                                  *)
LEMMA OneLess ==
    ASSUME NEW S, NEW x, NEW T, IsFiniteSet(S), NEW f \in Bijection(S \ {x}, T)
    PROVE  /\ IsFiniteSet(T) /\ Cardinality(S) \in Nat
           /\ Cardinality(T) = IF x \in S THEN Cardinality(S) - 1 ELSE Cardinality(S)
  <1>1. /\ IsFiniteSet(S \ {x})
        /\ Cardinality(S \ {x}) = IF x \in S THEN Cardinality(S) - 1 ELSE Cardinality(S)
    BY FS_RemoveElement
  <1>2. IsFiniteSet(T) /\ Cardinality(T) = Cardinality(S \ {x})
    BY <1>1, FS_Bijection DEF ExistsBijection
  <1> QED BY <1>1, <1>2, FS_CardinalityType

LEMMA OneMore ==
    ASSUME NEW S, NEW x, IsFiniteSet(S), x \notin S
    PROVE  /\ IsFiniteSet(S \cup {x}) /\ Cardinality(S \cup {x}) \in Nat
           /\ Cardinality(S) \in Nat /\ Cardinality(S \cup {x}) = Cardinality(S) + 1
  BY FS_AddElement, FS_CardinalityType

LEMMA PipelineGrows ==
    ASSUME NEW f \in Seq(Inside), NEW x \in Inside, NEW u \in Up, IsFiniteSet(InPipeline(f, u))
    PROVE  /\ IsFiniteSet(InPipeline(Append(f, x), u))
           /\ Cardinality(InPipeline(f, u)) \in Nat
           /\ Cardinality(InPipeline(Append(f, x), u))
                = Cardinality(InPipeline(f, u)) + IF x.from = u THEN 1 ELSE 0
  <1> DEFINE n == Len(f) + 1
  <1>1. /\ n \in Nat /\ n \notin DOMAIN f /\ DOMAIN Append(f, x) = DOMAIN f \cup {n}
        /\ \A i \in DOMAIN f : Append(f, x)[i] = f[i]
        /\ Append(f, x)[n] = x
    BY AppendProperties, LenProperties
  <1> HIDE DEF n
  <1>2. CASE x.from = u
    <2>1. InPipeline(Append(f, x), u) = InPipeline(f, u) \cup {n}
      BY <1>1, <1>2 DEF InPipeline
    <2>2. n \notin InPipeline(f, u)
      BY <1>1 DEF InPipeline
    <2> QED BY <1>2, <2>1, <2>2, OneMore
  <1>3. CASE x.from # u
    <2>1. InPipeline(Append(f, x), u) = InPipeline(f, u)
      BY <1>1, <1>3 DEF InPipeline
    <2> QED BY <1>3, <2>1, FS_CardinalityType
  <1> QED BY <1>2, <1>3

LEMMA PipelineShrinks ==
    ASSUME NEW f \in Seq(Inside), f # <<>>, NEW u \in Up, IsFiniteSet(InPipeline(f, u))
    PROVE  /\ IsFiniteSet(InPipeline(Tail(f), u))
           /\ Cardinality(InPipeline(f, u)) \in Nat
           /\ Cardinality(InPipeline(Tail(f), u))
                = Cardinality(InPipeline(f, u)) - IF Head(f).from = u THEN 1 ELSE 0
  <1> DEFINE S == InPipeline(f, u)
             T == InPipeline(Tail(f), u)
             g == [i \in S \ {1} |-> i - 1]
  <1>1. /\ Len(f) \in Nat \ {0} /\ DOMAIN f = 1 .. Len(f) /\ DOMAIN Tail(f) = 1 .. Len(f) - 1
        /\ \A i \in 1 .. Len(f) - 1 : Tail(f)[i] = f[i + 1]
        /\ Head(f) = f[1]
    BY HeadTailProperties, LenProperties, EmptySeq
  <1>2. \A i \in S \ {1} : i \in 2 .. Len(f) /\ i - 1 \in T
    BY <1>1 DEF InPipeline
  <1>3. g \in [S \ {1} -> T]
    BY <1>2
  <1>4. \A a, b \in S \ {1} : g[a] = g[b] => a = b
    BY <1>1, <1>2
  <1>5. \A t \in T : \E a \in S \ {1} : g[a] = t
    <2> SUFFICES ASSUME NEW t \in T PROVE \E a \in S \ {1} : g[a] = t
      OBVIOUS
    <2>1. t \in 1 .. Len(f) - 1 /\ f[t + 1].from = u
      BY <1>1 DEF InPipeline
    <2>2. t + 1 \in S \ {1} /\ t + 1 - 1 = t
      BY <1>1, <2>1 DEF InPipeline
    <2>3. g[t + 1] = t
      BY <1>1, <2>1, <2>2
    <2> QED BY <2>2, <2>3
  <1>6. 1 \in S <=> Head(f).from = u
    BY <1>1 DEF InPipeline
  <1> HIDE DEF S, T, g
  <1>7. g \in Bijection(S \ {1}, T)
    BY <1>3, <1>4, <1>5, Fun_IsBij
  <1>8. /\ IsFiniteSet(T) /\ Cardinality(S) \in Nat
        /\ Cardinality(T) = IF 1 \in S THEN Cardinality(S) - 1 ELSE Cardinality(S)
    BY <1>7, OneLess DEF S
  <1> QED BY <1>6, <1>8 DEF S, T

(* o2 is o with an arrival from w at the queue e.                          *)
LEMMA QueuesGrow ==
    ASSUME NEW o \in [Egress -> OutPort], NEW o2 \in [Egress -> OutPort], NEW e \in Egress,
           NEW w \in Up, o2[e].enqueued = Append(o[e].enqueued, w),
           \A x \in Egress : x # e => o2[x].enqueued = o[x].enqueued,
           NEW u \in Up, IsFiniteSet(InQueues(o, u))
    PROVE  /\ IsFiniteSet(InQueues(o2, u))
           /\ Cardinality(InQueues(o, u)) \in Nat
           /\ Cardinality(InQueues(o2, u))
                = Cardinality(InQueues(o, u)) + IF w = u THEN 1 ELSE 0
  <1> DEFINE s == o[e].enqueued
             n == Len(s) + 1
  <1>1. s \in Seq(Up)
    BY DEF OutPort
  <1>2. /\ n \in Nat \ {0} /\ n \notin DOMAIN s /\ DOMAIN Append(s, w) = DOMAIN s \cup {n}
        /\ \A i \in DOMAIN s : Append(s, w)[i] = s[i]
        /\ Append(s, w)[n] = w
    BY <1>1, AppendProperties, LenProperties
  <1> HIDE DEF n
  <1>3. \A p \in Egress \X (Nat \ {0}) :
            p \in InQueues(o2, u) <=> p \in InQueues(o, u) \/ (p = <<e, n>> /\ w = u)
    <2> SUFFICES ASSUME NEW p \in Egress \X (Nat \ {0})
                 PROVE  p \in InQueues(o2, u)
                          <=> p \in InQueues(o, u) \/ (p = <<e, n>> /\ w = u)
      OBVIOUS
    <2>1. p = <<p[1], p[2]>> /\ p[1] \in Egress /\ p[2] \in Nat \ {0}
      OBVIOUS
    <2>2. CASE p[1] # e
      BY <2>1, <2>2 DEF InQueues
    <2>3. CASE p[1] = e
      BY <1>2, <2>1, <2>3 DEF InQueues
    <2> QED BY <2>2, <2>3
  <1>4. /\ InQueues(o, u) \subseteq Egress \X (Nat \ {0})
        /\ InQueues(o2, u) \subseteq Egress \X (Nat \ {0})
        /\ <<e, n>> \in Egress \X (Nat \ {0})
    BY <1>2 DEF InQueues
  <1>5. <<e, n>> \notin InQueues(o, u)
    BY <1>2 DEF InQueues
  <1>6. CASE w = u
    <2>1. InQueues(o2, u) = InQueues(o, u) \cup {<<e, n>>}
      BY <1>3, <1>4, <1>6
    <2> QED BY <1>5, <1>6, <2>1, OneMore
  <1>7. CASE w # u
    <2>1. InQueues(o2, u) = InQueues(o, u)
      BY <1>3, <1>4, <1>7
    <2> QED BY <1>7, <2>1, FS_CardinalityType
  <1> QED BY <1>6, <1>7

(* o2 is o without the packet at the head of the queue e.                  *)
LEMMA QueuesShrink ==
    ASSUME NEW o \in [Egress -> OutPort], NEW o2 \in [Egress -> OutPort], NEW e \in Egress,
           o[e].enqueued # <<>>, o2[e].enqueued = Tail(o[e].enqueued),
           \A x \in Egress : x # e => o2[x].enqueued = o[x].enqueued,
           NEW u \in Up, IsFiniteSet(InQueues(o, u))
    PROVE  /\ IsFiniteSet(InQueues(o2, u))
           /\ Cardinality(InQueues(o, u)) \in Nat
           /\ Cardinality(InQueues(o2, u))
                = Cardinality(InQueues(o, u)) - IF Head(o[e].enqueued) = u THEN 1 ELSE 0
  <1> DEFINE s == o[e].enqueued
             S == InQueues(o, u)
             T == InQueues(o2, u)
             place(p) == IF p[1] = e THEN <<e, p[2] - 1>> ELSE p
             g == [p \in S \ {<<e, 1>>} |-> place(p)]
  <1>1. s \in Seq(Up)
    BY DEF OutPort
  <1>2. /\ Len(s) \in Nat \ {0} /\ DOMAIN s = 1 .. Len(s) /\ DOMAIN Tail(s) = 1 .. Len(s) - 1
        /\ \A i \in 1 .. Len(s) - 1 : Tail(s)[i] = s[i + 1]
        /\ Head(s) = s[1]
    BY <1>1, HeadTailProperties, LenProperties, EmptySeq
  <1>3. /\ \A x \in Egress, i \in Nat \ {0} :
              x # e => (<<x, i>> \in T <=> <<x, i>> \in S)
        /\ \A i \in Nat \ {0} :
              /\ <<e, i>> \in S <=> i \in 1 .. Len(s) /\ s[i] = u
              /\ <<e, i>> \in T <=> i \in 1 .. Len(s) - 1 /\ s[i + 1] = u
    BY <1>2 DEF InQueues
  <1>4. \A p \in S \cup T : p = <<p[1], p[2]>> /\ p[1] \in Egress /\ p[2] \in Nat \ {0}
    BY DEF InQueues
  <1>5. <<e, 1>> \in S <=> Head(s) = u
    BY <1>2, <1>3
  <1> HIDE DEF S, T, s
  <1>6. \A p \in S \ {<<e, 1>>} :
            /\ place(p) \in T
            /\ place(p)[1] = p[1] /\ place(p)[2] = IF p[1] = e THEN p[2] - 1 ELSE p[2]
    <2> SUFFICES ASSUME NEW p \in S \ {<<e, 1>>}
                 PROVE  /\ place(p) \in T
                        /\ place(p)[1] = p[1]
                        /\ place(p)[2] = IF p[1] = e THEN p[2] - 1 ELSE p[2]
      OBVIOUS
    <2>1. p = <<p[1], p[2]>> /\ p[1] \in Egress /\ p[2] \in Nat \ {0}
      BY <1>4
    <2>2. CASE p[1] # e
      BY <1>3, <2>1, <2>2
    <2>3. CASE p[1] = e
      <3>1. p[2] \in 2 .. Len(s) /\ s[p[2]] = u
        BY <1>2, <1>3, <2>1, <2>3
      <3>2. p[2] - 1 \in Nat \ {0} /\ p[2] - 1 \in 1 .. Len(s) - 1 /\ s[p[2] - 1 + 1] = u
        BY <1>2, <3>1
      <3>3. <<e, p[2] - 1>> \in T
        BY <1>3, <3>2
      <3> QED BY <2>3, <3>3
    <2> QED BY <2>2, <2>3
  <1>7. g \in [S \ {<<e, 1>>} -> T]
    BY <1>6
  <1>8. \A p, q \in S \ {<<e, 1>>} : g[p] = g[q] => p = q
    <2> SUFFICES ASSUME NEW p \in S \ {<<e, 1>>}, NEW q \in S \ {<<e, 1>>}, place(p) = place(q)
                 PROVE  p = q
      OBVIOUS
    <2> HIDE DEF place
    <2>1. p[1] = q[1]
      BY <1>6
    <2>2. p[2] = q[2]
      BY <1>4, <1>6, <2>1
    <2> QED BY <1>4, <2>1, <2>2
  <1>9. \A t \in T : \E p \in S \ {<<e, 1>>} : g[p] = t
    <2> SUFFICES ASSUME NEW t \in T PROVE \E p \in S \ {<<e, 1>>} : place(p) = t
      OBVIOUS
    <2>1. t = <<t[1], t[2]>> /\ t[1] \in Egress /\ t[2] \in Nat \ {0}
      BY <1>4
    <2>2. CASE t[1] # e
      <3>1. t \in S \ {<<e, 1>>} /\ place(t) = t
        BY <1>3, <2>1, <2>2
      <3> QED BY <3>1
    <2>3. CASE t[1] = e
      <3>1. t[2] \in 1 .. Len(s) - 1 /\ s[t[2] + 1] = u
        BY <1>3, <2>1, <2>3
      <3>2. t[2] + 1 \in Nat \ {0} /\ t[2] + 1 \in 1 .. Len(s) /\ t[2] + 1 # 1
        BY <1>2, <2>1, <3>1
      <3>3. <<e, t[2] + 1>> \in S \ {<<e, 1>>}
        BY <1>3, <3>1, <3>2
      <3>4. place(<<e, t[2] + 1>>) = t
        BY <2>1, <2>3
      <3> QED BY <3>3, <3>4
    <2> QED BY <2>2, <2>3
  <1> HIDE DEF g
  <1>10. g \in Bijection(S \ {<<e, 1>>}, T)
    BY <1>7, <1>8, <1>9, Fun_IsBij
  <1>11. /\ IsFiniteSet(T) /\ Cardinality(S) \in Nat
         /\ Cardinality(T) = IF <<e, 1>> \in S THEN Cardinality(S) - 1 ELSE Cardinality(S)
    BY <1>10, OneLess DEF S
  <1> QED BY <1>5, <1>11 DEF S, T, s

(***************************************************************************)
(* The counts of a hop                                                     *)
(***************************************************************************)

Counted(u) ==
    /\ IsFiniteSet(InPipeline(fabric, u)) /\ IsFiniteSet(InQueues(out, u))
    /\ ingress[u].queuesize
         = Cardinality(InPipeline(fabric, u)) + Cardinality(InQueues(out, u))

CountInv == \A u \in Up : Counted(u)

LEMMA PlacesAgree ==
    ASSUME HopType, NEW u \in Up
    PROVE  Crossing(u) = InPipeline(fabric, u) /\ Waiting(u) = InQueues(out, u)
  <1>1. ASSUME NEW e \in Egress PROVE DOMAIN out[e].enqueued \subseteq Nat \ {0}
    <2>1. out[e].enqueued \in Seq(Up)
      BY DEF HopType, OutPort
    <2> QED BY <2>1, LenProperties
  <1>2. Waiting(u) = InQueues(out, u)
    BY <1>1 DEF Waiting, InQueues
  <1> QED BY <1>2 DEF Crossing, InPipeline

(* Nothing that waits moves: the places are the same.                      *)
LEMMA QueuesSame ==
    ASSUME NEW o, NEW o2, \A e \in Egress : o2[e].enqueued = o[e].enqueued, NEW u
    PROVE  InQueues(o2, u) = InQueues(o, u)
  BY DEF InQueues

LEMMA IngressReceiveCounts ==
    ASSUME HopType, CountInv, NEW u \in Up, IngressReceive(u)
    PROVE  CountInv'
  <1> DEFINE x == [left |-> SwitchDelay, from |-> u, to |-> Head(pipe[u]).to]
  <1>1. x \in Inside /\ x.from = u
    <2>1. Head(pipe[u]) \in OnLink
      BY AllTimed, OrderedSteps DEF HopType, IngressReceive, Arrived
    <2> QED BY <2>1, AllTimed DEF OnLink, Inside
  <1>2. fabric' = Append(fabric, x) /\ fabric \in Seq(Inside) /\ out' = out
    BY DEF IngressReceive, EnterSwitch, HopType, Ordered
  <1> HIDE DEF x
  <1> SUFFICES ASSUME NEW v \in Up PROVE Counted(v)'
    BY DEF CountInv
  <1>3. /\ IsFiniteSet(InPipeline(fabric', v))
        /\ Cardinality(InPipeline(fabric, v)) \in Nat
        /\ Cardinality(InPipeline(fabric', v))
             = Cardinality(InPipeline(fabric, v)) + IF x.from = v THEN 1 ELSE 0
    BY <1>1, <1>2, PipelineGrows DEF CountInv, Counted
  <1>4. ingress'[v].queuesize = ingress[v].queuesize + IF u = v THEN 1 ELSE 0
    BY DEF IngressReceive, HopType
  <1>5. Cardinality(InQueues(out, v)) \in Nat
    BY FS_CardinalityType DEF CountInv, Counted
  <1> QED BY <1>1, <1>2, <1>3, <1>4, <1>5 DEF CountInv, Counted

LEMMA SwitchForwardsCounts ==
    ASSUME HopType, HopType', CountInv, SwitchForwards
    PROVE  CountInv'
  <1> DEFINE h == Head(fabric)
  <1>1. h \in Inside /\ fabric \in Seq(Inside) /\ fabric # <<>>
    BY AllTimed, OrderedSteps DEF HopType, SwitchForwards, Arrived, Ordered
  <1> HIDE DEF h
  <1>2. h.to \in Egress /\ h.from \in Up
    BY <1>1 DEF Inside
  <1>3. /\ fabric' = Tail(fabric) /\ ingress' = ingress
        /\ out' = [out EXCEPT ![h.to] = ReceivePacket(@, h.from)]
    BY DEF SwitchForwards, h
  <1>4. /\ out'[h.to].enqueued = Append(out[h.to].enqueued, h.from)
        /\ \A x \in Egress : x # h.to => out'[x].enqueued = out[x].enqueued
    BY <1>2, <1>3, PortWithPacket DEF HopType, OutPort
  <1> SUFFICES ASSUME NEW v \in Up PROVE Counted(v)'
    BY DEF CountInv
  <1>5. /\ IsFiniteSet(InPipeline(fabric', v))
        /\ Cardinality(InPipeline(fabric, v)) \in Nat
        /\ Cardinality(InPipeline(fabric', v))
             = Cardinality(InPipeline(fabric, v)) - IF h.from = v THEN 1 ELSE 0
    BY <1>1, <1>3, PipelineShrinks DEF CountInv, Counted, h
  <1>6. /\ IsFiniteSet(InQueues(out', v))
        /\ Cardinality(InQueues(out, v)) \in Nat
        /\ Cardinality(InQueues(out', v))
             = Cardinality(InQueues(out, v)) + IF h.from = v THEN 1 ELSE 0
    <2>1. /\ out \in [Egress -> OutPort] /\ out' \in [Egress -> OutPort]
          /\ IsFiniteSet(InQueues(out, v))
      BY DEF CountInv, Counted, HopType
    <2> QED BY <1>2, <1>4, <2>1, QueuesGrow
  <1> QED BY <1>3, <1>5, <1>6 DEF CountInv, Counted

LEMMA EgressCompleteCounts ==
    ASSUME HopType, HopType', CountInv, NEW e \in Egress, EgressComplete(e)
    PROVE  CountInv'
  <1> DEFINE u == Head(out[e].enqueued)
  <1>1. u \in Up /\ IngressCompleted(u) /\ fabric' = fabric
    BY OutPortSteps DEF HopType, EgressComplete
  <1>2. /\ out[e].enqueued # <<>> /\ out'[e].enqueued = Tail(out[e].enqueued)
        /\ \A x \in Egress : x # e => out'[x].enqueued = out[x].enqueued
    BY CompletedPort DEF EgressComplete, HopType, OutPort
  <1> SUFFICES ASSUME NEW v \in Up PROVE Counted(v)'
    BY DEF CountInv
  <1>3. /\ IsFiniteSet(InQueues(out', v))
        /\ Cardinality(InQueues(out, v)) \in Nat
        /\ Cardinality(InQueues(out', v))
             = Cardinality(InQueues(out, v)) - IF u = v THEN 1 ELSE 0
    BY <1>2, QueuesShrink DEF CountInv, Counted, HopType
  <1> HIDE DEF u
  <1>4. ingress'[v].queuesize = ingress[v].queuesize - IF u = v THEN 1 ELSE 0
    BY <1>1 DEF IngressCompleted, HopType
  <1>5. Cardinality(InPipeline(fabric, v)) \in Nat
    BY FS_CardinalityType DEF CountInv, Counted
  <1> QED BY <1>1, <1>3, <1>4, <1>5 DEF CountInv, Counted

LEMMA TickCounts ==
    ASSUME HopType, CountInv, Tick
    PROVE  CountInv'
  <1> SUFFICES ASSUME NEW v \in Up PROVE Counted(v)'
    BY DEF CountInv
  <1>1. InQueues(out', v) = InQueues(out, v)
    <2>1. \A e \in Egress : out'[e].enqueued = out[e].enqueued
      BY AgedPort DEF HopType, OutPort, Tick, SwitchTick, Due, SwitchDue
    <2> QED BY <2>1, QueuesSame
  <1>2. InPipeline(fabric', v) = InPipeline(fabric, v)
    <2>1. /\ fabric \in Seq(Inside) /\ InOrder(fabric) /\ ~Arrived(fabric)
          /\ fabric' = Aged(fabric)
      BY DEF HopType, Ordered, Tick, SwitchTick, Due, SwitchDue
    <2>2. /\ fabric' \in Seq(Inside) /\ Len(fabric') = Len(fabric)
          /\ \A i \in 1 .. Len(fabric) : fabric'[i] = [fabric[i] EXCEPT !.left = @ - 1]
      BY <2>1, AllTimed, GetsOlder
    <2>3. \A i \in 1 .. Len(fabric) : fabric[i] \in Inside
      BY <2>1, ElementOfSeq
    <2>4. \A i \in 1 .. Len(fabric) : fabric'[i].from = fabric[i].from
      BY <2>2, <2>3 DEF Inside
    <2>5. DOMAIN fabric = 1 .. Len(fabric) /\ DOMAIN fabric' = 1 .. Len(fabric)
      BY <2>1, <2>2, LenProperties
    <2> QED BY <2>4, <2>5 DEF InPipeline
  <1> QED BY <1>1, <1>2 DEF CountInv, Counted, Tick, SwitchTick

LEMMA NextCounts ==
    ASSUME HopType, HopType', CountInv, [Next]_vars
    PROVE  CountInv'
  <1>1. ASSUME fabric' = fabric, ingress' = ingress,
               \A e \in Egress : out'[e].enqueued = out[e].enqueued
        PROVE  CountInv'
    BY <1>1, QueuesSame DEF CountInv, Counted
  <1>2. ASSUME NEW u \in Up, NEW e \in Egress, Offer(u, e) PROVE CountInv'
    BY <1>1, <1>2 DEF Offer, switchVars
  <1>3. ASSUME NEW u \in Up, UpstreamComplete(u) \/ FrameArrives(u) PROVE CountInv'
    BY <1>1, <1>3 DEF UpstreamComplete, Launch, FrameArrives, TakeFrame
  <1>4. ASSUME NEW e \in Egress, EgressPaused(e) \/ EgressResumed(e) PROVE CountInv'
    <2>1. \A x \in Egress : out'[x].enqueued = out[x].enqueued
      <3>1. PortOK(out[e]) /\ out \in [Egress -> OutPort]
        BY DEF HopType, OutPort
      <3>2. /\ ReceivePause(out[e]).enqueued = out[e].enqueued
            /\ ReceiveResume(out[e]).enqueued = out[e].enqueued
        BY <3>1, PausedPort, ResumedPort
      <3> QED BY <1>4, <3>1, <3>2 DEF EgressPaused, EgressResumed
    <2> QED BY <1>1, <1>4, <2>1 DEF EgressPaused, EgressResumed
  <1>5. ASSUME UNCHANGED vars PROVE CountInv'
    BY <1>1, <1>5 DEF vars, switchVars
  <1> QED BY <1>2, <1>3, <1>4, <1>5, Steps, IngressReceiveCounts, SwitchForwardsCounts,
             EgressCompleteCounts, TickCounts

LEMMA InitCounts == Init => CountInv
  <1> SUFFICES ASSUME Init, NEW u \in Up PROVE Counted(u)
    BY DEF CountInv
  <1>1. fabric = <<>> /\ out = [e \in Egress |-> EmptyQueue] /\ ingress[u].queuesize = 0
    BY DEF Init, SwitchInit
  <1>2. InPipeline(fabric, u) = {} /\ InQueues(out, u) = {}
    BY <1>1 DEF InPipeline, InQueues, EmptyQueue
  <1>3. IsFiniteSet({}) /\ Cardinality({}) = 0
    BY FS_EmptySet
  <1>4. /\ IsFiniteSet(InPipeline(fabric, u)) /\ Cardinality(InPipeline(fabric, u)) = 0
        /\ IsFiniteSet(InQueues(out, u)) /\ Cardinality(InQueues(out, u)) = 0
    BY <1>2, <1>3, Zenon
  <1> QED BY <1>1, <1>4 DEF Counted

LEMMA CountInvCorrect == Spec => []CountInv
  BY InitCounts, NextCounts, HopTypeCorrect, PTL DEF Spec

(***************************************************************************)
(* The theorems about the count                                            *)
(***************************************************************************)

(* An input queue counts its packets in the switch, no more and no less,   *)
(* however the departures of several output queues interleave.             *)
THEOREM AccountingCorrect == Spec => []Accounting
  <1>1. HopType /\ CountInv => Accounting
    BY PlacesAgree DEF CountInv, Counted, Accounting
  <1> QED BY <1>1, HopTypeCorrect, CountInvCorrect, PTL

(* The type invariant of the hop.  That _queuesize never goes below zero   *)
(* follows only from the count.                                            *)
THEOREM TypeCorrect == Spec => []TypeOK
  <1>1. ASSUME HopType, CountInv PROVE TypeOK
    <2>1. ASSUME NEW u \in Up PROVE ingress[u].queuesize \in Nat
      BY FS_CardinalityType, <1>1 DEF CountInv, Counted
    <2>2. ingress \in [Up -> [queuesize : Nat, state_recv : {"READY", "PAUSED"}]]
      BY <1>1, <2>1 DEF HopType
    <2> QED BY <1>1, <2>2 DEF HopType, Ordered, UpPort, OutPort, OnLink, Inside, Frame,
               TypeOK, SwitchTypeOK
  <1> QED BY <1>1, HopTypeCorrect, CountInvCorrect, PTL

----------------------------------------------------------------------------
(***************************************************************************)
(* No overrun.  The packets on a link are a packet time apart, the next    *)
(* one leaves when the service of the port ends, and a PAUSE on the wire   *)
(* gets there while the headroom holds what is sent before it.             *)
(***************************************************************************)

(* The time k packets take.                                                *)
Times(k) == k * TxTime

LEMMA TimesFacts ==
    /\ Times(0) = 0 /\ Times(1) = TxTime /\ TxTime \in Nat \ {0}
    /\ \A k \in Int : Times(k) \in Int /\ Times(k + 1) = Times(k) + TxTime
                      /\ Times(k - 1) = Times(k) - TxTime
    /\ \A j, k \in Int : Times(j - k) = Times(j) - Times(k)
    /\ \A k \in Int : Times(k) > 0 => k > 0
  <1>1. TxTime \in Nat \ {0}
    BY PfcAssumption
  <1>2. ASSUME NEW k \in Int
        PROVE  Times(k) \in Int /\ Times(k + 1) = Times(k) + TxTime
               /\ Times(k - 1) = Times(k) - TxTime
    BY <1>1 DEF Times
  <1>3. ASSUME NEW j \in Int, NEW k \in Int PROVE Times(j - k) = Times(j) - Times(k)
    BY <1>1 DEF Times
  <1>4. ASSUME NEW k \in Int, Times(k) > 0 PROVE k > 0
    <2>1. CASE k <= 0
      <3>1. k * TxTime <= 0
        BY <1>1, <2>1
      <3> QED BY <1>4, <3>1, <1>2 DEF Times
    <2> QED BY <2>1
  <1>5. Times(0) = 0 /\ Times(1) = TxTime
    BY <1>1 DEF Times
  <1> QED BY <1>1, <1>2, <1>3, <1>4, <1>5

LEMMA TimesUp == \A k \in Int : Times(k) \in Int /\ Times(k + 1) = Times(k) + TxTime
  BY TimesFacts

LEMMA HeadroomFacts ==
    /\ Headroom \in Nat /\ High \in Nat /\ LinkDelay \in Nat /\ WireDelay \in Nat
    /\ Times(Headroom) > LinkDelay + WireDelay
  <1> DEFINE d == LinkDelay + WireDelay
  <1>1. d \in Nat /\ TxTime \in Nat \ {0} /\ High \in Nat /\ LinkDelay \in Nat /\ WireDelay \in Nat
    BY PfcAssumption
  <1> DEFINE h == d \div TxTime
  <1>2. Headroom = h + 1
    BY DEF Headroom
  <1>3. h \in Int /\ d < TxTime * h + TxTime
    <2> HIDE DEF d
    <2>1. d % TxTime \in 0 .. TxTime - 1 /\ d = TxTime * h + (d % TxTime)
      BY <1>1
    <2> QED BY <1>1, <2>1
  <1> HIDE DEF d, h
  <1>0. h \in Int
    BY <1>3
  <1>4. Times(h) = TxTime * h
    BY <1>1, <1>3 DEF Times
  <1>5. h + 1 \in Int /\ Times(h + 1) \in Int /\ Times(h + 1) = Times(h) + TxTime
    BY <1>0, TimesUp
  <1>6. Times(h + 1) > d
    BY <1>1, <1>3, <1>4, <1>5
  <1>7. h + 1 > 0
    <2>1. h + 1 \in Int
      BY <1>5
    <2>2. Times(h + 1) > 0
      BY <1>1, <1>5, <1>6
    <2> QED BY <2>1, <2>2, TimesFacts
  <1> QED BY <1>1, <1>2, <1>5, <1>6, <1>7 DEF d

(* Ticks until a port can begin its next packet, if it may.                *)
Left(q) == IF q.sending THEN Head(q.service) ELSE TxTime

LEMMA LeftOfPort ==
    ASSUME NEW q, PortOK(q)
    PROVE  /\ Left(q) \in 0 .. TxTime /\ q.sending \in BOOLEAN
           /\ q.sending => q.service = <<Left(q)>>
           /\ ~q.sending => Left(q) = TxTime /\ q.service = <<>>
           /\ TxTime \in Nat \ {0}
  <1>1. L!PortOK(q)
    BY SamePort
  <1>2. /\ q.sending => /\ q.service[1] \in 0 .. TxTime
                        /\ q.service = <<q.service[1]>>
        /\ ~q.sending => q.service = <<>>
    BY <1>1, SameTime, L!ServiceShape
  <1> QED BY <1>2, PfcAssumption DEF Left, PortOK, Queue

LEMMA PausedPace ==
    ASSUME NEW q, PortOK(q)
    PROVE  Left(ReceivePause(q)) = Left(q) /\ ReceivePause(q).sending = q.sending
  BY DEF PortOK, Queue, ReceivePause, Left

LEMMA ResumedPace ==
    ASSUME NEW q, PortOK(q)
    PROVE  Left(ReceiveResume(q)) = Left(q)
  BY LeftOfPort DEF PortOK, Queue, ReceiveResume, BeginService, Left

LEMMA PacketPace ==
    ASSUME NEW q, PortOK(q), NEW tag
    PROVE  /\ Left(ReceivePacket(q, tag)) = Left(q)
           /\ q.state_send # "READY" => ReceivePacket(q, tag).sending = q.sending
  <1>1. CASE q.enqueued = <<>> /\ q.state_send = "READY"
    <2>1. ~q.sending /\ Left(q) = TxTime /\ q.service = <<>>
      BY <1>1, LeftOfPort DEF PortOK, OneService
    <2>2. ReceivePacket(q, tag) = BeginService([q EXCEPT !.enqueued = Append(q.enqueued, tag)])
      BY <1>1 DEF ReceivePacket
    <2>3. /\ ReceivePacket(q, tag).sending
          /\ ReceivePacket(q, tag).service = Append(<<>>, TxTime)
      BY <2>1, <2>2 DEF PortOK, Queue, BeginService
    <2>4. Head(ReceivePacket(q, tag).service) = TxTime
      BY <2>3, TimesFacts
    <2> QED BY <1>1, <2>1, <2>3, <2>4 DEF Left
  <1>2. CASE ~(q.enqueued = <<>> /\ q.state_send = "READY")
    BY <1>2 DEF PortOK, Queue, ReceivePacket, Left
  <1> QED BY <1>1, <1>2

LEMMA CompletedPace ==
    ASSUME NEW q, PortOK(q), ServiceDue(q)
    PROVE  /\ Left(q) = 0 /\ q.sending
           /\ Left(CompleteService(q)) = TxTime
           /\ q.state_send # "READY" => ~CompleteService(q).sending
  <1>1. q.sending /\ q.service = <<0>>
    BY LeftOfPort DEF ServiceDue
  <1>2. Tail(q.service) = <<>>
    BY <1>1
  <1> QED BY <1>1, <1>2 DEF PortOK, Queue, SendStates, CompleteService, BeginService, Left

LEMMA AgedPace ==
    ASSUME NEW q, PortOK(q), ~ServiceDue(q)
    PROVE  /\ Left(Age(q)) = IF q.sending THEN Left(q) - 1 ELSE Left(q)
           /\ Age(q).sending = q.sending
  BY LeftOfPort DEF PortOK, Queue, ServiceDue, Age, Left

(***************************************************************************)
(* A link that cannot overrun: the port q, the pipe p, the wire w and the  *)
(* input queue i at its ends.                                              *)
(***************************************************************************)

(* Each packet on the link, and the next to be sent, is a packet time      *)
(* behind the one before it.                                               *)
Spaced(q, p) ==
    \A k \in 1 .. Len(p) : LinkDelay + Left(q) - p[k].left >= Times(Len(p) + 1 - k)

(* What the input queue has room for beyond what is on the link.           *)
Spare(p, n) == High + 1 + Headroom - n - Len(p)

(* A paused queue has room for the packets that can be sent before the     *)
(* PAUSE arrives; once it has, for the one still in service.               *)
InTime(q, p, w, i) ==
    IF i.state_recv = "READY" THEN i.queuesize <= High
    ELSE IF w = <<>> THEN Spare(p, i.queuesize) >= (IF q.sending THEN 1 ELSE 0)
    ELSE Left(q) + Times(Spare(p, i.queuesize) - 1) > w[Len(w)].left

Safe(q, p, w, i) == Spaced(q, p) /\ InTime(q, p, w, i)

Ingress == [queuesize : Int, state_recv : {"READY", "PAUSED"}]

LEMMA SpareType ==
    ASSUME NEW p \in Seq(OnLink), NEW n \in Int
    PROVE  Spare(p, n) \in Int /\ Len(p) \in Nat
  BY HeadroomFacts, LenProperties DEF Spare

LEMMA SpareGrows ==
    ASSUME NEW p \in Seq(OnLink), NEW n \in Int
    PROVE  Spare(p, n - 1) = Spare(p, n) + 1
  BY HeadroomFacts, LenProperties DEF Spare

LEMMA PipeFacts ==
    ASSUME NEW p \in Seq(OnLink)
    PROVE  /\ Len(p) \in Nat
           /\ \A k \in 1 .. Len(p) : p[k] \in OnLink /\ p[k].left \in 0 .. LinkDelay
  <1>1. \A k \in 1 .. Len(p) : p[k] \in OnLink
    BY ElementOfSeq
  <1> QED BY <1>1, LenProperties DEF OnLink

LEMMA WireFacts ==
    ASSUME NEW w \in Seq(Frame)
    PROVE  /\ Len(w) \in Nat
           /\ w # <<>> => Len(w) \in 1 .. Len(w) /\ w[Len(w)] \in Frame
                          /\ w[Len(w)].left \in 0 .. WireDelay
  <1>1. Len(w) \in Nat /\ (w # <<>> => Len(w) # 0)
    BY LenProperties, EmptyIsShort
  <1>2. w # <<>> => Len(w) \in 1 .. Len(w)
    BY <1>1
  <1>3. \A k \in 1 .. Len(w) : w[k] \in Frame
    BY ElementOfSeq
  <1> QED BY <1>1, <1>2, <1>3 DEF Frame

(* A queue that cannot overrun has not overrun.                            *)
LEMMA SafeIsBounded ==
    ASSUME NEW q, PortOK(q), NEW p \in Seq(OnLink), NEW w \in Seq(Frame), NEW i \in Ingress,
           Safe(q, p, w, i)
    PROVE  i.queuesize <= High + 1 + Headroom
  <1> DEFINE s == Spare(p, i.queuesize)
  <1>1. i.queuesize \in Int /\ s \in Int /\ Len(p) \in Nat /\ s - 1 \in Int
    BY SpareType DEF Ingress
  <1>2. s >= 0 => i.queuesize <= High + 1 + Headroom
    BY <1>1, HeadroomFacts DEF Spare
  <1>3. CASE i.state_recv = "READY"
    BY <1>1, <1>3, HeadroomFacts DEF Safe, InTime
  <1>4. CASE i.state_recv # "READY" /\ w = <<>>
    BY <1>1, <1>2, <1>4 DEF Safe, InTime
  <1>5. CASE i.state_recv # "READY" /\ w # <<>>
    <2>1. Left(q) + Times(s - 1) > w[Len(w)].left
      BY <1>5 DEF Safe, InTime
    <2>2. Left(q) \in 0 .. TxTime /\ w[Len(w)].left \in Nat /\ TxTime \in Nat
      BY <1>5, LeftOfPort, WireFacts
    <2> HIDE DEF s
    <2>3. Times(s) = Times(s - 1) + TxTime /\ Times(s - 1) \in Int /\ Times(s) \in Int
      <3>1. s - 1 + 1 = s
        BY <1>1
      <3> QED BY <1>1, <3>1, TimesUp
    <2>4. Times(s) > 0
      BY <2>1, <2>2, <2>3
    <2>5. s > 0
      BY <1>1, <2>4, TimesFacts
    <2> QED BY <1>1, <1>2, <2>5
  <1> QED BY <1>3, <1>4, <1>5

(* The port keeps its pace: an arrival, or a frame that is not the last.   *)
LEMMA SamePace ==
    ASSUME NEW q, NEW r, NEW p, NEW w, NEW i, Safe(q, p, w, i), Left(r) = Left(q),
           w = <<>> /\ i.state_recv # "READY" => r.sending = q.sending
    PROVE  Safe(r, p, w, i)
  BY DEF Safe, Spaced, InTime

(* The port finishes a packet, which enters the link.                      *)
LEMMA LaunchSafe ==
    ASSUME NEW q, PortOK(q), ServiceDue(q), NEW p \in Seq(OnLink), NEW w \in Seq(Frame),
           NEW i \in Ingress, NEW x \in OnLink, x.left = LinkDelay,
           Agrees(q, w, i.state_recv), Safe(q, p, w, i)
    PROVE  Safe(CompleteService(q), Append(p, x), w, i)
  <1> DEFINE r == CompleteService(q)
             pp == Append(p, x)
             s == Spare(p, i.queuesize)
             t == Spare(pp, i.queuesize)
  <1>1. /\ Left(q) = 0 /\ q.sending /\ Left(r) = TxTime
        /\ q.state_send # "READY" => ~r.sending
    BY CompletedPace
  <1>2. /\ pp \in Seq(OnLink) /\ Len(pp) = Len(p) + 1 /\ Len(p) \in Nat
        /\ \A k \in 1 .. Len(p) : pp[k] = p[k]
        /\ pp[Len(p) + 1] = x
    BY AppendProperties, LenProperties
  <1>3. i.queuesize \in Int /\ s \in Int /\ s - 1 \in Int /\ t = s - 1
    BY <1>2, HeadroomFacts DEF Ingress, Spare
  <1> HIDE DEF r, pp, s, t
  <1>4. Spaced(r, pp)
    <2> SUFFICES ASSUME NEW k \in 1 .. Len(p) + 1
                 PROVE  LinkDelay + TxTime - pp[k].left >= Times(Len(p) + 2 - k)
      BY <1>1, <1>2 DEF Spaced
    <2>1. CASE k \in 1 .. Len(p)
      <3>1. LinkDelay + 0 - p[k].left >= Times(Len(p) + 1 - k)
        BY <1>1, <2>1 DEF Safe, Spaced
      <3>2. Len(p) + 1 - k \in Int /\ (Len(p) + 1 - k) + 1 = Len(p) + 2 - k
        BY <1>2
      <3>3. Times(Len(p) + 2 - k) = Times(Len(p) + 1 - k) + TxTime
            /\ Times(Len(p) + 1 - k) \in Int
        BY <3>2, TimesUp
      <3>4. p[k].left \in Int /\ LinkDelay \in Int /\ TxTime \in Int
        <4>1. p[k].left \in 0 .. LinkDelay
          BY <2>1, PipeFacts
        <4> QED BY <4>1, PfcAssumption
      <3>5. pp[k] = p[k]
        BY <1>2, <2>1
      <3>6. Times(Len(p) + 1 - k) \in Int
        BY <3>3
      <3>7. LinkDelay + TxTime - p[k].left >= Times(Len(p) + 1 - k) + TxTime
        BY <3>1, <3>4, <3>6
      <3> QED BY <3>3, <3>5, <3>7
    <2>2. CASE k = Len(p) + 1
      <3>1. Len(p) + 2 - k = 1 /\ pp[k].left = LinkDelay
        BY <1>2, <2>2
      <3> QED BY <3>1, TimesFacts, HeadroomFacts
    <2> QED BY <1>2, <2>1, <2>2
  <1>5. InTime(r, pp, w, i)
    <2>1. CASE i.state_recv = "READY"
      BY <2>1 DEF Safe, InTime
    <2>2. CASE i.state_recv # "READY" /\ w = <<>>
      <3>1. ~r.sending
        BY <1>1, <2>2 DEF Agrees, Ingress
      <3>2. s >= 1
        BY <1>1, <2>2 DEF Safe, InTime, s
      <3> QED BY <1>3, <2>2, <3>1, <3>2 DEF InTime, t
    <2>3. CASE i.state_recv # "READY" /\ w # <<>>
      <3>1. 0 + Times(s - 1) > w[Len(w)].left
        BY <1>1, <2>3 DEF Safe, InTime, s
      <3>2. w[Len(w)].left \in Int
        BY <2>3, WireFacts
      <3>3. /\ Times(s - 1) \in Int /\ Times(t - 1) \in Int
            /\ TxTime + Times(t - 1) = Times(s - 1)
        <4>1. t - 1 + 1 = s - 1 /\ t - 1 \in Int
          BY <1>3
        <4>2. /\ Times(t - 1) \in Int /\ Times(t - 1 + 1) = Times(t - 1) + TxTime
              /\ Times(s - 1) \in Int
          BY <1>3, <4>1, TimesUp
        <4> QED BY <4>1, <4>2, PfcAssumption
      <3>4. Left(r) + Times(t - 1) > w[Len(w)].left
        BY <1>1, <3>1, <3>2, <3>3
      <3> QED BY <2>3, <3>4 DEF InTime, t
    <2> QED BY <2>1, <2>2, <2>3
  <1> QED BY <1>4, <1>5 DEF Safe, r, pp

(* A frame arrives.  If it is the last one on the wire and says PAUSE, the *)
(* port may finish the packet in service and send no other.                *)
LEMMA FrameSafe ==
    ASSUME NEW q, PortOK(q), NEW p \in Seq(OnLink), NEW w \in Seq(Frame), NEW i \in Ingress,
           w # <<>>, NEW r, PortOK(r), Left(r) = Left(q), Safe(q, p, w, i)
    PROVE  Safe(r, p, Tail(w), i)
  <1> DEFINE s == Spare(p, i.queuesize)
  <1>1. /\ Len(w) \in Nat \ {0} /\ Len(Tail(w)) = Len(w) - 1 /\ Tail(w) \in Seq(Frame)
        /\ \A k \in 1 .. Len(w) - 1 : Tail(w)[k] = w[k + 1]
    BY HeadTailProperties, LenProperties, EmptySeq
  <1>2. Tail(w) = <<>> <=> Len(w) = 1
    <2>1. Tail(w) = <<>> <=> Len(Tail(w)) = 0
      BY <1>1, EmptyIsShort, Zenon
    <2> QED BY <1>1, <2>1
  <1>3. s \in Int /\ s - 1 \in Int
    BY SpareType DEF Ingress
  <1>4. Spaced(r, p)
    BY DEF Safe, Spaced
  <1> HIDE DEF s
  <1>5. CASE i.state_recv = "READY"
    BY <1>4, <1>5 DEF Safe, InTime
  <1>6. CASE i.state_recv # "READY"
    <2>1. Left(r) + Times(s - 1) > w[Len(w)].left
      BY <1>6 DEF Safe, InTime, s
    <2>2. CASE Len(w) = 1
      <3>1. Left(r) \in 0 .. TxTime /\ w[Len(w)].left \in Nat /\ TxTime \in Nat
        BY LeftOfPort, WireFacts
      <3>2. s - 1 \in Int /\ s - 1 + 1 = s
        BY <1>3
      <3>3. Times(s - 1) \in Int /\ Times(s) = Times(s - 1) + TxTime
        BY <3>2, TimesUp
      <3>4. Times(s) > 0
        BY <2>1, <3>1, <3>3
      <3>5. s > 0
        BY <1>3, <3>4, TimesFacts
      <3>6. s >= (IF r.sending THEN 1 ELSE 0)
        BY <1>3, <3>5
      <3> QED BY <1>2, <1>4, <1>6, <2>2, <3>6 DEF Safe, InTime, s
    <2>3. CASE Len(w) # 1
      <3>1. Len(w) - 1 \in 1 .. Len(w) - 1 /\ Len(w) - 1 + 1 = Len(w)
        BY <1>1, <2>3
      <3>2. Tail(w)[Len(Tail(w))] = w[Len(w)] /\ Tail(w) # <<>>
        BY <1>1, <1>2, <2>3, <3>1
      <3> QED BY <1>4, <1>6, <2>1, <3>2 DEF Safe, InTime, s
    <2> QED BY <2>2, <2>3
  <1> QED BY <1>5, <1>6

(* A packet leaves the link for the input queue.                           *)
LEMMA SpacedTail ==
    ASSUME NEW q, NEW p \in Seq(OnLink), p # <<>>, Spaced(q, p)
    PROVE  /\ Spaced(q, Tail(p))
           /\ \A n \in Int : Spare(Tail(p), n + 1) = Spare(p, n)
           /\ Head(p).left = 0 => LinkDelay + Left(q) - 0 >= Times(Len(p))
           /\ Len(p) \in Nat \ {0} /\ Len(Tail(p)) = Len(p) - 1
  <1>1. /\ Len(p) \in Nat \ {0} /\ Len(Tail(p)) = Len(p) - 1 /\ Head(p) = p[1]
        /\ \A k \in 1 .. Len(p) - 1 : Tail(p)[k] = p[k + 1]
    BY HeadTailProperties, LenProperties, EmptySeq
  <1>2. ASSUME NEW k \in 1 .. Len(p) - 1
        PROVE  LinkDelay + Left(q) - Tail(p)[k].left >= Times(Len(p) - 1 + 1 - k)
    <2>1. Len(p) \in Nat \ {0} /\ k \in Nat
      BY <1>1
    <2>2. k + 1 \in 1 .. Len(p) /\ Len(p) + 1 - (k + 1) = Len(p) - 1 + 1 - k
      BY <2>1
    <2> QED BY <1>1, <2>2 DEF Spaced
  <1>3. Spaced(q, Tail(p))
    BY <1>1, <1>2 DEF Spaced
  <1>4. \A n \in Int : Spare(Tail(p), n + 1) = Spare(p, n)
    BY <1>1, HeadroomFacts DEF Spare
  <1>5. Head(p).left = 0 => LinkDelay + Left(q) - 0 >= Times(Len(p))
    <2>1. 1 \in 1 .. Len(p) /\ Len(p) + 1 - 1 = Len(p)
      BY <1>1
    <2> QED BY <1>1, <2>1 DEF Spaced
  <1> QED BY <1>1, <1>3, <1>4, <1>5

LEMMA ReceiveSafe ==
    ASSUME NEW q, PortOK(q), NEW p \in Seq(OnLink), p # <<>>, Head(p).left = 0,
           NEW w \in Seq(Frame), NEW i \in Ingress, Safe(q, p, w, i), NEW n, n = i.queuesize + 1
    PROVE  /\ ~(n > High /\ i.state_recv # "PAUSED") =>
                  \A j : j.queuesize = n /\ j.state_recv = i.state_recv
                            => Safe(q, Tail(p), w, j)
           /\ n > High /\ i.state_recv # "PAUSED" =>
                  \A j, x : j.queuesize = n /\ j.state_recv = "PAUSED"
                               /\ x \in Frame /\ x.left = WireDelay
                            => Safe(q, Tail(p), Append(w, x), j)
  <1>1. /\ Spaced(q, Tail(p)) /\ Spare(Tail(p), n) = Spare(p, i.queuesize)
        /\ LinkDelay + Left(q) - 0 >= Times(Len(p))
        /\ Len(p) \in Nat \ {0} /\ Len(Tail(p)) = Len(p) - 1
    BY SpacedTail DEF Safe, Ingress
  <1>2. i.queuesize \in Int /\ i.state_recv \in {"READY", "PAUSED"} /\ n \in Int
    BY DEF Ingress
  <1>3. ASSUME ~(n > High /\ i.state_recv # "PAUSED"), NEW j, j.queuesize = n,
               j.state_recv = i.state_recv
        PROVE  Safe(q, Tail(p), w, j)
    <2>1. CASE i.state_recv = "READY"
      BY <1>1, <1>2, <1>3, <2>1, HeadroomFacts DEF Safe, InTime
    <2>2. CASE i.state_recv # "READY"
      BY <1>1, <1>3, <2>2 DEF Safe, InTime
    <2> QED BY <2>1, <2>2
  <1>4. ASSUME n > High, i.state_recv # "PAUSED", NEW j, NEW x, j.queuesize = n,
               j.state_recv = "PAUSED", x \in Frame, x.left = WireDelay
        PROVE  Safe(q, Tail(p), Append(w, x), j)
    <2>1. i.queuesize <= High
      BY <1>2, <1>4 DEF Safe, InTime
    <2>2. n = High + 1 /\ High \in Nat /\ Headroom \in Nat
      BY <1>2, <1>4, <2>1, HeadroomFacts
    <2>3. Spare(Tail(p), n) - 1 = Headroom - Len(p)
      BY <1>1, <2>2 DEF Spare
    <2>4. Times(Headroom - Len(p)) = Times(Headroom) - Times(Len(p))
      BY <1>1, <2>2, TimesFacts
    <2>5. Left(q) + Times(Headroom - Len(p)) > WireDelay
      <3>1. Times(Headroom) > LinkDelay + WireDelay /\ LinkDelay \in Int /\ WireDelay \in Int
        BY HeadroomFacts
      <3>2. Times(Headroom) \in Int /\ Times(Len(p)) \in Int
        BY <1>1, <2>2, TimesUp
      <3>3. Left(q) \in Int
        BY LeftOfPort
      <3>4. LinkDelay + Left(q) - 0 >= Times(Len(p))
        BY <1>1
      <3> QED BY <2>4, <3>1, <3>2, <3>3, <3>4
    <2>6. Append(w, x) # <<>> /\ Append(w, x)[Len(Append(w, x))] = x
      BY <1>4, AppendProperties, LenProperties
    <2>7. Left(q) + Times(Spare(Tail(p), j.queuesize) - 1)
              > Append(w, x)[Len(Append(w, x))].left
      BY <1>4, <2>3, <2>5, <2>6
    <2> QED BY <1>1, <1>4, <2>6, <2>7 DEF Safe, InTime
  <1> QED BY <1>3, <1>4

(* A packet of this input queue leaves the switch.                         *)
LEMMA DepartSafe ==
    ASSUME NEW q, PortOK(q), NEW p \in Seq(OnLink), NEW w \in Seq(Frame), NEW i \in Ingress,
           Safe(q, p, w, i), NEW n, n = i.queuesize - 1, NEW j, j.queuesize = n,
           NEW v,
           \/ n < Low /\ j.state_recv = "READY"
           \/ v = w /\ j.state_recv = i.state_recv
    PROVE  Safe(q, p, v, j)
  <1> DEFINE s == Spare(p, i.queuesize)
             t == Spare(p, n)
  <1>1. /\ i.queuesize \in Int /\ n \in Int /\ n <= i.queuesize
        /\ s \in Int /\ s - 1 \in Int /\ t = s + 1
    <2>1. i.queuesize \in Int /\ Len(p) \in Nat /\ s \in Int
      BY SpareType DEF Ingress
    <2>3. t = s + 1
      BY <2>1, SpareGrows
    <2> HIDE DEF s, t
    <2>4. n \in Int /\ n <= i.queuesize
      BY <2>1
    <2>5. s - 1 \in Int
      BY <2>1
    <2> QED BY <2>1, <2>3, <2>4, <2>5
  <1>2. Spaced(q, p)
    BY DEF Safe
  <1> HIDE DEF s, t
  <1>3. CASE n < Low /\ j.state_recv = "READY"
    <2>1. n <= High
      BY <1>1, <1>3, PfcAssumption
    <2> QED BY <1>2, <1>3, <2>1 DEF Safe, InTime
  <1>4. CASE v = w /\ j.state_recv = i.state_recv
    <2>1. CASE i.state_recv = "READY"
      <3>1. n <= High
        BY <1>1, <2>1, HeadroomFacts DEF Safe, InTime
      <3> QED BY <1>2, <1>4, <2>1, <3>1 DEF Safe, InTime
    <2>2. CASE i.state_recv # "READY" /\ w = <<>>
      <3>1. s >= (IF q.sending THEN 1 ELSE 0)
        BY <2>2 DEF Safe, InTime, s
      <3>2. t >= (IF q.sending THEN 1 ELSE 0)
        BY <1>1, <3>1
      <3> QED BY <1>2, <1>4, <2>2, <3>2 DEF Safe, InTime, t
    <2>3. CASE i.state_recv # "READY" /\ w # <<>>
      <3>1. Left(q) + Times(s - 1) > w[Len(w)].left
        BY <2>3 DEF Safe, InTime, s
      <3>5. s - 1 \in Int /\ s - 1 + 1 = t - 1
        BY <1>1
      <3>2. Times(s - 1) \in Int /\ Times(t - 1) = Times(s - 1) + TxTime
        BY <3>5, TimesUp
      <3>3. Left(q) \in Int /\ w[Len(w)].left \in Int /\ TxTime \in Nat
        BY <2>3, LeftOfPort, WireFacts
      <3>4. Left(q) + Times(t - 1) > w[Len(w)].left
        BY <3>1, <3>2, <3>3
      <3> QED BY <1>2, <1>4, <2>3, <3>4 DEF Safe, InTime, t
    <2> QED BY <2>1, <2>2, <2>3
  <1> QED BY <1>3, <1>4

(* A tick brings everything closer at the same pace.                       *)
LEMMA AgedSafe ==
    ASSUME NEW q, PortOK(q), ~ServiceDue(q),
           NEW p \in Seq(OnLink), InOrder(p), ~Arrived(p),
           NEW w \in Seq(Frame), InOrder(w), ~Arrived(w),
           NEW i \in Ingress, Safe(q, p, w, i)
    PROVE  Safe(Age(q), Aged(p), Aged(w), i)
  <1> DEFINE r == Age(q)
  <1>1. /\ Aged(p) \in Seq(OnLink) /\ Len(Aged(p)) = Len(p)
        /\ \A k \in 1 .. Len(p) : Aged(p)[k] = [p[k] EXCEPT !.left = @ - 1]
    BY AllTimed, GetsOlder
  <1>2. /\ Aged(w) \in Seq(Frame) /\ Len(Aged(w)) = Len(w)
        /\ \A k \in 1 .. Len(w) : Aged(w)[k] = [w[k] EXCEPT !.left = @ - 1]
    BY AllTimed, GetsOlder
  <1>3. /\ Len(p) \in Nat
        /\ \A k \in 1 .. Len(p) : Aged(p)[k].left = p[k].left - 1 /\ p[k].left \in Int
    <2>1. Len(p) \in Nat /\ \A k \in 1 .. Len(p) : p[k] \in OnLink
      BY PipeFacts
    <2>2. \A x \in OnLink : [x EXCEPT !.left = @ - 1].left = x.left - 1 /\ x.left \in Int
      BY DEF OnLink
    <2> QED BY <1>1, <2>1, <2>2
  <1>4. /\ Len(w) \in Nat /\ (Aged(w) = <<>> <=> w = <<>>)
        /\ w # <<>> => /\ Aged(w)[Len(Aged(w))].left = w[Len(w)].left - 1
                       /\ w[Len(w)].left \in Int
    <2>1. Aged(w) = <<>> <=> w = <<>>
      <3>1. (Aged(w) = <<>> <=> Len(Aged(w)) = 0) /\ (w = <<>> <=> Len(w) = 0)
        BY <1>2, EmptyIsShort
      <3> QED BY <1>2, <3>1
    <2>2. Len(w) \in Nat /\ (w # <<>> => Len(w) \in 1 .. Len(w) /\ w[Len(w)] \in Frame)
      BY WireFacts
    <2>3. \A x \in Frame : [x EXCEPT !.left = @ - 1].left = x.left - 1 /\ x.left \in Int
      BY DEF Frame
    <2> QED BY <1>2, <2>1, <2>2, <2>3
  <1>5. /\ Left(r) \in Int /\ Left(q) \in Int /\ Left(r) >= Left(q) - 1
        /\ r.sending = q.sending
    BY AgedPace, LeftOfPort
  <1> HIDE DEF r
  <1>6. Spaced(r, Aged(p))
    <2> SUFFICES ASSUME NEW k \in 1 .. Len(p)
                 PROVE  LinkDelay + Left(r) - Aged(p)[k].left >= Times(Len(p) + 1 - k)
      BY <1>1 DEF Spaced
    <2> DEFINE m == Times(Len(p) + 1 - k)
    <2>1. LinkDelay + Left(q) - p[k].left >= m
      BY DEF Safe, Spaced
    <2>2. Len(p) + 1 - k \in Int
      BY <1>3
    <2>3. m \in Int /\ LinkDelay \in Int
      BY <2>2, TimesUp, PfcAssumption
    <2>4. Aged(p)[k].left = p[k].left - 1 /\ p[k].left \in Int
      BY <1>3
    <2> HIDE DEF m
    <2>5. LinkDelay + Left(r) - Aged(p)[k].left >= m
      BY <1>5, <2>1, <2>3, <2>4
    <2> QED BY <2>5 DEF m
  <1>7. Spare(Aged(p), i.queuesize) = Spare(p, i.queuesize)
    BY <1>1 DEF Spare
  <1>8. InTime(r, Aged(p), Aged(w), i)
    <2>1. CASE i.state_recv = "READY" \/ w = <<>>
      BY <1>4, <1>5, <1>7, <2>1 DEF Safe, InTime
    <2>2. CASE i.state_recv # "READY" /\ w # <<>>
      <3>1. Left(q) + Times(Spare(p, i.queuesize) - 1) > w[Len(w)].left
        BY <2>2 DEF Safe, InTime
      <3>2. Times(Spare(p, i.queuesize) - 1) \in Int
        <4>1. Spare(p, i.queuesize) - 1 \in Int
          BY SpareType DEF Ingress
        <4> QED BY <4>1, TimesUp
      <3>3. Left(r) + Times(Spare(p, i.queuesize) - 1) > w[Len(w)].left - 1
        BY <1>4, <1>5, <2>2, <3>1, <3>2
      <3> QED BY <1>4, <1>7, <2>2, <3>3 DEF InTime
    <2> QED BY <2>1, <2>2
  <1> QED BY <1>6, <1>8 DEF Safe, r

(***************************************************************************)
(* Every handler keeps every link safe.                                    *)
(***************************************************************************)

SafeLink(u) == Safe(up[u], pipe[u], wire[u], ingress[u])

SafeInv == \A u \in Up : SafeLink(u)

LEMMA LinkTypes ==
    ASSUME HopType, NEW u \in Up
    PROVE  /\ PortOK(up[u]) /\ up[u] \in UpPort
           /\ pipe[u] \in Seq(OnLink) /\ InOrder(pipe[u])
           /\ wire[u] \in Seq(Frame) /\ InOrder(wire[u])
           /\ ingress[u] \in Ingress
  BY DEF HopType, UpPort, Ordered, Ingress

(* Nothing of a link changes but, perhaps, its port, at the same pace.     *)
LEMMA SafeElsewhere ==
    ASSUME NEW v \in Up, SafeLink(v), up'[v] = up[v], pipe'[v] = pipe[v],
           wire'[v] = wire[v], ingress'[v] = ingress[v]
    PROVE  SafeLink(v)'
  BY DEF SafeLink

LEMMA OfferSafe ==
    ASSUME HopType, LinksInv, SafeInv, NEW u \in Up, NEW e \in Egress, Offer(u, e)
    PROVE  SafeInv'
  <1> SUFFICES ASSUME NEW v \in Up PROVE SafeLink(v)'
    BY DEF SafeInv
  <1>1. /\ up' = [up EXCEPT ![u] = ReceivePacket(@, e)] /\ pipe' = pipe
        /\ wire' = wire /\ ingress' = ingress
    BY DEF Offer, switchVars
  <1>2. CASE v # u
    BY <1>1, <1>2, SafeElsewhere DEF HopType, SafeInv
  <1>3. CASE v = u
    <2>1. /\ Left(up'[u]) = Left(up[u])
          /\ up[u].state_send # "READY" => up'[u].sending = up[u].sending
      BY <1>1, LinkTypes, PacketPace DEF HopType
    <2>2. wire[u] = <<>> /\ ingress[u].state_recv # "READY" => up[u].state_send # "READY"
      BY LinkTypes DEF LinksInv, Linked, Agrees, Ingress
    <2>3. Safe(up[u], pipe[u], wire[u], ingress[u])
      BY DEF SafeInv, SafeLink
    <2>4. Safe(up'[u], pipe[u], wire[u], ingress[u])
      BY <2>1, <2>2, <2>3, SamePace
    <2> QED BY <1>1, <1>3, <2>4 DEF SafeLink
  <1> QED BY <1>2, <1>3

LEMMA UpstreamCompleteSafe ==
    ASSUME HopType, LinksInv, SafeInv, NEW u \in Up, UpstreamComplete(u)
    PROVE  SafeInv'
  <1> DEFINE x == [left |-> LinkDelay, to |-> Head(up[u].enqueued)]
  <1> SUFFICES ASSUME NEW v \in Up PROVE SafeLink(v)'
    BY DEF SafeInv
  <1>1. /\ up' = [up EXCEPT ![u] = CompleteService(@)]
        /\ pipe' = [pipe EXCEPT ![u] = Append(@, x)]
        /\ wire' = wire /\ ingress' = ingress /\ ServiceDue(up[u])
    BY DEF UpstreamComplete, Launch
  <1>2. x \in OnLink /\ x.left = LinkDelay
    <2>1. Head(up[u].enqueued) \in Egress
      BY <1>1, LinkTypes, UpPortSteps
    <2> QED BY <2>1, PfcAssumption DEF OnLink
  <1> HIDE DEF x
  <1>3. CASE v # u
    BY <1>1, <1>3, SafeElsewhere DEF HopType, SafeInv
  <1>4. CASE v = u
    <2>1. /\ Agrees(up[u], wire[u], ingress[u].state_recv)
          /\ Safe(up[u], pipe[u], wire[u], ingress[u])
      BY DEF LinksInv, Linked, SafeInv, SafeLink
    <2>2. Safe(CompleteService(up[u]), Append(pipe[u], x), wire[u], ingress[u])
      BY <1>1, <1>2, <2>1, LinkTypes, LaunchSafe
    <2> QED BY <1>1, <1>4, <2>2 DEF SafeLink, HopType
  <1> QED BY <1>3, <1>4

LEMMA FrameArrivesSafe ==
    ASSUME HopType, SafeInv, NEW u \in Up, FrameArrives(u)
    PROVE  SafeInv'
  <1> SUFFICES ASSUME NEW v \in Up PROVE SafeLink(v)'
    BY DEF SafeInv
  <1>1. /\ wire' = [wire EXCEPT ![u] = Tail(@)] /\ wire[u] # <<>>
        /\ up' = [up EXCEPT ![u] = IF Head(wire[u]).pause
                                   THEN ReceivePause(@) ELSE ReceiveResume(@)]
        /\ pipe' = pipe /\ ingress' = ingress
    BY DEF FrameArrives, TakeFrame, Arrived
  <1>2. CASE v # u
    BY <1>1, <1>2, SafeElsewhere DEF HopType, SafeInv
  <1>3. CASE v = u
    <2>1. PortOK(up'[u]) /\ Left(up'[u]) = Left(up[u])
      <3>1. CASE Head(wire[u]).pause
        <4>1. up'[u] = ReceivePause(up[u])
          BY <1>1, <3>1 DEF HopType
        <4> QED BY <4>1, LinkTypes, PausedPort, PausedPace
      <3>2. CASE ~Head(wire[u]).pause
        <4>1. up'[u] = ReceiveResume(up[u])
          BY <1>1, <3>2 DEF HopType
        <4> QED BY <4>1, LinkTypes, ResumedPort, ResumedPace
      <3> QED BY <3>1, <3>2
    <2>2. Safe(up[u], pipe[u], wire[u], ingress[u])
      BY DEF SafeInv, SafeLink
    <2>3. Safe(up'[u], pipe[u], Tail(wire[u]), ingress[u])
      BY <1>1, <2>1, <2>2, LinkTypes, FrameSafe
    <2> QED BY <1>1, <1>3, <2>3 DEF SafeLink, HopType
  <1> QED BY <1>2, <1>3

LEMMA IngressReceiveSafe ==
    ASSUME HopType, SafeInv, NEW u \in Up, IngressReceive(u), UNCHANGED up
    PROVE  SafeInv'
  <1> DEFINE n == ingress[u].queuesize + 1
             pausing == n > High /\ ingress[u].state_recv # "PAUSED"
  <1> SUFFICES ASSUME NEW v \in Up PROVE SafeLink(v)'
    BY DEF SafeInv
  <1>1. /\ pipe' = [pipe EXCEPT ![u] = Tail(@)] /\ pipe[u] # <<>> /\ Head(pipe[u]).left = 0
        /\ ingress' = [ingress EXCEPT ![u] =
                 [queuesize |-> n,
                  state_recv |-> IF pausing THEN "PAUSED" ELSE @.state_recv]]
        /\ IF pausing THEN SendPause(u, TRUE) ELSE UNCHANGED wire
    BY DEF IngressReceive, Arrived
  <1>2. CASE v # u
    <2>1. wire'[v] = wire[v]
      BY <1>1, <1>2, SendElsewhere
    <2> QED BY <1>1, <1>2, <2>1, SafeElsewhere DEF HopType, SafeInv
  <1>3. CASE v = u
    <2>1. Safe(up[u], pipe[u], wire[u], ingress[u])
      BY DEF SafeInv, SafeLink
    <2>2. /\ pipe'[u] = Tail(pipe[u]) /\ ingress'[u].queuesize = n
          /\ ingress'[u].state_recv = IF pausing THEN "PAUSED" ELSE ingress[u].state_recv
      BY <1>1 DEF HopType
    <2>3. n = ingress[u].queuesize + 1
      OBVIOUS
    <2>4. CASE ~pausing
      <3>1. /\ wire'[u] = wire[u] /\ ingress'[u].state_recv = ingress[u].state_recv
            /\ ~(n > High /\ ingress[u].state_recv # "PAUSED")
        BY <1>1, <2>2, <2>4
      <3> HIDE DEF n, pausing
      <3>2. Safe(up[u], Tail(pipe[u]), wire[u], ingress'[u])
        BY <1>1, <2>1, <2>2, <2>3, <3>1, LinkTypes, ReceiveSafe
      <3> QED BY <1>3, <2>2, <3>1, <3>2 DEF SafeLink
    <2>5. CASE pausing
      <3> DEFINE x == [left |-> WireDelay, pause |-> TRUE]
      <3>1. /\ wire'[u] = Append(wire[u], x) /\ ingress'[u].state_recv = "PAUSED"
            /\ n > High /\ ingress[u].state_recv # "PAUSED"
        BY <1>1, <2>2, <2>5 DEF SendPause, HopType
      <3>2. x \in Frame /\ x.left = WireDelay
        BY PfcAssumption DEF Frame
      <3> HIDE DEF n, pausing, x
      <3>3. Safe(up[u], Tail(pipe[u]), Append(wire[u], x), ingress'[u])
        BY <1>1, <2>1, <2>2, <2>3, <3>1, <3>2, LinkTypes, ReceiveSafe
      <3> QED BY <1>3, <2>2, <3>1, <3>3 DEF SafeLink
    <2> QED BY <2>4, <2>5
  <1> QED BY <1>2, <1>3

LEMMA EgressCompleteSafe ==
    ASSUME HopType, SafeInv, NEW e \in Egress, EgressComplete(e), UNCHANGED up
    PROVE  SafeInv'
  <1> DEFINE u == Head(out[e].enqueued)
             n == ingress[u].queuesize - 1
             resuming == n < Low /\ ingress[u].state_recv = "PAUSED"
  <1> SUFFICES ASSUME NEW v \in Up PROVE SafeLink(v)'
    BY DEF SafeInv
  <1>1. u \in Up /\ IngressCompleted(u) /\ pipe' = pipe
    BY OutPortSteps DEF HopType, EgressComplete
  <1> HIDE DEF u
  <1>2. /\ ingress' = [ingress EXCEPT ![u] =
              [queuesize |-> n,
               state_recv |-> IF resuming THEN "READY" ELSE @.state_recv]]
        /\ IF resuming THEN SendPause(u, FALSE) ELSE UNCHANGED wire
    BY <1>1 DEF IngressCompleted
  <1>3. CASE v # u
    <2>1. wire'[v] = wire[v]
      BY <1>1, <1>2, <1>3, SendElsewhere
    <2> QED BY <1>1, <1>2, <1>3, <2>1, SafeElsewhere DEF HopType, SafeInv
  <1>4. CASE v = u
    <2>1. Safe(up[u], pipe[u], wire[u], ingress[u])
      BY <1>1 DEF SafeInv, SafeLink
    <2>2. /\ ingress'[u].queuesize = n /\ n = ingress[u].queuesize - 1
          /\ \/ n < Low /\ ingress'[u].state_recv = "READY"
             \/ wire'[u] = wire[u] /\ ingress'[u].state_recv = ingress[u].state_recv
      BY <1>1, <1>2 DEF HopType
    <2> HIDE DEF n
    <2>3. Safe(up[u], pipe[u], wire'[u], ingress'[u])
      BY <1>1, <2>1, <2>2, LinkTypes, DepartSafe
    <2> QED BY <1>1, <1>4, <2>3 DEF SafeLink
  <1> QED BY <1>3, <1>4

LEMMA TickSafe ==
    ASSUME HopType, SafeInv, Tick
    PROVE  SafeInv'
  <1> SUFFICES ASSUME NEW u \in Up PROVE SafeLink(u)'
    BY DEF SafeInv
  <1>1. /\ up'[u] = Age(up[u]) /\ pipe'[u] = Aged(pipe[u]) /\ wire'[u] = Aged(wire[u])
        /\ ingress'[u] = ingress[u]
        /\ ~ServiceDue(up[u]) /\ ~Arrived(pipe[u]) /\ ~Arrived(wire[u])
    BY DEF Tick, SwitchTick, Due, SwitchDue
  <1>2. Safe(up[u], pipe[u], wire[u], ingress[u])
    BY DEF SafeInv, SafeLink
  <1>3. Safe(Age(up[u]), Aged(pipe[u]), Aged(wire[u]), ingress[u])
    BY <1>1, <1>2, LinkTypes, AgedSafe
  <1> QED BY <1>1, <1>3 DEF SafeLink

LEMMA NextSafe ==
    ASSUME HopType, LinksInv, SafeInv, [Next]_vars
    PROVE  SafeInv'
  <1>1. ASSUME up' = up, pipe' = pipe, wire' = wire, ingress' = ingress PROVE SafeInv'
    BY <1>1 DEF SafeInv, SafeLink
  <1>2. ASSUME SwitchForwards, UNCHANGED up PROVE SafeInv'
    BY <1>1, <1>2 DEF SwitchForwards
  <1>3. ASSUME NEW e \in Egress, EgressPaused(e) \/ EgressResumed(e), UNCHANGED up
        PROVE  SafeInv'
    BY <1>1, <1>3 DEF EgressPaused, EgressResumed
  <1>4. ASSUME UNCHANGED vars PROVE SafeInv'
    BY <1>1, <1>4 DEF vars, switchVars
  <1> QED BY <1>2, <1>3, <1>4, Steps, OfferSafe, UpstreamCompleteSafe, FrameArrivesSafe,
             IngressReceiveSafe, EgressCompleteSafe, TickSafe

LEMMA InitSafe == Init => SafeInv
  <1> SUFFICES ASSUME Init, NEW u \in Up PROVE SafeLink(u)
    BY DEF SafeInv
  <1>1. pipe[u] = <<>> /\ ingress[u].queuesize = 0 /\ ingress[u].state_recv = "READY"
    BY DEF Init, SwitchInit
  <1>2. 1 .. Len(pipe[u]) = {}
    BY <1>1
  <1> QED BY <1>1, <1>2, HeadroomFacts DEF SafeLink, Safe, Spaced, InTime

(* PFC is lossless: whatever the thresholds, the delays and the number of  *)
(* links, an input queue never holds more than its threshold and the       *)
(* headroom its pauses need.                                               *)
THEOREM LosslessCorrect == Spec => []NoOverrun
  <1>1. Spec => []SafeInv
    BY InitSafe, NextSafe, HopTypeCorrect, LinksCorrect, PTL DEF Spec
  <1>2. HopType /\ SafeInv => NoOverrun
    <2> SUFFICES ASSUME HopType, SafeInv, NEW u \in Up
                 PROVE  ingress[u].queuesize <= High + 1 + Headroom
      BY DEF NoOverrun
    <2>1. Safe(up[u], pipe[u], wire[u], ingress[u])
      BY DEF SafeInv, SafeLink
    <2> QED BY <2>1, LinkTypes, SafeIsBounded
  <1> QED BY <1>1, <1>2, HopTypeCorrect, PTL
=============================================================================
