--------------------- MODULE LosslessOutputQueueProofs ---------------------
(***************************************************************************)
(* TypeOK, ServiceInv and PauseStopsPort hold of one PFC port for every    *)
(* transmission time, every set of input queues and every backlog bound.   *)
(* TypeOK is not inductive alone: that no service event is overdue rests   *)
(* on there being at most one, which rests on the send state.  The lemmas  *)
(* of the first part speak of one record, whatever port it is: the hop     *)
(* cites them of its own ports.                                            *)
(***************************************************************************)
EXTENDS LosslessOutputQueue, SequenceTheorems, TLAPS

(***************************************************************************)
(* Every operation of a port keeps PortOK: the queue is well typed, has    *)
(* one service event exactly while it transmits, and its send state says   *)
(* what is in flight.                                                      *)
(***************************************************************************)
PortOK(q) == q \in Queue /\ OneService(q) /\ StateMatchesService(q)

(* A transmitting port has one service event, an idle one none. *)
LEMMA ServiceShape ==
    ASSUME NEW q, PortOK(q)
    PROVE  /\ q.sending => /\ Len(q.service) = 1
                           /\ q.service[1] \in 0 .. TxTime
                           /\ q.service = <<q.service[1]>>
                           /\ q.enqueued # <<>>
           /\ ~q.sending => q.service = <<>>
  BY TxAssumption DEF PortOK, Queue, OneService

(* A new port is idle and READY. *)
LEMMA EmptyOK == PortOK(EmptyQueue)
  BY DEF PortOK, EmptyQueue, Queue, SendStates, OneService, StateMatchesService

(* beginService may be called on a READY queue that holds a packet and is  *)
(* not transmitting: what its assertion and Queue::beginService demand.    *)
LEMMA BeginOK ==
    ASSUME NEW q \in Queue, q.state_send = "READY", ~q.sending,
           q.service = <<>>, q.enqueued # <<>>
    PROVE  PortOK(BeginService(q))
  <1> DEFINE b == BeginService(q)
  <1>1. b \in Queue
    <2>1. Append(q.service, TxTime) \in Seq(0 .. TxTime)
      BY TxAssumption, AppendProperties DEF Queue
    <2> QED BY <2>1 DEF BeginService, Queue
  <1>2. OneService(b) /\ StateMatchesService(b)
    BY TxAssumption DEF BeginService, OneService, StateMatchesService, Queue
  <1> QED BY <1>1, <1>2 DEF PortOK

(* A PAUSE frame, in any state, repeated or not. *)
LEMMA PauseOK ==
    ASSUME NEW q, PortOK(q)
    PROVE  PortOK(ReceivePause(q))
  BY DEF PortOK, ReceivePause, Queue, SendStates, OneService, StateMatchesService

(* A RESUME frame, in any state, matched or not. *)
LEMMA ResumeOK ==
    ASSUME NEW q, PortOK(q)
    PROVE  PortOK(ReceiveResume(q))
  <1> DEFINE r == [q EXCEPT !.state_send = "READY"]
  <1>1. r \in Queue
    BY DEF PortOK, Queue, SendStates
  <1>2. CASE q.enqueued # <<>> /\ ~q.sending
    <2>1. r.state_send = "READY" /\ ~r.sending /\ r.enqueued # <<>>
      BY <1>2 DEF PortOK, Queue
    <2>2. r.service = <<>>
      BY <1>2, ServiceShape DEF PortOK, Queue
    <2>3. PortOK(BeginService(r))
      BY <1>1, <2>1, <2>2, BeginOK
    <2> QED BY <1>2, <2>3 DEF ReceiveResume
  <1>3. CASE ~(q.enqueued # <<>> /\ ~q.sending)
    <2>1. OneService(r) /\ StateMatchesService(r)
      BY <1>3 DEF PortOK, Queue, OneService, StateMatchesService
    <2> QED BY <1>1, <1>3, <2>1 DEF ReceiveResume, PortOK
  <1> QED BY <1>2, <1>3

(* A packet joins the queue and starts it only when it was empty. *)
LEMMA PacketOK ==
    ASSUME NEW q, PortOK(q), NEW tag \in Tags
    PROVE  PortOK(ReceivePacket(q, tag))
  <1> DEFINE l == [q EXCEPT !.enqueued = Append(@, tag)]
  <1>1. l \in Queue /\ l.enqueued # <<>>
    <2>1. Append(q.enqueued, tag) \in Seq(Tags) /\ Append(q.enqueued, tag) # <<>>
      BY AppendProperties DEF PortOK, Queue
    <2> QED BY <2>1 DEF PortOK, Queue
  <1>2. CASE q.enqueued = <<>> /\ q.state_send = "READY"
    <2>1. ~q.sending /\ q.service = <<>>
      BY <1>2, ServiceShape DEF PortOK, OneService
    <2>2. l.state_send = "READY" /\ ~l.sending /\ l.service = <<>>
      BY <1>2, <2>1 DEF PortOK, Queue
    <2>3. PortOK(BeginService(l))
      BY <1>1, <2>2, BeginOK
    <2> QED BY <1>2, <2>3 DEF ReceivePacket
  <1>3. CASE ~(q.enqueued = <<>> /\ q.state_send = "READY")
    <2>1. OneService(l) /\ StateMatchesService(l)
      BY <1>1, <1>3 DEF PortOK, Queue, OneService, StateMatchesService
    <2> QED BY <1>1, <1>3, <2>1 DEF ReceivePacket, PortOK
  <1> QED BY <1>2, <1>3

(* The service event: the head packet leaves, a received PAUSE takes       *)
(* effect, and only a READY queue with another packet starts again.        *)
LEMMA CompleteOK ==
    ASSUME NEW q, PortOK(q), ServiceDue(q)
    PROVE  /\ PortOK(CompleteService(q))
           /\ q.sending
           /\ CompleteService(q).enqueued = Tail(q.enqueued)
  <1> DEFINE s == [enqueued   |-> Tail(q.enqueued),
                   state_send |-> IF q.state_send = "PAUSE_RECEIVED"
                                  THEN "PAUSED" ELSE q.state_send,
                   sending    |-> FALSE,
                   service    |-> Tail(q.service)]
  <1>1. q.sending /\ q.enqueued # <<>> /\ Tail(q.service) = <<>>
    <2>1. q.sending
      BY ServiceShape DEF ServiceDue, PortOK, Queue
    <2>2. Tail(<<q.service[1]>>) = <<>>
      OBVIOUS
    <2> QED BY <2>1, <2>2, ServiceShape
  <1>2. s \in Queue
    <2>1. Tail(q.enqueued) \in Seq(Tags)
      BY <1>1, HeadTailProperties DEF PortOK, Queue
    <2>2. <<>> \in Seq(0 .. TxTime)
      OBVIOUS
    <2>3. s.state_send \in SendStates
      BY DEF PortOK, Queue, SendStates
    <2> QED BY <1>1, <2>1, <2>2, <2>3 DEF Queue
  <1>3. CASE s.enqueued # <<>> /\ s.state_send = "READY"
    <2>1. PortOK(BeginService(s))
      BY <1>1, <1>2, <1>3, BeginOK
    <2>2. BeginService(s).enqueued = s.enqueued
      BY <1>2 DEF BeginService
    <2> QED BY <1>1, <1>3, <2>1, <2>2 DEF CompleteService
  <1>4. CASE ~(s.enqueued # <<>> /\ s.state_send = "READY")
    <2>1. OneService(s) /\ StateMatchesService(s)
      BY <1>1, <1>4 DEF PortOK, Queue, OneService, StateMatchesService
    <2> QED BY <1>1, <1>2, <1>4, <2>1 DEF CompleteService, PortOK
  <1> QED BY <1>3, <1>4

(* Time passes for a port that has no event due. *)
LEMMA AgeOK ==
    ASSUME NEW q, PortOK(q), ~ServiceDue(q)
    PROVE  /\ PortOK(Age(q))
           /\ Age(q).enqueued = q.enqueued
           /\ Age(q).sending = q.sending
           /\ Age(q).state_send = q.state_send
  <1> DEFINE a == [i \in 1 .. Len(q.service) |-> q.service[i] - 1]
  <1>1. a \in Seq(0 .. TxTime) /\ Len(a) = Len(q.service)
    <2>1. CASE q.sending
      <3>1. q.service[1] # 0 /\ Len(q.service) = 1 /\ q.service[1] \in 0 .. TxTime
        BY <2>1, ServiceShape DEF ServiceDue, PortOK, Queue
      <3>2. \A i \in 1 .. Len(q.service) : q.service[i] - 1 \in 0 .. TxTime
        BY <3>1, TxAssumption
      <3> QED BY <3>1, <3>2 DEF PortOK, Queue
    <2>2. CASE ~q.sending
      BY <2>2, ServiceShape DEF PortOK, Queue
    <2> QED BY <2>1, <2>2 DEF PortOK, Queue
  <1>2. Age(q) = [q EXCEPT !.service = a]
    BY DEF Age
  <1>3. /\ Age(q) \in Queue
        /\ Age(q).service = a
        /\ Age(q).enqueued = q.enqueued
        /\ Age(q).sending = q.sending
        /\ Age(q).state_send = q.state_send
    BY <1>1, <1>2 DEF PortOK, Queue
  <1> QED BY <1>1, <1>3 DEF PortOK, OneService, StateMatchesService

(***************************************************************************)
(* The specification of the port.                                          *)
(***************************************************************************)
(* The inductive invariant: the port is PortOK. *)
LEMMA PortInvariant == Spec => []PortOK(port)
  <1>1. Init => PortOK(port)
    BY EmptyOK DEF Init
  <1>2. PortOK(port) /\ [Next]_vars => PortOK(port)'
    <2> SUFFICES ASSUME PortOK(port), [Next]_vars
                 PROVE  PortOK(port')
      OBVIOUS
    <2>1. CASE PauseFrame
      BY <2>1, PauseOK DEF PauseFrame
    <2>2. CASE ResumeFrame
      BY <2>2, ResumeOK DEF ResumeFrame
    <2>3. CASE \E vq \in Tags : Packet(vq)
      BY <2>3, PacketOK DEF Packet
    <2>4. CASE Complete
      BY <2>4, CompleteOK DEF Complete
    <2>5. CASE Tick
      BY <2>5, AgeOK DEF Tick
    <2>6. CASE UNCHANGED vars
      BY <2>6 DEF vars
    <2> QED BY <2>1, <2>2, <2>3, <2>4, <2>5, <2>6 DEF Next
  <1> QED BY <1>1, <1>2, PTL DEF Spec

(* Type correctness, with service events never overdue. *)
THEOREM TypeCorrect == Spec => []TypeOK
  <1>1. PortOK(port) => TypeOK
    BY DEF PortOK, TypeOK
  <1> QED BY <1>1, PortInvariant, PTL

(* At most one transmission at a time, and never a lost wake-up. *)
THEOREM OneTransmission == Spec => []ServiceInv
  <1>1. PortOK(port) => ServiceInv
    BY DEF PortOK, ServiceInv
  <1> QED BY <1>1, PortInvariant, PTL

(* Between a PAUSE and a RESUME no transmission starts, and a transmission *)
(* under way ends with its packet leaving from the head.                   *)
THEOREM PauseObeyed == Spec => PauseStopsPort
  <1> DEFINE Step ==
        /\ (port.state_send # "READY" /\ port'.state_send # "READY")
               => Len(port'.service) <= Len(port.service)
        /\ (port.sending /\ ~port'.sending)
               => port'.enqueued = Tail(port.enqueued)
  <1>1. PortOK(port) /\ PortOK(port)' /\ [Next]_vars => [Step]_vars
    <2> SUFFICES ASSUME PortOK(port), PortOK(port'), Next
                 PROVE  Step
      BY DEF vars
    <2>1. Len(port.service) \in Nat
      BY LenProperties DEF PortOK, Queue
    <2>2. Len(port.service) = (IF port.sending THEN 1 ELSE 0)
      BY DEF PortOK, OneService
    <2>3. Len(port'.service) = (IF port'.sending THEN 1 ELSE 0)
      BY DEF PortOK, OneService
    <2>4. CASE PauseFrame
      BY <2>1, <2>4 DEF PauseFrame, ReceivePause, PortOK, Queue
    <2>5. CASE ResumeFrame
      <3>1. port'.state_send = "READY" /\ (port.sending => port'.sending)
        BY <2>5 DEF ResumeFrame, ReceiveResume, BeginService, PortOK, Queue
      <3> QED BY <3>1
    <2>6. CASE \E vq \in Tags : Packet(vq)
      <3>1. PICK vq \in Tags : port' = ReceivePacket(port, vq)
        BY <2>6 DEF Packet
      <3>2. port.sending => port'.sending
        BY <3>1 DEF ReceivePacket, BeginService, PortOK, Queue
      <3>3. port.state_send # "READY" => port'.service = port.service
        BY <3>1 DEF ReceivePacket, PortOK, Queue
      <3> QED BY <2>1, <3>2, <3>3
    <2>7. CASE Complete
      <3>1. port.sending /\ port'.enqueued = Tail(port.enqueued)
        BY <2>7, CompleteOK DEF Complete
      <3> QED BY <2>2, <2>3, <3>1
    <2>8. CASE Tick
      <3>1. port'.sending = port.sending
        BY <2>8, AgeOK DEF Tick
      <3> QED BY <2>2, <2>3, <3>1
    <2> QED BY <2>4, <2>5, <2>6, <2>7, <2>8 DEF Next
  <1> QED BY <1>1, PortInvariant, PTL DEF Spec, PauseStopsPort
=============================================================================
