--------------------------- MODULE RoceFlowProofs ---------------------------
(***************************************************************************)
(* The four safety properties of RoceFlow, for every flow size, with any   *)
(* number of pauses and losses, with and without a stop time, on one path  *)
(* and with a route for each packet.                                       *)
(***************************************************************************)
EXTENDS RoceFlow, TLAPS, SequenceTheorems

Packets == Nat \ {0}
Answers == [nack : BOOLEAN, ackno : Nat]

TypeOK ==
    /\ flow_started \in BOOLEAN /\ state_send \in {"READY", "PAUSED"}
    /\ highest_sent \in Nat /\ last_acked \in Nat /\ flow_size \in Nat
    /\ done \in BOOLEAN /\ events \in Nat /\ spaced \in BOOLEAN
    /\ stop \in {"none", "ahead", "past"} /\ fired \in Nat
    /\ cumulative_ack \in Nat
    /\ data \in Seq(Packets) /\ acks \in Seq(Answers)
    /\ paused \in BOOLEAN /\ pauses \in Nat /\ drops \in Nat /\ sprayed \in BOOLEAN

(* Nothing has happened to a flow before it starts. *)
Unstarted ==
    ~flow_started => /\ highest_sent = 0 /\ ~done /\ fired = 0
                     /\ data = <<>> /\ acks = <<>>

(* Only a stop time that has passed, and was seen, moves the end of a flow. *)
StopPending == stop # "none" => flow_size = FlowSize

(* While a single path has lost nothing, what is on it continues what the  *)
(* sink has, up to the last packet sent.                                   *)
OnePath == drops = 0 /\ ~sprayed

Consecutive ==
    OnePath => /\ highest_sent = cumulative_ack + Len(data)
               /\ \A i \in 1 .. Len(data) : data[i] = cumulative_ack + i

IInv == /\ TypeOK /\ Unstarted /\ StopPending /\ Consecutive
        /\ AckedIsReceived /\ DoneOnce /\ NoGap /\ NoLostWakeup
-----------------------------------------------------------------------------
(* Taking a member out of a queue and appending to it, as the proofs see   *)
(* them: what is behind the member moves up.                               *)
LEMMA RemoveAtFacts ==
  ASSUME NEW S, NEW q \in Seq(S), NEW i \in DOMAIN q
  PROVE  /\ q[i] \in S /\ i \in 1 .. Len(q) /\ RemoveAt(q, i) \in Seq(S)
         /\ Len(q) \in Nat /\ Len(q) > 0 /\ Len(RemoveAt(q, i)) = Len(q) - 1
         /\ \A j \in 1 .. Len(RemoveAt(q, i)) :
                /\ (IF j < i THEN j ELSE j + 1) \in 1 .. Len(q)
                /\ RemoveAt(q, i)[j] = q[IF j < i THEN j ELSE j + 1]
  <1> DEFINE front == SubSeq(q, 1, i - 1)
             back  == SubSeq(q, i + 1, Len(q))
  <1>1. i \in 1 .. Len(q) /\ Len(q) \in Nat /\ Len(q) > 0 /\ q[i] \in S
    BY LenProperties, ElementOfSeq
  <1>2. /\ front \in Seq(S) /\ Len(front) = i - 1
        /\ \A j \in 1 .. i - 1 : front[j] = q[j]
    BY <1>1, SubSeqProperties, LenProperties
  <1>3. /\ back \in Seq(S) /\ Len(back) = Len(q) - i
        /\ \A j \in 1 .. Len(q) - i : back[j] = q[i + j]
    <2>1. \A j \in i + 1 .. Len(q) : j \in 1 .. Len(q)
      BY <1>1
    <2>2. i + 1 \in Nat /\ Len(q) \in Nat
      BY <1>1
    <2>3. QED
      BY <1>1, <2>1, <2>2, SubSeqProperties
  <1>4. RemoveAt(q, i) = front \o back
    BY DEF RemoveAt
  <1> HIDE DEF front, back
  <1>5. /\ front \o back \in Seq(S) /\ Len(front \o back) = Len(q) - 1
        /\ \A j \in 1 .. Len(q) - 1 :
               (front \o back)[j] = IF j <= i - 1 THEN front[j] ELSE back[j - (i - 1)]
    <2>1. /\ front \o back \in Seq(S) /\ Len(front \o back) = Len(front) + Len(back)
          /\ \A j \in 1 .. Len(front) + Len(back) :
               (front \o back)[j] = IF j <= Len(front) THEN front[j] ELSE back[j - Len(front)]
      BY <1>2, <1>3, ConcatProperties
    <2>2. Len(front) = i - 1 /\ Len(front) + Len(back) = Len(q) - 1
      BY <1>1, <1>2, <1>3
    <2>3. QED
      BY <2>1, <2>2
  <1>6. ASSUME NEW j \in 1 .. Len(RemoveAt(q, i))
        PROVE  /\ (IF j < i THEN j ELSE j + 1) \in 1 .. Len(q)
               /\ RemoveAt(q, i)[j] = q[IF j < i THEN j ELSE j + 1]
    <2>1. j \in 1 .. Len(q) - 1 /\ RemoveAt(q, i)[j] = (front \o back)[j]
      BY <1>4, <1>5
    <2>2. CASE j < i
      BY <1>1, <1>2, <1>5, <2>1, <2>2
    <2>3. CASE ~(j < i)
      <3>1. j - (i - 1) \in 1 .. Len(q) - i /\ i + (j - (i - 1)) = j + 1
        BY <1>1, <2>1, <2>3
      <3>2. (front \o back)[j] = back[j - (i - 1)]
        BY <1>1, <1>5, <2>1, <2>3
      <3>3. back[j - (i - 1)] = q[j + 1]
        BY <1>3, <3>1
      <3>4. QED
        BY <1>1, <2>1, <2>3, <3>2, <3>3
    <2>4. QED
      BY <2>2, <2>3
  <1>7. QED
    BY <1>1, <1>4, <1>5, <1>6

LEMMA AppendFacts ==
  ASSUME NEW S, NEW q \in Seq(S), NEW x \in S
  PROVE  /\ Append(q, x) \in Seq(S) /\ Append(q, x) # <<>>
         /\ Len(q) \in Nat /\ Len(Append(q, x)) = Len(q) + 1
         /\ Append(q, x)[Len(q) + 1] = x
         /\ \A i \in 1 .. Len(q) : Append(q, x)[i] = q[i]
  BY AppendProperties, LenProperties

(* What the source sees when it starts. *)
LEMMA StartStep ==
  ASSUME IInv, Startflow
  PROVE  IInv'
  <1>1. ~flow_started /\ highest_sent = 0 /\ ~done /\ fired = 0 /\ events > 0
    BY DEF IInv, Unstarted, Startflow
  <1>2. TypeOK'
    BY DEF IInv, TypeOK, Startflow, network, card
  <1>3. AckedIsReceived'
    BY DEF IInv, TypeOK, AckedIsReceived, Startflow, network
  <1>4. Unstarted' /\ StopPending' /\ NoGap' /\ NoLostWakeup'
    BY <1>1 DEF IInv, TypeOK, Unstarted, StopPending, NoGap, NoLostWakeup,
                Startflow, network
  <1>5. DoneOnce'
    BY <1>1 DEF DoneOnce, Startflow
  <1>6. Consecutive'
    BY <1>1 DEF IInv, Consecutive, OnePath, Startflow, network
  <1>7. QED
    BY <1>2, <1>3, <1>4, <1>5, <1>6 DEF IInv

(* An event lapses only when nothing may be sent or nothing is left to send. *)
LEMMA LapseStep ==
  ASSUME IInv, EventLapses
  PROVE  IInv'
  <1>1. TypeOK'
    BY DEF IInv, TypeOK, EventLapses, network, card
  <1>2. NoLostWakeup'
    BY DEF IInv, TypeOK, NoLostWakeup, EventLapses
  <1>3. /\ Unstarted' /\ StopPending' /\ NoGap' /\ DoneOnce' /\ Consecutive'
        /\ AckedIsReceived'
    BY DEF IInv, Unstarted, StopPending, NoGap, DoneOnce, Consecutive, OnePath, AckedIsReceived,
           EventLapses, network
  <1>4. QED
    BY <1>1, <1>2, <1>3 DEF IInv

(* A packet sent continues the path. *)
LEMMA SendStep ==
  ASSUME IInv, SendPacket
  PROVE  IInv'
  <1>0. TypeOK /\ Unstarted /\ StopPending /\ NoGap /\ DoneOnce /\ Consecutive
          /\ AckedIsReceived
    BY DEF IInv
  <1>1. /\ flow_started /\ events > 0 /\ spaced' = FALSE
        /\ UNCHANGED <<flow_started, state_send, last_acked, flow_size, done, events,
                       stop, fired, cumulative_ack, acks, drops, sprayed, paused, pauses>>
    BY DEF SendPacket, card
  <1>2. CASE UNCHANGED <<highest_sent, data>>
    <2>1. TypeOK'
      BY <1>0, <1>1, <1>2 DEF TypeOK
    <2>2. Consecutive' /\ NoLostWakeup'
      BY <1>0, <1>1, <1>2 DEF Consecutive, OnePath, NoLostWakeup
    <2>3. Unstarted' /\ StopPending' /\ NoGap' /\ DoneOnce' /\ AckedIsReceived'
      BY <1>0, <1>1 DEF Unstarted, StopPending, NoGap, DoneOnce, AckedIsReceived
    <2>4. QED
      BY <2>1, <2>2, <2>3 DEF IInv
  <1>3. CASE highest_sent' = highest_sent + 1 /\ data' = Append(data, highest_sent + 1)
    <2>1. highest_sent + 1 \in Packets /\ data \in Seq(Packets)
      BY <1>0 DEF TypeOK, Packets
    <2>2. /\ data' \in Seq(Packets) /\ Len(data) \in Nat /\ Len(data') = Len(data) + 1
          /\ data'[Len(data) + 1] = highest_sent + 1
          /\ \A i \in 1 .. Len(data) : data'[i] = data[i]
      BY <1>3, <2>1, AppendFacts
    <2>3. TypeOK'
      <3>1. highest_sent' \in Nat /\ data' \in Seq(Packets)
        BY <1>3, <2>1, <2>2 DEF Packets
      <3>2. QED
        BY <1>0, <1>1, <3>1 DEF TypeOK
    <2>4. Consecutive'
      <3> SUFFICES ASSUME OnePath'
                   PROVE  /\ highest_sent' = cumulative_ack' + Len(data')
                          /\ \A i \in 1 .. Len(data') : data'[i] = cumulative_ack' + i
        BY DEF Consecutive, OnePath
      <3>1. /\ highest_sent = cumulative_ack + Len(data)
            /\ \A i \in 1 .. Len(data) : data[i] = cumulative_ack + i
        BY <1>0, <1>1 DEF Consecutive, OnePath
      <3>2. \A i \in 1 .. Len(data') : i \in 1 .. Len(data) \/ i = Len(data) + 1
        BY <2>2
      <3>3. highest_sent' = cumulative_ack' + Len(data')
        BY <1>0, <1>1, <1>3, <2>2, <3>1 DEF TypeOK
      <3>4. ASSUME NEW i \in 1 .. Len(data')
            PROVE  data'[i] = cumulative_ack' + i
        <4>1. CASE i \in 1 .. Len(data)
          BY <1>1, <2>2, <3>1, <4>1
        <4>2. CASE i = Len(data) + 1
          BY <1>0, <1>1, <2>2, <3>1, <4>2 DEF TypeOK
        <4>3. QED
          BY <3>2, <4>1, <4>2
      <3>5. QED
        BY <3>3, <3>4
    <2>5. NoLostWakeup'
      BY <1>1 DEF NoLostWakeup
    <2>6. Unstarted' /\ StopPending' /\ NoGap' /\ DoneOnce' /\ AckedIsReceived'
      BY <1>0, <1>1 DEF Unstarted, StopPending, NoGap, DoneOnce, AckedIsReceived
    <2>7. QED
      BY <2>3, <2>4, <2>5, <2>6 DEF IInv
  <1>4. QED
    BY <1>2, <1>3 DEF SendPacket

(* What the stop time does to the end of the flow, for every handler. *)
LEMMA ReceivingFacts ==
  ASSUME TypeOK, StopPending, Receiving
  PROVE  /\ flow_size' \in Nat /\ stop' \in {"none", "ahead", "past"}
         /\ stop' # "none" => flow_size' = FlowSize
         /\ flow_size' = FlowSize => flow_size = FlowSize
         /\ flow_size' # flow_size => flow_size = FlowSize
         /\ flow_started' = flow_started /\ spaced' = spaced
  BY DEF TypeOK, StopPending, Receiving

(* An ACK moves the source forward, possibly to the end of the flow; a     *)
(* NACK takes it back to what the sink has, and wakes it if it had stopped. *)
LEMMA AnswerStep ==
  ASSUME IInv, Answer
  PROVE  IInv'
  <1>0. TypeOK /\ Unstarted /\ StopPending /\ NoGap /\ DoneOnce /\ Consecutive
          /\ AckedIsReceived /\ NoLostWakeup
    BY DEF IInv
  <1>a. PICK n \in Arriving(acks) :
               /\ acks' = RemoveAt(acks, n)
               /\ Receiving
               /\ IF done
                  THEN UNCHANGED <<state_send, highest_sent, last_acked, done, events, fired>>
                  ELSE IF acks[n].nack THEN ProcessNack(acks[n].ackno)
                  ELSE ProcessAck(acks[n].ackno)
               /\ UNCHANGED <<cumulative_ack, data, drops, sprayed, card>>
    BY DEF Answer
  <1> DEFINE answer == acks[n]
             ackno == answer.ackno
  <1>1. /\ n \in DOMAIN acks /\ acks' = RemoveAt(acks, n) /\ Receiving
        /\ UNCHANGED <<state_send, cumulative_ack, data, drops, sprayed, paused, pauses>>
    BY <1>a DEF Arriving, ProcessNack, ProcessAck, card
  <1>3. /\ answer \in Answers /\ n \in 1 .. Len(acks) /\ acks' \in Seq(Answers)
        /\ Len(acks) \in Nat /\ Len(acks) > 0 /\ Len(acks') = Len(acks) - 1
        /\ \A i \in 1 .. Len(acks') :
               /\ (IF i < n THEN i ELSE i + 1) \in 1 .. Len(acks)
               /\ acks'[i] = acks[IF i < n THEN i ELSE i + 1]
    BY <1>0, <1>1, RemoveAtFacts DEF TypeOK
  <1>2. flow_started
    BY <1>0, <1>3, EmptySeq DEF Unstarted
  <1>4. ackno \in Nat /\ answer.nack \in BOOLEAN
    BY <1>3 DEF Answers
  <1>6. ackno <= cumulative_ack /\ (OnePath => ~answer.nack)
    BY <1>0, <1>3 DEF AckedIsReceived, NoGap, OnePath
  <1>5. /\ \/ done /\ UNCHANGED <<highest_sent, last_acked, done, events, fired>>
           \/ ~done /\ answer.nack /\ ProcessNack(ackno)
           \/ ~done /\ ~answer.nack /\ ProcessAck(ackno)
    BY <1>a
  <1> HIDE DEF answer
  <1>7. /\ flow_size' \in Nat /\ stop' \in {"none", "ahead", "past"}
        /\ (stop' # "none" => flow_size' = FlowSize)
        /\ (flow_size' = FlowSize => flow_size = FlowSize)
        /\ (flow_size' # flow_size => flow_size = FlowSize)
        /\ flow_started' = flow_started /\ spaced' = spaced
    BY <1>0, <1>1, ReceivingFacts
  <1>8. /\ \A i \in 1 .. Len(acks') : acks'[i].ackno <= cumulative_ack'
        /\ NoGap' /\ Unstarted' /\ StopPending'
    BY <1>0, <1>1, <1>2, <1>3, <1>7 DEF AckedIsReceived, NoGap, Unstarted, StopPending
  <1>9. CASE done /\ UNCHANGED <<highest_sent, last_acked, done, events, fired>>
    <2>1. TypeOK'
      BY <1>0, <1>1, <1>3, <1>7, <1>9 DEF TypeOK
    <2>2. Consecutive' /\ AckedIsReceived' /\ NoLostWakeup'
      BY <1>0, <1>1, <1>8, <1>9 DEF Consecutive, OnePath, AckedIsReceived, NoLostWakeup
    <2>3. DoneOnce'
      BY <1>0, <1>1, <1>7, <1>9 DEF DoneOnce
    <2>4. QED
      BY <1>8, <2>1, <2>2, <2>3 DEF IInv
  <1>10. CASE ~done /\ answer.nack /\ ProcessNack(ackno)
    <2>1. /\ last_acked' = ackno /\ highest_sent' = ackno
          /\ done' = done /\ fired' = fired /\ events' \in {events, events + 1}
          /\ (events' = events + 1 \/ ~(highest_sent >= flow_size' /\ ackno < flow_size'))
      BY <1>10 DEF ProcessNack
    <2>2. ~OnePath
      BY <1>6, <1>10
    <2>3. TypeOK'
      <3>1. last_acked' \in Nat /\ highest_sent' \in Nat /\ events' \in Nat
        BY <1>0, <1>4, <2>1 DEF TypeOK
      <3>2. QED
        BY <1>0, <1>1, <1>3, <1>7, <2>1, <3>1 DEF TypeOK
    <2>4. Consecutive' /\ AckedIsReceived'
      BY <1>1, <1>6, <1>8, <2>1, <2>2 DEF Consecutive, OnePath, AckedIsReceived
    <2>5. DoneOnce'
      BY <1>0, <1>10, <2>1 DEF DoneOnce
    <2>6. NoLostWakeup'
      <3> SUFFICES ASSUME state_send = "READY", highest_sent' < flow_size',
                          flow_size' = FlowSize
                   PROVE  events' > 0
        BY <1>1 DEF NoLostWakeup
      <3>1. CASE events' = events + 1
        BY <1>0, <3>1 DEF TypeOK
      <3>2. CASE events' = events /\ ~(highest_sent >= flow_size')
        <4>1. flow_size = FlowSize /\ highest_sent < flow_size
          BY <1>0, <1>7, <3>2 DEF TypeOK
        <4>2. QED
          BY <1>0, <1>2, <1>10, <3>2, <4>1 DEF NoLostWakeup
      <3>3. QED
        BY <2>1, <3>1, <3>2
    <2>7. QED
      BY <1>8, <2>3, <2>4, <2>5, <2>6 DEF IInv
  <1>11. CASE ~done /\ ~answer.nack /\ ProcessAck(ackno)
    <2>1. /\ last_acked' \in {ackno, last_acked} /\ done' = (ackno >= flow_size')
          /\ fired' = (IF done' THEN fired + 1 ELSE fired)
          /\ UNCHANGED <<highest_sent, events>>
      BY <1>11 DEF ProcessAck
    <2>2. fired = 0
      BY <1>0, <1>11 DEF DoneOnce
    <2>3. done' \in BOOLEAN /\ fired' \in Nat /\ last_acked' \in Nat
      BY <1>0, <1>4, <2>1, <2>2 DEF TypeOK
    <2>4. TypeOK'
      BY <1>0, <1>1, <1>3, <1>7, <2>1, <2>3 DEF TypeOK
    <2>5. Consecutive' /\ AckedIsReceived'
      BY <1>0, <1>1, <1>6, <1>8, <2>1 DEF Consecutive, OnePath, AckedIsReceived
    <2>6. DoneOnce'
      <3>1. fired' = (IF done' THEN 1 ELSE 0)
        BY <2>1, <2>2
      <3>2. ASSUME done'
            PROVE  cumulative_ack' >= flow_size'
        <4>1. ackno >= flow_size'
          BY <2>1, <3>2
        <4>2. cumulative_ack \in Nat /\ cumulative_ack' = cumulative_ack
          BY <1>0, <1>1 DEF TypeOK
        <4>3. QED
          BY <1>4, <1>6, <1>7, <4>1, <4>2
      <3>3. QED
        BY <3>1, <3>2 DEF DoneOnce
    <2>7. NoLostWakeup'
      BY <1>0, <1>1, <1>2, <1>7, <1>11, <2>1 DEF NoLostWakeup
    <2>8. QED
      BY <1>8, <2>4, <2>5, <2>6, <2>7 DEF IInv
  <1>12. QED
    BY <1>5, <1>9, <1>10, <1>11

(* PAUSE and RESUME: a source that may send again gets an event. *)
LEMMA FrameStep ==
  ASSUME IInv, NEW pause \in BOOLEAN, ProcessPause(pause),
         paused' \in BOOLEAN, pauses' \in Nat, UNCHANGED <<cumulative_ack, network>>
  PROVE  IInv'
  <1>0. TypeOK /\ Unstarted /\ StopPending /\ NoGap /\ DoneOnce /\ Consecutive
          /\ AckedIsReceived /\ NoLostWakeup
    BY DEF IInv
  <1>1. UNCHANGED <<highest_sent, last_acked, done, fired, cumulative_ack, data, acks, drops,
                  sprayed>>
    BY DEF ProcessPause, source, network
  <1>2. AckedIsReceived' /\ NoGap' /\ Consecutive'
    BY <1>0, <1>1 DEF AckedIsReceived, NoGap, Consecutive, OnePath
  <1>3. CASE UNCHANGED source
    <2>1. TypeOK'
      BY <1>0, <1>1, <1>3 DEF TypeOK, source
    <2>2. Unstarted' /\ StopPending' /\ DoneOnce' /\ NoLostWakeup'
      BY <1>0, <1>1, <1>3 DEF Unstarted, StopPending, DoneOnce, NoLostWakeup, source
    <2>3. QED
      BY <1>2, <2>1, <2>2 DEF IInv
  <1>4. CASE /\ flow_started /\ Receiving
             /\ \/ done /\ UNCHANGED <<state_send, events>>
                \/ /\ ~done /\ state_send' = (IF pause THEN "PAUSED" ELSE "READY")
                   /\ events' = IF pause THEN events ELSE events + 1
    <2>1. /\ flow_size' \in Nat /\ stop' \in {"none", "ahead", "past"}
          /\ (stop' # "none" => flow_size' = FlowSize)
          /\ (flow_size' # flow_size => flow_size = FlowSize)
          /\ flow_started' = flow_started /\ spaced' = spaced
      BY <1>0, <1>4, ReceivingFacts
    <2>2. state_send' \in {"READY", "PAUSED"} /\ events' \in Nat
      BY <1>0, <1>4 DEF TypeOK
    <2>3. TypeOK'
      BY <1>0, <1>1, <2>1, <2>2 DEF TypeOK
    <2>4. Unstarted' /\ StopPending' /\ DoneOnce'
      BY <1>0, <1>1, <1>4, <2>1 DEF Unstarted, StopPending, DoneOnce
    <2>5. NoLostWakeup'
      BY <1>0, <1>1, <1>4 DEF TypeOK, NoLostWakeup
    <2>6. QED
      BY <1>2, <2>3, <2>4, <2>5 DEF IInv
  <1>5. QED
    BY <1>3, <1>4 DEF ProcessPause

(* The sink takes the next packet of the path and answers with what it has. *)
LEMMA SinkStep ==
  ASSUME IInv, SinkReceives
  PROVE  IInv'
  <1>0. TypeOK /\ Unstarted /\ StopPending /\ NoGap /\ DoneOnce /\ Consecutive
          /\ AckedIsReceived /\ NoLostWakeup
    BY DEF IInv
  <1>a. PICK n \in Arriving(data) :
               /\ data' = RemoveAt(data, n)
               /\ cumulative_ack' = IF data[n] = cumulative_ack + 1 THEN data[n]
                                    ELSE cumulative_ack
               /\ Send(data[n] > cumulative_ack + 1, cumulative_ack')
               /\ UNCHANGED <<source, drops, sprayed, card>>
    BY DEF SinkReceives
  <1> DEFINE packet == data[n]
             answer == [nack |-> packet > cumulative_ack + 1, ackno |-> cumulative_ack']
  <1>1. /\ n \in DOMAIN data /\ (~sprayed => n = 1)
        /\ data' = RemoveAt(data, n) /\ acks' = Append(acks, answer)
        /\ cumulative_ack' = IF packet = cumulative_ack + 1 THEN packet
                             ELSE cumulative_ack
        /\ UNCHANGED <<flow_started, state_send, highest_sent, last_acked, flow_size, done,
                       events, spaced, stop, fired, drops, sprayed, paused, pauses>>
    BY <1>a DEF Arriving, Send, source, card
  <1>3. data \in Seq(Packets)
    BY <1>0 DEF TypeOK
  <1>4. /\ packet \in Packets /\ data' \in Seq(Packets)
        /\ Len(data) \in Nat /\ Len(data) > 0 /\ Len(data') = Len(data) - 1
        /\ \A i \in 1 .. Len(data') :
               /\ (IF i < n THEN i ELSE i + 1) \in 1 .. Len(data)
               /\ data'[i] = data[IF i < n THEN i ELSE i + 1]
    <2>1. /\ data[n] \in Packets /\ RemoveAt(data, n) \in Seq(Packets)
          /\ Len(data) \in Nat /\ Len(data) > 0 /\ Len(RemoveAt(data, n)) = Len(data) - 1
          /\ \A i \in 1 .. Len(RemoveAt(data, n)) :
                 /\ (IF i < n THEN i ELSE i + 1) \in 1 .. Len(data)
                 /\ RemoveAt(data, n)[i] = data[IF i < n THEN i ELSE i + 1]
      <3>1. n \in DOMAIN data
        BY <1>1
      <3>2. QED
        BY <1>3, <3>1, RemoveAtFacts
    <2>2. QED
      BY <1>1, <2>1, Zenon
  <1>2. flow_started
    BY <1>0, <1>4, EmptySeq DEF Unstarted
  <1> HIDE DEF packet
  <1>5. cumulative_ack' \in Nat /\ cumulative_ack' >= cumulative_ack
    BY <1>0, <1>1, <1>4 DEF TypeOK
  <1>6. answer \in Answers
    BY <1>5 DEF Answers
  <1>7. /\ acks' \in Seq(Answers) /\ Len(acks) \in Nat /\ Len(acks') = Len(acks) + 1
        /\ acks'[Len(acks) + 1] = answer
        /\ \A i \in 1 .. Len(acks) : acks'[i] = acks[i]
    BY <1>0, <1>1, <1>6, AppendFacts DEF TypeOK
  <1>8. \A i \in 1 .. Len(acks') : i \in 1 .. Len(acks) \/ i = Len(acks) + 1
    BY <1>7
  <1>9. TypeOK'
    BY <1>0, <1>1, <1>4, <1>5, <1>7 DEF TypeOK
  <1>10. Unstarted' /\ StopPending' /\ NoLostWakeup'
    BY <1>0, <1>1, <1>2 DEF Unstarted, StopPending, NoLostWakeup
  <1>11. AckedIsReceived'
    <2>1. last_acked' <= cumulative_ack'
      BY <1>0, <1>1, <1>5 DEF TypeOK, AckedIsReceived
    <2>2. ASSUME NEW i \in 1 .. Len(acks')
          PROVE  acks'[i].ackno <= cumulative_ack'
      <3>1. CASE i \in 1 .. Len(acks)
        <4>1. acks[i] \in Answers /\ acks[i].ackno <= cumulative_ack
          BY <1>0, <3>1, ElementOfSeq DEF TypeOK, AckedIsReceived
        <4>2. acks[i].ackno \in Nat
          BY <4>1 DEF Answers
        <4>3. QED
          BY <1>0, <1>5, <1>7, <3>1, <4>1, <4>2 DEF TypeOK
      <3>2. CASE i = Len(acks) + 1
        BY <1>5, <1>7, <3>2
      <3>3. QED
        BY <1>8, <3>1, <3>2
    <2>3. QED
      BY <2>1, <2>2 DEF AckedIsReceived
  <1>12. DoneOnce'
    <2>1. done => cumulative_ack' >= FlowSize \/ cumulative_ack' >= flow_size
      BY <1>0, <1>5, RoceAssumption DEF TypeOK, DoneOnce
    <2>2. QED
      BY <1>0, <1>1, <2>1 DEF DoneOnce
  <1>13. ASSUME OnePath
         PROVE  n = 1 /\ packet = cumulative_ack + 1 /\ cumulative_ack' = cumulative_ack + 1
    <2>1. 1 \in 1 .. Len(data)
      BY <1>4
    <2>2. n = 1 /\ data[1] = cumulative_ack + 1
      BY <1>0, <1>1, <1>13, <2>1 DEF Consecutive, OnePath
    <2>3. QED
      BY <1>1, <2>2 DEF packet
  <1>14. Consecutive'
    <2> SUFFICES ASSUME OnePath
                 PROVE  /\ highest_sent' = cumulative_ack' + Len(data')
                        /\ \A i \in 1 .. Len(data') : data'[i] = cumulative_ack' + i
      BY <1>1 DEF Consecutive, OnePath
    <2>1. /\ highest_sent = cumulative_ack + Len(data)
          /\ \A i \in 1 .. Len(data) : data[i] = cumulative_ack + i
      BY <1>0 DEF Consecutive, OnePath
    <2>2. highest_sent' = cumulative_ack' + Len(data')
      BY <1>0, <1>1, <1>4, <1>13, <2>1 DEF TypeOK
    <2>3. ASSUME NEW i \in 1 .. Len(data')
          PROVE  data'[i] = cumulative_ack' + i
      <3>1. i + 1 \in 1 .. Len(data) /\ data'[i] = data[i + 1]
        <4>1. i \in Nat /\ ~(i < n)
          BY <1>4, <1>13
        <4>2. QED
          BY <1>4, <4>1
      <3>2. data[i + 1] = cumulative_ack + (i + 1)
        BY <2>1, <3>1
      <3>3. QED
        BY <1>0, <1>4, <1>13, <3>1, <3>2 DEF TypeOK
    <2>4. QED
      BY <2>2, <2>3
  <1>15. NoGap'
    <2> SUFFICES ASSUME OnePath, NEW i \in 1 .. Len(acks')
                 PROVE  ~acks'[i].nack
      BY <1>1 DEF NoGap, OnePath
    <2>1. CASE i \in 1 .. Len(acks)
      BY <1>0, <1>7, <2>1 DEF NoGap, OnePath
    <2>2. CASE i = Len(acks) + 1
      <3>1. ~(packet > cumulative_ack + 1)
        BY <1>0, <1>13 DEF TypeOK
      <3>2. (packet > cumulative_ack + 1) = FALSE
        BY <3>1
      <3>3. answer = [nack |-> FALSE, ackno |-> cumulative_ack']
        BY <3>2
      <3>4. acks'[i] = [nack |-> FALSE, ackno |-> cumulative_ack']
        BY <1>7, <2>2, <3>3
      <3>5. QED
        BY <3>4
    <2>3. QED
      BY <1>8, <2>1, <2>2
  <1>16. QED
    BY <1>9, <1>10, <1>11, <1>12, <1>14, <1>15 DEF IInv

(* A loss only takes a packet off the path, and is counted. *)
LEMMA DropStep ==
  ASSUME IInv, PathDrops
  PROVE  IInv'
  <1>0. TypeOK /\ Unstarted /\ StopPending /\ NoGap /\ DoneOnce /\ Consecutive
          /\ AckedIsReceived /\ NoLostWakeup
    BY DEF IInv
  <1>a. PICK n \in Arriving(data) \ {Len(data)} :
               drops' = drops + 1 /\ data' = RemoveAt(data, n)
    BY DEF PathDrops
  <1>1. /\ drops' = drops + 1 /\ n \in DOMAIN data /\ data' = RemoveAt(data, n)
        /\ UNCHANGED <<flow_started, state_send, highest_sent, last_acked, flow_size, done,
                       events, spaced, stop, fired, cumulative_ack, acks, sprayed,
                       paused, pauses>>
    BY <1>a DEF PathDrops, Arriving, source, card
  <1>2. data \in Seq(Packets)
    BY <1>0 DEF TypeOK
  <1>3. data' \in Seq(Packets) /\ Len(data) > 0
    BY <1>1, <1>2, RemoveAtFacts
  <1>b. data # <<>>
    BY <1>3, EmptySeq
  <1>4. drops' \in Nat /\ drops' # 0
    BY <1>0, <1>1 DEF TypeOK
  <1>5. TypeOK'
    BY <1>0, <1>1, <1>3, <1>4 DEF TypeOK
  <1>6. Unstarted' /\ NoGap' /\ Consecutive'
    BY <1>0, <1>1, <1>b, <1>4 DEF Unstarted, NoGap, Consecutive, OnePath
  <1>7. StopPending' /\ DoneOnce' /\ AckedIsReceived' /\ NoLostWakeup'
    BY <1>0, <1>1 DEF StopPending, DoneOnce, AckedIsReceived, NoLostWakeup
  <1>8. QED
    BY <1>5, <1>6, <1>7 DEF IInv

(* Time passes, or nothing happens. *)
LEMMA QuietStep ==
  ASSUME IInv,
         spaced' \in BOOLEAN /\ stop' \in {"none", "ahead", "past"},
         stop' # "none" => stop # "none",
         UNCHANGED <<flow_started, state_send, highest_sent, last_acked, flow_size, done,
                     events, fired, cumulative_ack, network, card>>
  PROVE  IInv'
  <1>0. TypeOK /\ Unstarted /\ StopPending /\ NoGap /\ DoneOnce /\ Consecutive
          /\ AckedIsReceived /\ NoLostWakeup
    BY DEF IInv
  <1>1. TypeOK'
    BY <1>0 DEF TypeOK, network, card
  <1>2. /\ Unstarted' /\ StopPending' /\ NoGap' /\ DoneOnce' /\ Consecutive'
        /\ AckedIsReceived' /\ NoLostWakeup'
    BY <1>0 DEF Unstarted, StopPending, NoGap, DoneOnce, Consecutive, OnePath, AckedIsReceived,
                NoLostWakeup, network
  <1>3. QED
    BY <1>1, <1>2 DEF IInv
-----------------------------------------------------------------------------
LEMMA InitIInv ==
  ASSUME Init
  PROVE  IInv
  <1>1. /\ data = <<>> /\ acks = <<>> /\ Len(data) = 0 /\ Len(acks) = 0
        /\ data \in Seq(Packets) /\ acks \in Seq(Answers)
    BY EmptySeq DEF Init
  <1>2. TypeOK
    BY <1>1, RoceAssumption DEF Init, TypeOK
  <1>3. Unstarted /\ StopPending /\ DoneOnce /\ NoLostWakeup
    BY <1>1 DEF Init, Unstarted, StopPending, DoneOnce, NoLostWakeup
  <1>4. Consecutive /\ AckedIsReceived /\ NoGap
    BY <1>1 DEF Init, Consecutive, OnePath, AckedIsReceived, NoGap
  <1>5. QED
    BY <1>2, <1>3, <1>4 DEF IInv

LEMMA NextIInv ==
  ASSUME IInv, [Next]_vars
  PROVE  IInv'
  <1>0. /\ spaced \in BOOLEAN /\ stop \in {"none", "ahead", "past"}
        /\ paused \in BOOLEAN /\ pauses \in Nat
    BY DEF IInv, TypeOK
  <1>1. CASE Startflow
    BY <1>1, StartStep
  <1>2. CASE EventLapses
    BY <1>2, LapseStep
  <1>3. CASE SendPacket
    BY <1>3, SendStep
  <1>4. CASE SpacingPasses
    <2>1. spaced' = TRUE /\ stop' = stop
      BY <1>4 DEF SpacingPasses
    <2>2. QED
      BY <1>0, <1>4, <2>1, QuietStep DEF SpacingPasses
  <1>5. CASE StopPasses
    <2>1. spaced' = spaced /\ stop = "ahead" /\ stop' = "past"
      BY <1>5 DEF StopPasses
    <2>2. QED
      BY <1>0, <1>5, <2>1, QuietStep DEF StopPasses
  <1>6. CASE Answer
    BY <1>6, AnswerStep
  <1>7. CASE Pause
    <2>1. ProcessPause(TRUE) /\ UNCHANGED <<cumulative_ack, network>>
      BY <1>7, Zenon DEF Pause
    <2>2. paused' \in BOOLEAN /\ pauses' \in Nat
      BY <1>0, <1>7 DEF Pause
    <2>3. QED
      BY <2>1, <2>2, FrameStep
  <1>8. CASE Resume
    <2>1. /\ ProcessPause(FALSE) /\ paused' \in BOOLEAN /\ pauses' \in Nat
          /\ UNCHANGED <<cumulative_ack, network>>
      BY <1>0, <1>8 DEF Resume
    <2>2. QED
      BY <2>1, FrameStep
  <1>9. CASE SinkReceives
    BY <1>9, SinkStep
  <1>10. CASE PathDrops
    BY <1>10, DropStep
  <1>11. CASE UNCHANGED vars
    BY <1>0, <1>11, QuietStep DEF vars, source, network, card
  <1>12. QED
    BY <1>1, <1>2, <1>3, <1>4, <1>5, <1>6, <1>7, <1>8, <1>9, <1>10, <1>11 DEF Next

LEMMA Inductive == Spec => []IInv
  BY InitIInv, NextIInv, PTL DEF Spec

(* Every variable of a flow keeps its type: no counter goes below zero.    *)
THEOREM TypeCorrect == Spec => []TypeOK
  <1>1. IInv => TypeOK
    BY DEF IInv
  <1>2. QED
    BY <1>1, Inductive, PTL

(* RoceSrc::processAck and processNack: _last_acked is never ahead of what *)
(* the sink has received, though NACKs that newer ACKs have overtaken take *)
(* it back, and every loss and overtaken packet makes more of them.        *)
THEOREM AcksAreTrue == Spec => []AckedIsReceived
  <1>1. IInv => AckedIsReceived
    BY DEF IInv
  <1>2. QED
    BY <1>1, Inductive, PTL

(* RoceSrc::processAck: the end trigger fires exactly once, and only when  *)
(* the sink has the whole flow, or all of it that the stop time left.      *)
THEOREM CompletesOnce == Spec => []DoneOnce
  <1>1. IInv => DoneOnce
    BY DEF IInv
  <1>2. QED
    BY <1>1, Inductive, PTL

(* RoceSink::receivePacket sends no NACK as long as the path has dropped   *)
(* nothing, however often the source was paused, resumed and re-armed.     *)
THEOREM LosslessNeedsNoNack == Spec => []NoGap
  <1>1. IInv => NoGap
    BY DEF IInv
  <1>2. QED
    BY <1>1, Inductive, PTL

(* RoceSrc::doNextEvent: a source that may send and has something to send  *)
(* has an event scheduled, so that no pause or loss leaves it asleep.      *)
THEOREM AlwaysWoken == Spec => []NoLostWakeup
  <1>1. IInv => NoLostWakeup
    BY DEF IInv
  <1>2. QED
    BY <1>1, Inductive, PTL
=============================================================================
