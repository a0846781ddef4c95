------------------------------ MODULE RoceFlow ------------------------------
(***************************************************************************)
(* One RoCE flow: RoceSrc paces packets onto the fabric, goes back to the  *)
(* NACKed packet, and stops and starts with the PAUSE frames of its        *)
(* network card; RoceSink acknowledges cumulatively and NACKs gaps.  The   *)
(* switches keep a flow on one path (ECMP), or choose a route for each     *)
(* packet (-strat ecmp_ar, ecmp_rr, ecmp_host_ar of main_roce.cpp), so     *)
(* that packets and answers overtake each other.                           *)
(*                                                                         *)
(* Packets are numbered 1, 2, ... (_mss bytes each, flow sizes are         *)
(* multiples of _mss).  The pacing event of the source re-arms itself, and *)
(* RESUME and NACK schedule one more: events counts the pending ones.      *)
(* Time is abstract: spaced says that _packet_spacing has passed since the *)
(* last packet.  There is no retransmission timer in this code (_rto is    *)
(* computed and never used).                                               *)
(***************************************************************************)
EXTENDS Integers, Sequences, SequencesExt

CONSTANTS
    FlowSize,   \* packets of the flow
    Pauses,     \* bound of the model: PAUSE frames the source receives
    Drops,      \* bound of the model: packets the path loses (0: lossless)
    InFlight,   \* bound of the model: packets and answers on the way at a time
    StopTime,   \* whether set_stoptime may have been called
    Spraying    \* whether the switches may choose a route for each packet

ASSUME RoceAssumption ==
    /\ FlowSize \in Nat \ {0} /\ Pauses \in Nat /\ Drops \in Nat
    /\ InFlight \in Nat \ {0} /\ StopTime \in BOOLEAN
    /\ Spraying \in BOOLEAN

VARIABLES
    flow_started, state_send, highest_sent, last_acked, flow_size, done,
    events,          \* pending events of the source
    spaced,          \* _packet_spacing has passed since _time_last_sent
    stop,            \* _stop_time: "none", still "ahead", or "past"
    fired,           \* activations of the end trigger
    cumulative_ack,  \* of the sink
    data, acks,      \* packets on the way, answers on the way back, as sent
    sprayed,         \* routes are chosen for each packet
    paused,          \* what the network card last told the source
    pauses, drops    \* PAUSE frames sent, packets lost so far

source  == <<flow_started, state_send, highest_sent, last_acked, flow_size, done,
             events, spaced, stop, fired>>
network == <<data, acks, drops, sprayed>>
card    == <<paused, pauses>>
vars    == <<source, cumulative_ack, network, card>>

Init ==
    /\ flow_started = FALSE /\ state_send = "READY"
    /\ highest_sent = 0 /\ last_acked = 0 /\ flow_size = FlowSize
    /\ done = FALSE /\ events = 1 /\ spaced = TRUE
    /\ stop \in IF StopTime THEN {"none", "ahead"} ELSE {"none"}
    /\ fired = 0 /\ cumulative_ack = 0
    /\ data = <<>> /\ acks = <<>> /\ drops = 0
    /\ sprayed \in IF Spraying THEN BOOLEAN ELSE {FALSE}
    /\ paused = FALSE /\ pauses = 0

----------------------------------------------------------------------------
(* The pacing event of the source *)

(* The first event starts the flow (a trigger's activate does the same)    *)
(* and schedules the next.                                                 *)
Startflow ==
    /\ ~flow_started /\ events > 0
    /\ flow_started' = TRUE
    /\ highest_sent' = 0 /\ last_acked' = 0 /\ done' = FALSE
    /\ UNCHANGED <<state_send, flow_size, events, spaced, stop, fired>>
    /\ UNCHANGED <<cumulative_ack, network, card>>

(* Mutant: the event re-arms itself.                                       *)
EventLapsesRearmed ==
    /\ flow_started /\ events > 0
    /\ state_send = "PAUSED" \/ highest_sent >= flow_size
    /\ UNCHANGED vars

(* A paused source, or one that has sent everything, lets the event lapse: *)
(* RESUME or a NACK will schedule another.                                 *)
EventLapses ==
    /\ flow_started /\ events > 0
    /\ state_send = "PAUSED" \/ highest_sent >= flow_size
    /\ events' = events - 1
    /\ UNCHANGED <<flow_started, state_send, highest_sent, last_acked, flow_size,
                   done, spaced, stop, fired>>
    /\ UNCHANGED <<cumulative_ack, network, card>>

(* Mutant: the sequence number advances outside the pacing check. *)
SendPacketUnpaced ==
    /\ flow_started /\ events > 0
    /\ state_send # "PAUSED" /\ highest_sent < flow_size
    /\ Len(data) + Len(acks) < InFlight
    /\ spaced' = FALSE
    /\ highest_sent' = highest_sent + 1
    /\ data' = IF spaced THEN Append(data, highest_sent') ELSE data
    /\ UNCHANGED <<flow_started, state_send, last_acked, flow_size, done, events,
                   stop, fired>>
    /\ UNCHANGED <<cumulative_ack, acks, drops, sprayed, card>>

(* The packet is sent if it is time and the flow is not finished.  The     *)
(* event re-arms itself in every case.                                     *)
SendPacket ==
    /\ flow_started /\ events > 0
    /\ state_send # "PAUSED" /\ highest_sent < flow_size
    /\ spaced /\ Len(data) + Len(acks) < InFlight
    /\ spaced' = FALSE
    /\ IF last_acked >= flow_size THEN UNCHANGED <<highest_sent, data>>
       ELSE /\ highest_sent' = highest_sent + 1
            /\ data' = Append(data, highest_sent')
    /\ UNCHANGED <<flow_started, state_send, last_acked, flow_size, done, events,
                   stop, fired>>
    /\ UNCHANGED <<cumulative_ack, acks, drops, sprayed, card>>

SpacingPasses == spaced = FALSE /\ spaced' = TRUE
    /\ UNCHANGED <<flow_started, state_send, highest_sent, last_acked, flow_size,
                   done, events, stop, fired, cumulative_ack, network, card>>

----------------------------------------------------------------------------
(* receivePacket of the source: once the stop time is past, the flow ends  *)
(* one packet after the highest sent; a finished flow ignores the rest.    *)

StopPasses == stop = "ahead" /\ stop' = "past"
    /\ UNCHANGED <<flow_started, state_send, highest_sent, last_acked, flow_size,
                   done, events, spaced, fired, cumulative_ack, network, card>>

Receiving ==
    /\ flow_size' = IF stop = "past" THEN highest_sent + 1 ELSE flow_size
    /\ stop' = IF stop = "past" THEN "none" ELSE stop
    /\ UNCHANGED <<flow_started, spaced>>

ProcessAck(ackno) ==
    /\ last_acked' = IF ackno > last_acked THEN ackno ELSE last_acked
    /\ done' = (ackno >= flow_size')
    /\ fired' = IF done' THEN fired + 1 ELSE fired
    /\ UNCHANGED <<state_send, highest_sent, events>>

(* Mutant: pacing that had stopped stays stopped. *)
ProcessNackIdle(ackno) ==
    /\ last_acked' = ackno /\ highest_sent' = ackno
    /\ UNCHANGED <<state_send, done, fired, events>>

(* Go back to the packet after ackno; pacing restarts if it had stopped    *)
(* behind the last packet.                                                 *)
ProcessNack(ackno) ==
    /\ last_acked' = ackno
    /\ events' = IF highest_sent >= flow_size' /\ ackno < flow_size'
                 THEN events + 1 ELSE events
    /\ highest_sent' = ackno
    /\ UNCHANGED <<state_send, done, fired>>

(* What may arrive next: on one path the first, else any. *)
Arriving(path) == {i \in DOMAIN path : sprayed \/ i = 1}

(* Mutant: a finished flow handles late answers too. *)
AnswerAlways ==
    \E i \in Arriving(acks) :
        /\ acks' = RemoveAt(acks, i)
        /\ Receiving
        /\ IF acks[i].nack THEN ProcessNack(acks[i].ackno) ELSE ProcessAck(acks[i].ackno)
        /\ UNCHANGED <<cumulative_ack, data, drops, sprayed, card>>

Answer ==
    \E i \in Arriving(acks) :
        /\ acks' = RemoveAt(acks, i)
        /\ Receiving
        /\ IF done THEN UNCHANGED <<state_send, highest_sent, last_acked, done, events, fired>>
           ELSE IF acks[i].nack THEN ProcessNack(acks[i].ackno)
           ELSE ProcessAck(acks[i].ackno)
        /\ UNCHANGED <<cumulative_ack, data, drops, sprayed, card>>

(* Mutant: RESUME does not restart the pacing. *)
ProcessPauseIdle(pause) ==
    IF ~flow_started THEN UNCHANGED source
    ELSE /\ Receiving
         /\ state_send' = IF done THEN state_send ELSE IF pause THEN "PAUSED" ELSE "READY"
         /\ UNCHANGED <<highest_sent, last_acked, done, fired, events>>

(* A frame that arrives before the flow has started is ignored. *)
ProcessPause(pause) ==
    IF ~flow_started THEN UNCHANGED source
    ELSE /\ Receiving
         /\ IF done THEN UNCHANGED <<state_send, events>>
            ELSE /\ state_send' = IF pause THEN "PAUSED" ELSE "READY"
                 /\ events' = IF pause THEN events ELSE events + 1
         /\ UNCHANGED <<highest_sent, last_acked, done, fired>>

Pause ==
    /\ ~paused /\ pauses < Pauses
    /\ paused' = TRUE /\ pauses' = pauses + 1
    /\ ProcessPause(TRUE)
    /\ UNCHANGED <<cumulative_ack, network>>

Resume ==
    /\ paused
    /\ paused' = FALSE /\ UNCHANGED pauses
    /\ ProcessPause(FALSE)
    /\ UNCHANGED <<cumulative_ack, network>>

----------------------------------------------------------------------------
(* The sink and the path *)

Send(nack, ackno) == acks' = Append(acks, [nack |-> nack, ackno |-> ackno])

(* Mutant: the packet that arrived is acknowledged, gap or no gap. *)
SinkReceivesLatest ==
    \E i \in Arriving(data) :
        /\ data' = RemoveAt(data, i)
        /\ cumulative_ack' = IF data[i] = cumulative_ack + 1 THEN data[i] ELSE cumulative_ack
        /\ Send(data[i] > cumulative_ack + 1, data[i])
        /\ UNCHANGED <<source, drops, sprayed, card>>

(* A gap is NACKed and its packet thrown away; everything else is answered *)
(* with the cumulative acknowledgement.                                    *)
SinkReceives ==
    \E i \in Arriving(data) :
        /\ data' = RemoveAt(data, i)
        /\ cumulative_ack' = IF data[i] = cumulative_ack + 1 THEN data[i] ELSE cumulative_ack
        /\ Send(data[i] > cumulative_ack + 1, cumulative_ack')
        /\ UNCHANGED <<source, drops, sprayed, card>>

(* A queue that is not lossless drops a packet, of which a later one is on *)
(* its way: with nothing behind it the flow would hang for good.           *)
PathDrops ==
    \E i \in Arriving(data) \ {Len(data)} :
        /\ drops < Drops
        /\ drops' = drops + 1
        /\ data' = RemoveAt(data, i)
        /\ UNCHANGED <<source, cumulative_ack, acks, sprayed, card>>

Next ==
    \/ Startflow \/ EventLapses \/ SendPacket \/ SpacingPasses
    \/ StopPasses \/ Answer \/ Pause \/ Resume
    \/ SinkReceives \/ PathDrops

Spec == Init /\ [][Next]_vars

(* Events fire, packets arrive, and every PAUSE is followed by a RESUME.   *)
FairSpec ==
    /\ Spec
    /\ WF_vars(Startflow) /\ WF_vars(EventLapses) /\ WF_vars(SpacingPasses)
    /\ WF_vars(SendPacket)
    /\ WF_vars(Answer) /\ WF_vars(SinkReceives)
    /\ WF_vars(Resume) /\ WF_vars(StopPasses)

----------------------------------------------------------------------------
(* Properties *)

(* A source with something to send that may send has an event pending:     *)
(* nothing else would ever wake it.  (A stop time that moves the end of    *)
(* the flow breaks this: see StopFinishes.)                                *)
NoLostWakeup ==
    (flow_started /\ state_send = "READY" /\ ~done /\ highest_sent < flow_size
        /\ flow_size = FlowSize)
        => events > 0

(* The source never believes more than the sink has received, even when    *)
(* old NACKs overtaken by newer ACKs take it back and old ACKs forward.    *)
AckedIsReceived ==
    /\ last_acked <= cumulative_ack
    /\ \A i \in 1 .. Len(acks) : acks[i].ackno <= cumulative_ack

(* The flow reports completion once, and only when the sink has it all: up *)
(* to its size, or to where the stop time ended it.  An ACK of all of it   *)
(* may overtake NACKs and ACKs of less, which then find the flow finished. *)
DoneOnce ==
    /\ fired = (IF done THEN 1 ELSE 0)
    /\ done => cumulative_ack >= FlowSize \/ cumulative_ack >= flow_size

(* On one path that has lost nothing, pauses, resumes and the extra pacing *)
(* events they leave never make the sink see a gap.                        *)
NoGap == (drops = 0 /\ ~sprayed) => \A i \in 1 .. Len(acks) : ~acks[i].nack

(* A flow without a stop time finishes: pauses end, and a loss with a      *)
(* packet behind it is repaired by going back.                             *)
FlowFinishes == stop = "none" => <>done

(* The pacing of a finished flow ends on one path that loses nothing.      *)
(* (Where packets are lost or overtaken, a late NACK can take highest_sent *)
(* back before the last ACK: then doNextEvent re-arms for ever without     *)
(* sending.)                                                               *)
PacingEnds == [](drops = 0 /\ ~sprayed) => <>[](events = 0)

(* What receivePacket says of the stop time: "stop sending new data, but   *)
(* allow us to finish any retransmissions": the flow still finishes.       *)
StopFinishes == stop = "ahead" => <>done
=============================================================================
