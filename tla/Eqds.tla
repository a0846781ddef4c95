-------------------------------- MODULE Eqds --------------------------------
(***************************************************************************)
(* EQDS end to end (eqds.cpp): sources, cards, sinks and pull pacers over  *)
(* a network that delays and reorders every packet, cuts the payload off   *)
(* data packets (strip_payload in a full queue) and loses data and RTS     *)
(* packets.  A step is one event of the simulator, with every call it      *)
(* makes; each event has an instant of its own.                            *)
(***************************************************************************)
EXTENDS EqdsSink

CONSTANTS
    MaxTrims, MaxDrops,     \* bounds on what the network does to packets
    MaxPulls                \* bound on a host's pull packets under way

ASSUME FaultConstants == MaxTrims \in Nat /\ MaxDrops \in Nat /\ MaxPulls \in Nat \ {0}

VARIABLES src, nic, sink, pacer, net, now, ok,  \* the world of EqdsSource
          started,                              \* flows whose start time is past
          trims, drops
vars == <<src, nic, sink, pacer, net, now, ok, started, trims, drops>>

Init ==
    /\ src = [f \in Flow |-> Source]
    /\ nic = [h \in Host |-> Card]
    /\ sink = [f \in Flow |-> Sink]
    /\ pacer = [h \in Host |-> Pacer]
    /\ net = <<>>
    /\ now = 1
    /\ ok = TRUE
    /\ started = {} /\ trims = 0 /\ drops = 0

World == [src |-> src, nic |-> nic, sink |-> sink, pacer |-> pacer,
          net |-> net, now |-> now, ok |-> ok]
Flying == DOMAIN net
Take(p) == [World EXCEPT !.net = InFlight!BagRemove(@, p)]

\* The next instant in the world v.  Instants are renumbered, so that only
\* those still in use are told apart: Number(S, t) is the place of t among S.
InUse(v) ==
    (UNION {DOMAIN v.src[f].times \cup Range(v.src[f].tx)
               \cup {v.src[f].lastRts} : f \in Flow}) \ {0}
Number(S, t) == Cardinality({u \in S : u <= t})
Renumbered(s, S) ==
    [s EXCEPT !.tx = [seq \in DOMAIN @ |-> Number(S, @[seq])],
              !.times = [n \in {Number(S, t) : t \in DOMAIN @} |->
                            @[CHOOSE t \in DOMAIN @ : Number(S, t) = n]],
              !.timer = Number(S, @),
              !.lastRts = Number(S, @)]
Tick(v) ==
    LET S == InUse(v)
    IN  [v EXCEPT !.src = [f \in Flow |-> Renumbered(v.src[f], S)],
                  !.now = Cardinality(S) + 1]

\* An event leaves the world v behind; a failed assert ends the program.
Event(v) ==
    LET t == Tick(v)
    IN  /\ ok
        /\ src' = t.src /\ nic' = t.nic /\ sink' = t.sink /\ pacer' = t.pacer
        /\ net' = t.net /\ now' = t.now /\ ok' = t.ok

-----------------------------------------------------------------------------
(* The events of the hosts.                                                *)

\* doNextEvent at the start time, or the start trigger.
Start(f) ==
    /\ f \notin started
    /\ Event(StartFlow(World, f))
    /\ started' = started \cup {f}
    /\ UNCHANGED <<trims, drops>>

\* The card has sent its packet: it goes on with what waits, or it is idle.
CardEvent(h) ==
    /\ nic[h].events > 0 /\ nic[h].phase # "idle"
    /\ Event(CardTurn([World EXCEPT !.nic[h].events = @ - 1,
                                    !.nic[h].phase = "ending"], h))
    /\ UNCHANGED <<started, trims, drops>>

CardIdle(h) ==
    /\ nic[h].events = 0 /\ nic[h].phase # "idle"
    /\ Event([World EXCEPT !.nic[h].phase = "idle"])
    /\ UNCHANGED <<started, trims, drops>>

\* _min_rto is set far above the time that a packet, its answer and the pulls
\* due to it take: the timer expires when nothing of the flow is under way.
UnderWay(f) ==
    Flying \cup UNION {Range(nic[h].control) : h \in {From[f], To[f]}}
Quiet(f) ==
    /\ ~\E p \in UnderWay(f) : p.flow = f
    /\ LET p == pacer[To[f]] IN ~Contains(p.rtx \o p.active \o p.idle, f)
    /\ ~Contains(nic[From[f]].queue, f)

Timeout(f) ==
    /\ src[f].timer # 0
    /\ Quiet(f)
    /\ Event(RtxTimerExpired([World EXCEPT !.src[f].timer = 0], f))
    /\ UNCHANGED <<started, trims, drops>>

PullsUnderWay(h) ==
    {p \in Flying \cup Range(nic[h].control) : p.kind = "pull"}

PacerEvent(h) ==
    /\ pacer[h].events > 0
    /\ Cardinality(PullsUnderWay(h)) < MaxPulls
    /\ Event(PacerTurn([World EXCEPT !.pacer[h].events = @ - 1], h))
    /\ UNCHANGED <<started, trims, drops>>

-----------------------------------------------------------------------------
(* The network: receivePacket of source and sink, and what befalls packets *)
(* on the way.                                                             *)

Feedback(p) ==
    /\ \/ p.kind = "ack" /\ Event(ProcessAck(Take(p), p.flow, p))
       \/ p.kind = "nack" /\ Event(ProcessNack(Take(p), p.flow, p))
       \/ p.kind = "pull" /\ Event(ProcessPull(Take(p), p.flow, p))
    /\ UNCHANGED <<started, trims, drops>>

Arrive(p) ==
    /\ \/ p.kind = "data" /\ Event(ProcessData(Take(p), p.flow, p))
       \/ p.kind = "trimmed" /\ Event(ProcessTrimmed(Take(p), p.flow, p))
       \/ p.kind = "rts" /\ Event(ProcessRts(Take(p), p.flow, p))
    /\ UNCHANGED <<started, trims, drops>>

Trim(p) ==
    /\ p.kind = "data" /\ trims < MaxTrims
    /\ Event(SendOn(Take(p), [p EXCEPT !.kind = "trimmed", !.bytes = Hdr]))
    /\ trims' = trims + 1
    /\ UNCHANGED <<started, drops>>

Drop(p) ==
    /\ p.kind \in {"data", "rts"} /\ drops < MaxDrops
    /\ Event(Take(p))
    /\ drops' = drops + 1
    /\ UNCHANGED <<started, trims>>

Next ==
    \/ \E f \in Flow : Start(f) \/ Timeout(f)
    \/ \E h \in Host : CardEvent(h) \/ CardIdle(h) \/ PacerEvent(h)
    \/ \E p \in Flying : Feedback(p) \/ Arrive(p) \/ Trim(p) \/ Drop(p)

Spec == Init /\ [][Next]_vars

\* The simulator runs as long as its event list has an event, and every packet
\* in the network is such an event.
Pending ==
    \/ started # Flow
    \/ Flying # {}
    \/ \E f \in Flow : src[f].timer # 0 /\ Quiet(f)
    \/ \E h \in Host : \/ nic[h].phase # "idle"
                       \/ /\ pacer[h].events > 0
                          /\ Cardinality(PullsUnderWay(h)) < MaxPulls
Fairness == []<>~Pending \/ []<><<TRUE>>_vars
FairSpec == Spec /\ Fairness

-----------------------------------------------------------------------------
(* Properties.                                                             *)

\* No assert or abort of eqds.cpp fails; among them spendCredit's, that a source
\* spending pulled credit is COMMITTED.  It fails for a flow that is sent whole
\* on speculative credit: with nothing left to send, stopSpeculating leaves the
\* state SPECULATING, and the first retransmission on pulled credit aborts.
NoAbort == ok

\* Every packet that has been sent and not acknowledged is covered: its send
\* time has an entry of its own, and the timer waits for the earliest entry.
\* Without one a lost packet is never sent again.
EveryPacketTimed ==
    \A f \in Flow : LET s == src[f] IN
        /\ {s.times[t] : t \in DOMAIN s.times} = DOMAIN s.tx
        /\ s.timer = IF DOMAIN s.times = {} THEN 0 ELSE Least(DOMAIN s.times)

\* A card calls back what waits for it, through every grant, refusal, declined
\* turn and control packet of its sources and sinks: it has exactly one event to
\* come while a source or a control packet waits and none otherwise, it is not
\* idle meanwhile, and only sources of its own host wait.
CardServes ==
    \A h \in Host : LET n == nic[h] IN
        /\ n.events = IF Waiting(n) THEN 1 ELSE 0
        /\ n.phase = "idle" => ~Waiting(n)
        /\ \A i \in DOMAIN n.queue : From[n.queue[i]] = h

\* The sinks' flags and the pacer's lists say the same: a sink is in the
\* active list when its flag says so, in the retransmission list while it has
\* retransmissions to pull, and the pacer has one event to come while it runs.
PullListsAgree ==
    \A f \in Flow : LET p == pacer[To[f]] IN
        /\ sink[f].inPull <=> Contains(p.active, f)
        /\ sink[f].retx > 0 <=> Contains(p.rtx, f)
        /\ p.events = IF p.running THEN 1 ELSE 0

\* A source that reports its flow finished has had every byte accepted, however
\* many sequence numbers went to RTS packets, retransmitted or not.
DoneMeansReceived ==
    \A f \in Flow : src[f].done => sink[f].received = Size[f] * Mss

\* Every flow finishes, after the trimmed and the lost packets of the bounds.
FlowFinishes == \A f \in Flow : <>src[f].done
=============================================================================
