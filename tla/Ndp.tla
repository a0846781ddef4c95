-------------------------------- MODULE Ndp --------------------------------
(***************************************************************************)
(* NDP (ndp.cpp): the flows of an incast, each with its NdpSrc and NdpSink, *)
(* the NdpPullPacer of the host they send to, and the last queue before     *)
(* that host, a CompositeQueue.  Packets take different paths there and     *)
(* back, so the network delivers them in any order; it loses none.          *)
(***************************************************************************)
EXTENDS CompositeQueue, FairPull

CONSTANTS
    Flow,                   \* flow ids, positive
    Size,                   \* Size[f]: _flow_size in packets
    Window,                 \* _cwnd in packets
    RtsFlow,                \* the flows that ask for a grant before they send (_rts)
    History,                \* HIST_LEN, the answers a source remembers
    MaxTrims, MaxBounces    \* bounds on what full queues do

ASSUME FlowConstants ==
    /\ Flow \subseteq Nat \ {0} /\ Size \in [Flow -> Nat \ {0}] /\ RtsFlow \subseteq Flow
    /\ Window \in Nat \ {0} /\ MaxTrims \in Nat /\ MaxBounces \in Nat
    /\ \A f \in Flow : Size[f] + MaxTrims + MaxBounces <= History

VARIABLES
    src,            \* NdpSrc of each flow
    sink,           \* NdpSink of each flow
    pacer,          \* NdpPullPacer of the host
    queue,          \* the CompositeQueue
    net,            \* packets and answers on their way, no two of them alike
    started, trims, bounces
vars == <<src, sink, pacer, queue, net, started, trims, bounces>>

Source == [highest |-> 0, rtx |-> {}, lastPull |-> 0, maxPull |-> 0,
           pullWindow |-> 0, firstWindow |-> 0, acks |-> 0, answers |-> 0, done |-> 0]
Sink == [pullNo |-> 0, received |-> {}]

\* recent: less than a packet's drain time has passed since _last_pull; due and
\* later: events of the pacer at this instant and at the end of that time.
Pacer == [pulls |-> EmptyFair, recent |-> FALSE, due |-> 0, later |-> 0]

Init ==
    /\ src = [f \in Flow |-> Source]
    /\ sink = [f \in Flow |-> Sink]
    /\ pacer = Pacer
    /\ queue = EmptyComposite
    /\ net = {}
    /\ started = {} /\ trims = 0 /\ bounces = 0

DataPacket(f, q) == [kind |-> "data", flow |-> f, seq |-> q]
Data(f, seqs) == {DataPacket(f, q) : q \in seqs}

-----------------------------------------------------------------------------
(* The source.                                                             *)

\* What n calls of send_packet send: the retransmission queue in order and then
\* new packets, which come later in the sequence anyway.
Outgoing(f, s, n) ==
    LET ready == s.rtx \cup (s.highest + 1)..Size[f]
    IN  {q \in ready : Cardinality({r \in ready : r <= q}) <= n}

\* Mutant: the retransmission queue keeps what was sent.
SentKept(s, out) == [s EXCEPT !.highest = Max(out \cup {@})]

Sent(s, out) == [s EXCEPT !.rtx = @ \ out, !.highest = Max(out \cup {@})]

\* Mutant: the pulls used are not counted, and the loop ends only when nothing
\* is left to send.
PullPacketsUncounted(f, s, pullNo) ==
    LET out == Outgoing(f, s, Size[f])
    IN  [s |-> [Sent(s, out) EXCEPT !.maxPull = Max({@, pullNo})],
         out |-> Data(f, out)]

\* Pull numbers are cumulative: a pull stands for those it has overtaken, and
\* what it allows beyond the packets at hand is kept for later.
PullPackets(f, s, pullNo) ==
    LET max == Max({s.maxPull, pullNo})
        out == Outgoing(f, s, max - s.lastPull)
    IN  [s |-> [Sent(s, out) EXCEPT !.maxPull = max,
                                    !.lastPull = @ + Cardinality(out)],
         out |-> Data(f, out)]

NoPackets(s) == [s |-> s, out |-> {}]

\* A flow begins with a window of packets, or of requests for grants.
StartFlow(f) ==
    /\ f \notin started
    /\ LET out == 1..Min({Window, Size[f]})
       IN  IF f \in RtsFlow
           THEN /\ net' = net \cup {[kind |-> "rts", flow |-> f, grant |-> i] : i \in out}
                /\ UNCHANGED src
           ELSE /\ net' = net \cup Data(f, out)
                /\ src' = [src EXCEPT ![f] =
                              [Sent(@, out) EXCEPT !.firstWindow = Max(out)]]
    /\ started' = started \cup {f}
    /\ UNCHANGED <<sink, pacer, queue, trims, bounces>>

\* An answer is taken off the network; r is the source after its handler and
\* the packets it sent.
Handled(p, r) ==
    /\ src' = [src EXCEPT ![p.flow] = r.s]
    /\ net' = (net \ {p}) \cup r.out
    /\ UNCHANGED <<sink, pacer, queue, started, trims, bounces>>

ReceiveAck(p) ==
    /\ p.kind = "ack"
    /\ LET f == p.flow
           s == [src[f] EXCEPT !.pullWindow = @ + IF p.pull THEN 0 ELSE 1,
                               !.firstWindow = @ - 1,
                               !.acks = @ + 1, !.answers = @ + 1]
       IN  Handled(p, IF p.cum >= Size[f] THEN NoPackets([s EXCEPT !.done = @ + 1])
                      ELSE IF p.pull THEN PullPackets(f, s, p.pullNo)
                      ELSE NoPackets(s))

\* The packet waits for a pull, unless the NACK carries one or one is left.
ReceiveNack(p) ==
    /\ p.kind = "nack"
    /\ LET f == p.flow
           s == [src[f] EXCEPT !.pullWindow = @ + 1, !.firstWindow = @ - 1,
                               !.answers = @ + 1,
                               !.rtx = @ \cup {p.seq}]
       IN  Handled(p, IF p.pull \/ s.lastPull < s.maxPull
                      THEN PullPackets(f, s, p.pullNo) ELSE NoPackets(s))

ReceivePull(p) ==
    /\ p.kind = "pull"
    /\ LET s == [src[p.flow] EXCEPT !.pullWindow = @ - 1]
       IN  Handled(p, PullPackets(p.flow, s, p.pullNo))

\* is_bad_path: at least a quarter of the answers the source remembers are ACKs.
BadPath(s) == s.acks > 0 /\ s.answers \div s.acks <= 3

\* A header that came back (processRTS) is swallowed until a pull asks for it,
\* or sent again at once when no pull is expected or the path was a bad one.
ReceiveBounce(p) ==
    /\ p.kind = "bounced"
    /\ LET f == p.flow
           s == [src[f] EXCEPT !.firstWindow = @ - 1, !.rtx = @ \cup {p.seq},
                               !.answers = @ + 1]
           out == Outgoing(f, s, 1)
       IN  Handled(p, IF \/ s.pullWindow = 0 /\ s.firstWindow <= 1
                         \/ BadPath(s)
                      THEN [s |-> Sent(s, out), out |-> Data(f, out)]
                      ELSE NoPackets(s))

-----------------------------------------------------------------------------
(* The pacer and the sink.                                                 *)

CumulativeAck(received) ==
    Max({0} \cup {n \in received : 1..n \subseteq received})

\* Mutant: the pacer does not wake itself up again.
PacedForgotten(f, pullNo) ==
    LET idle == pacer.pulls.pull_count = 0 IN
    IF idle /\ ~pacer.recent THEN [pacer EXCEPT !.recent = TRUE]
    ELSE [pacer EXCEPT !.pulls = Enqueue(@, f, pullNo)]

\* NdpPullPacer::sendPacket: an answer takes its pull along when the last pull
\* was long enough ago; otherwise the pull waits in the pacer.
PullsAlong == pacer.pulls.pull_count = 0 /\ ~pacer.recent
Paced(f, pullNo) ==
    IF PullsAlong THEN [pacer EXCEPT !.recent = TRUE]
    ELSE [pacer EXCEPT !.pulls = Enqueue(@, f, pullNo),
                       !.later = @ + IF pacer.pulls.pull_count = 0 THEN 1 ELSE 0]

\* send_ack and send_nack.  An answer without its pull has pull number 0
\* (dont_pull).  A sink that has everything drops its pulls (release_pulls).
Answer(kind, p, k) ==
    LET f == p.flow
        cum == CumulativeAck(k.received)
        paced == Paced(f, k.pullNo)
    IN  /\ net' = net \cup
              {[kind |-> kind, flow |-> f, seq |-> p.seq, cum |-> cum,
                pull |-> PullsAlong, pullNo |-> IF PullsAlong THEN k.pullNo ELSE 0]}
        /\ sink' = [sink EXCEPT ![f] = k]
        /\ pacer' = IF kind = "ack" /\ cum = Size[f]
                    THEN [paced EXCEPT !.pulls = FlushFlow(@, f)] ELSE paced

ReceiveData(p) ==
    Answer("ack", p, [pullNo   |-> sink[p.flow].pullNo + 1,
                      received |-> sink[p.flow].received \cup {p.seq}])

ReceiveHeader(p) ==
    Answer("nack", p, [sink[p.flow] EXCEPT !.pullNo = @ + 1])

\* A pull without an answer to go with: the pacer's event comes at once, or when
\* the drain time is over.
EnqueuePull(f, pullNo) ==
    LET none == pacer.pulls.pull_count = 0
    IN  [pacer EXCEPT !.pulls = Enqueue(@, f, pullNo),
                      !.due   = @ + IF none /\ ~pacer.recent THEN 1 ELSE 0,
                      !.later = @ + IF none /\ pacer.recent THEN 1 ELSE 0]

\* A request is granted with a pull of its own.
ReceiveRts(p) ==
    /\ sink' = [sink EXCEPT ![p.flow].pullNo = @ + 1]
    /\ pacer' = EnqueuePull(p.flow, sink[p.flow].pullNo + 1)
    /\ UNCHANGED net

\* The drain time since the last pull is over.
PacerClock ==
    /\ pacer.recent /\ pacer.due = 0
    /\ pacer' = [pacer EXCEPT !.recent = FALSE, !.due = pacer.later, !.later = 0]
    /\ UNCHANGED <<src, sink, queue, net, started, trims, bounces>>

\* doNextEvent, which finds nothing when the pulls have been released.
PacerEvent ==
    /\ pacer.due > 0
    /\ LET p == pacer.pulls
           rest == Dequeue(p)
       IN  IF p.pull_count = 0
           THEN /\ pacer' = [pacer EXCEPT !.due = @ - 1]
                /\ UNCHANGED net
           ELSE /\ pacer' = [pulls |-> rest, recent |-> TRUE, due |-> pacer.due - 1,
                             later |-> pacer.later + IF rest.pull_count > 0 THEN 1 ELSE 0]
                /\ net' = net \cup
                      {[kind |-> "pull", flow |-> Turn(p), pullNo |-> Served(p)]}
    /\ UNCHANGED <<src, sink, queue, started, trims, bounces>>

-----------------------------------------------------------------------------
(* The queue.                                                              *)

\* A request that came back would reach an abort in NdpSrc::receivePacket: here
\* it waits for room.
QueueReceives(p) ==
    /\ p.kind \in {"data", "rts"}
    /\ \E r \in ReceivePacket(queue, p) :
          /\ \A b \in r.bounced : b.kind = "data"
          /\ queue' = r.queue
          /\ net' = (net \ {p}) \cup {[b EXCEPT !.kind = "bounced"] : b \in r.bounced}
          /\ bounces' = bounces + Cardinality(r.bounced)
    /\ trims' = trims + IF p.kind = "data" /\ LowFull(queue) THEN 1 ELSE 0
    /\ trims' <= MaxTrims /\ bounces' <= MaxBounces
    /\ UNCHANGED <<src, sink, pacer, started>>

\* The packet goes over the last link to its sink.
QueueServes ==
    /\ Serving(queue)
    /\ LET p == InService(queue)
       IN  \/ queue.serv = "low" /\ ReceiveData(p)
           \/ queue.serv = "high" /\ p.kind = "data" /\ ReceiveHeader(p)
           \/ p.kind = "rts" /\ ReceiveRts(p)
    /\ queue' = CompleteService(queue)
    /\ UNCHANGED <<src, started, trims, bounces>>

-----------------------------------------------------------------------------
SourceEvent(p) == ReceiveAck(p) \/ ReceiveNack(p) \/ ReceivePull(p) \/ ReceiveBounce(p)

Next ==
    \/ \E f \in Flow : StartFlow(f)
    \/ \E p \in net : SourceEvent(p) \/ QueueReceives(p)
    \/ QueueServes \/ PacerClock \/ PacerEvent

Spec == Init /\ [][Next]_vars

\* The simulator runs as long as its event list has an event; a packet on its
\* way and a packet in service are such events.
FairSpec == Spec /\ WF_vars(Next)

-----------------------------------------------------------------------------
(* Properties.                                                             *)

OfFlow(packets, f, kinds) == {p \in packets : p.flow = f /\ p.kind \in kinds}
Queued == Range(queue.low \o queue.high)

\* A packet that was sent is in exactly one place: on its way (there or, as a
\* NACK or a bounced header, back), in the queue, waiting to be sent again, or
\* received.  Trimming, bouncing and pulling neither lose one nor double it, so
\* the end of a flow, which has no flag to remember it, is reported once.
EachPacketOnce ==
    \A f \in Flow :
        /\ \A q \in 1..src[f].highest :
              (IF q \in src[f].rtx THEN 1 ELSE 0)
                + (IF q \in sink[f].received THEN 1 ELSE 0)
                + Quantify(OfFlow(net, f, {"data", "bounced", "nack"}),
                           LAMBDA p : p.seq = q)
                + Quantify(DOMAIN queue.low, LAMBDA i : queue.low[i] = DataPacket(f, q))
                + Quantify(DOMAIN queue.high, LAMBDA i : queue.high[i] = DataPacket(f, q)) = 1
        /\ src[f].done <= 1
        /\ src[f].done = 1 => sink[f].received = 1..Size[f]

\* However pulls overtake each other, the packets and requests on their way and
\* the pulls not yet used are never more than the window the source began with.
WindowKept ==
    \A f \in Flow :
        Cardinality(OfFlow(net \cup Queued, f, {"data", "bounced", "rts"}))
          + (sink[f].pullNo - src[f].lastPull) <= Min({Window, Size[f]})

\* The one way a flow ends unfinished: a header that came back was swallowed
\* and nothing is on its way that would make the source send it.
Stranded(f) ==
    /\ src[f].rtx # {} /\ bounces > 0
    /\ ~\E p \in net \cup Queued : p.flow = f
    /\ f \notin Backlogged(pacer.pulls)

\* Every flow finishes, or is stranded by a swallowed header: trimmed packets
\* alone never stop a flow, though the source has no retransmission timer.
FinishOrStrand == \A f \in Flow : <>(src[f].done = 1 \/ Stranded(f))
=============================================================================
