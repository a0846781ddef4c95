----------------------------- MODULE EqdsSource -----------------------------
(***************************************************************************)
(* The sending half of EQDS (eqds.cpp): the network card EqdsNIC and the   *)
(* sources EqdsSrc that share it.  The two call each other in both         *)
(* directions (a source asks the card for leave to send, the card calls a  *)
(* queued source back, which may decline and pass the turn on), so each    *)
(* method is an operator from a world to the world it leaves behind:       *)
(*                                                                         *)
(*   w.src   [Flow -> source]     w.nic   [Host -> card]                   *)
(*   w.sink  [Flow -> sink]       w.pacer [Host -> pull pacer]             *)
(*   w.net   bag of the packets in flight                                  *)
(*   w.now   the current instant  w.ok    no assert or abort has been hit  *)
(*                                                                         *)
(* A flow is a whole number of packets, so _backlog and _unsent are one    *)
(* count; _in_flight, statistics, path entropy and ECN are left out.       *)
(***************************************************************************)
EXTENDS Integers, Sequences, FiniteSets, SequencesExt

InFlight == INSTANCE BagsExt    \* the packets in flight

CONSTANTS
    Flow,       \* the connections
    Host,       \* the hosts, each with one card and one pull pacer
    From, To,   \* the host a flow leaves and the host it reaches
    Size,       \* packets in each flow
    Window,     \* _maxwnd, in packets
    Hdr, Mss,   \* _hdr_size and _mss, in bytes
    Quantum,    \* PULL_QUANTUM, in bytes
    RtsTarget,  \* the pull target an RTS carries, in quanta
    DataTurns, ControlTurns,    \* _ratio_data and _ratio_control
    Wrap        \* pull_quanta is unsigned: 2^64 in the code

ASSUME EqdsConstants ==
    /\ IsFiniteSet(Flow) /\ From \in [Flow -> Host] /\ To \in [Flow -> Host]
    /\ Size \in [Flow -> Nat \ {0}] /\ Window \in Nat \ {0}
    /\ Hdr \in Nat \ {0} /\ Mss \in Nat \ {0} /\ Quantum \in Nat \ {0}
    /\ RtsTarget \in Nat /\ Wrap \in Nat \ {0}
    /\ DataTurns \in Nat \ {0} /\ ControlTurns \in Nat

Mtu == Hdr + Mss
Least(S) == CHOOSE x \in S : \A y \in S : x <= y

\* (bytes + PULL_QUANTUM - 1) / PULL_QUANTUM, rounding towards zero as C does.
QuantizeCeil(bytes) ==
    LET b == bytes + Quantum - 1
    IN  IF b >= 0 THEN b \div Quantum ELSE -((-b) \div Quantum)
Unquantize(quanta) == quanta * Quantum

Asserted(w, claim) == [w EXCEPT !.ok = @ /\ claim]
SendOn(w, packet) == [w EXCEPT !.net = InFlight!BagAdd(@, packet)]

-----------------------------------------------------------------------------
(* The card.  phase: "sending" while now < _send_end_time, "ending" when   *)
(* they are equal, "idle" after; events: its entries in the event list,    *)
(* all at _send_end_time; crt: the turn counter of data against control.   *)

Card == [phase |-> "ending", queue |-> <<>>, control |-> <<>>,
         events |-> 0, crt |-> 0]

Waiting(n) == n.queue # <<>> \/ n.control # <<>>
Scheduled(n) == IF Waiting(n) THEN [n EXCEPT !.events = @ + 1] ELSE n

Busy(w, f) == w.nic[From[f]].phase # "idle"

\* requestSending, refused: the source is queued for a callback.
JoinQueue(w, f) ==
    LET n == w.nic[From[f]]
        queued == [n EXCEPT !.queue = Append(@, f)]
    IN  [w EXCEPT !.nic[From[f]] =
            IF Waiting(n) THEN queued ELSE [queued EXCEPT !.events = @ + 1]]

StartSending(w, f) ==
    LET n == w.nic[From[f]]
        rest == IF n.queue = <<>> THEN <<>> ELSE Tail(n.queue)
    IN  Asserted([w EXCEPT !.nic[From[f]] =
                   Scheduled([n EXCEPT !.queue = rest, !.phase = "sending"])],
               /\ n.phase # "sending"
               /\ n.queue # <<>> => Head(n.queue) = f)

\* Mutant of SendControl: the next event is not scheduled.
SendControlUnscheduled(w, h) ==
    LET n == w.nic[h]
    IN  SendOn([w EXCEPT !.nic[h] = [n EXCEPT !.control = Tail(@), !.phase = "sending"]],
               Head(n.control))

\* The head of the control queue goes out.
SendControl(w, h) ==
    LET n == w.nic[h]
    IN  SendOn([w EXCEPT !.nic[h] =
                   Scheduled([n EXCEPT !.control = Tail(@), !.phase = "sending"])],
               Head(n.control))

-----------------------------------------------------------------------------
(* The source.  tx is _tx_bitmap (sequence number to send time) and times  *)
(* _send_times (send time to sequence number: one entry per instant);      *)
(* timer is _rto_send_time while the timeout is pending and 0 otherwise;   *)
(* rts holds the sequence numbers given to RTS packets.                    *)

Source == [state |-> "INITIALIZE_CREDIT", speculating |-> FALSE,
           unsent |-> 0, creditPull |-> 0, creditSpec |-> Window * Mtu,
           pull |-> 0, pullTarget |-> 0, highest |-> 0, rts |-> {},
           tx |-> <<>>, times |-> <<>>, rtx |-> {}, blocked |-> FALSE,
           timer |-> 0, lastRts |-> 0, done |-> FALSE]

Without(fn, S) == [x \in DOMAIN fn \ S |-> fn[x]]
PacketSize(s, seq) == IF seq \in s.rts THEN Hdr ELSE Mtu
Credit(s) == s.creditPull + s.creditSpec
NothingToSend(s) == s.unsent = 0 /\ s.rtx = {}

StopSpeculating(s) ==
    [s EXCEPT !.speculating = FALSE,
              !.state = IF s.unsent > 0 /\ @ = "SPECULATING" THEN "COMMITTED"
                                                             ELSE @]

\* spendCredit: where the credit comes from; "none" reduces the speculative
\* credit all the same, and nothing is sent.
SpendKind(s) ==
    IF s.creditPull > 0 THEN "pull"
    ELSE IF s.speculating /\ s.creditSpec > 0 THEN "spec" ELSE "none"
MaySpend(s) ==
    /\ Credit(s) > 0
    /\ s.state = IF SpendKind(s) = "spec" THEN "SPECULATING" ELSE "COMMITTED"
SpendCredit(s, bytes) ==
    IF SpendKind(s) = "pull" THEN [s EXCEPT !.creditPull = @ - bytes]
                             ELSE [s EXCEPT !.creditSpec = @ - bytes]

ComputePullTarget(s) ==
    LET wanted == Least({s.unsent * Mtu, Window * Mtu}) - Credit(s)
    IN  (QuantizeCeil(wanted) + s.pull) % Wrap

\* startRTO, with a fixed _rto: the earlier send time expires first.
StartRTO(s, at) ==
    IF s.timer = 0 \/ at < s.timer THEN [s EXCEPT !.timer = at] ELSE s

RecalculateRTO(s) ==
    [s EXCEPT !.timer = IF DOMAIN s.times = {} THEN 0 ELSE Least(DOMAIN s.times)]

\* map::emplace: an entry that is there already stays as it is.
Emplace(fn, key, value) ==
    [x \in DOMAIN fn \cup {key} |-> IF x \in DOMAIN fn THEN fn[x] ELSE value]

CreateSendRecord(w, f, seq) ==
    LET s == w.src[f]
    IN  Asserted([w EXCEPT !.src[f] =
                   [s EXCEPT !.tx = Emplace(@, seq, w.now),
                             !.times = Emplace(@, w.now, seq)]],
               seq \notin DOMAIN s.tx)

\* Mutant of Acknowledged: the timer keeps waiting for what was acknowledged.
AcknowledgedTimed(s, seqs) ==
    [s EXCEPT !.tx = Without(@, seqs), !.times = Without(@, {s.tx[seq] : seq \in seqs})]

\* handleAckno and handleCumulativeAck, for all they acknowledge: the entry of
\* _send_times is erased by its time, whichever packet it names.
Acknowledged(s, seqs) ==
    LET at == {s.tx[seq] : seq \in seqs}
        rest == [s EXCEPT !.tx = Without(@, seqs), !.times = Without(@, at)]
    IN  IF s.timer \in at THEN RecalculateRTO(rest) ELSE rest

\* A packet leaves: its record, the packet itself and the timer.
Launch(w, f, seq, target, ar) ==
    LET recorded == CreateSendRecord(w, f, seq)
        packet == [kind |-> "data", flow |-> f, seq |-> seq, target |-> target,
                   bytes |-> PacketSize(w.src[f], seq), ar |-> ar]
    IN  [SendOn(recorded, packet) EXCEPT !.src[f] = StartRTO(@, w.now)]

SendNewPacket(w, f) ==
    LET s == w.src[f]
        spent == SpendCredit(s, Mtu)
        taken == [spent EXCEPT !.unsent = @ - 1, !.highest = @ + 1]
        t == [taken EXCEPT !.pullTarget = ComputePullTarget(taken)]
        v == Asserted(w, /\ s.unsent > 0 /\ MaySpend(s)
                       /\ s.highest - Cardinality(s.rts) < Size[f])
    IN  IF SpendKind(s) = "none" THEN [v EXCEPT !.src[f] = spent]
        ELSE Launch([v EXCEPT !.src[f] = t], f, s.highest, t.pullTarget,
                    t.unsent = 0 \/ t.creditPull < 0)

SendRtxPacket(w, f) ==
    LET s == w.src[f]
        seq == Least(s.rtx)
        spent == SpendCredit(s, PacketSize(s, seq))
        v == Asserted(w, MaySpend(s) /\ SpendKind(s) # "spec")
    IN  IF s.rtx = {} THEN Asserted(w, FALSE)
        ELSE IF SpendKind(s) = "none" THEN [v EXCEPT !.src[f] = spent]
        ELSE Launch([v EXCEPT !.src[f] = [spent EXCEPT !.rtx = @ \ {seq}]],
                    f, seq, s.pullTarget, TRUE)

SendPacket(w, f) ==
    IF w.src[f].rtx = {} THEN SendNewPacket(w, f) ELSE SendRtxPacket(w, f)

-----------------------------------------------------------------------------
(* The calls between card and source.                                      *)

\* A source whose turn it is declines it when it has nothing to send, no credit,
\* or only credit that it may not spend.
Declines(s) == NothingToSend(s) \/ Credit(s) <= 0 \/ SpendKind(s) = "none"

\* The card takes a source that declined from its queue.
Popped(w, f) ==
    LET n == w.nic[From[f]]
    IN  IF n.queue = <<>> THEN w
        ELSE Asserted([w EXCEPT !.nic[From[f]].queue = Tail(@)],
                      Head(n.queue) = f /\ n.phase # "sending")

\* What the call to a source that declines leaves.
Declined(w, f) ==
    LET s == w.src[f]
        u == [w EXCEPT !.src[f].blocked = FALSE]
    IN  Popped(IF NothingToSend(s) THEN w
               ELSE IF Credit(s) <= 0 THEN u ELSE SendPacket(u, f), f)

\* Asked(w, h)[i]: the world after the first i sources in the card's queue have
\* been called back and declined, each in the call that the one before it made.
Asked(w, h) ==
    LET asked[i \in Nat] ==
            IF i = 0 THEN w ELSE Declined(asked[i - 1], w.nic[h].queue[i])
    IN  asked

\* A source that has leave to send tells the card, and asks for another turn.
TakeTurn(w, f) ==
    LET v == StartSending(SendPacket([w EXCEPT !.src[f].blocked = FALSE], f), f)
    IN  IF Credit(v.src[f]) <= 0 \/ NothingToSend(v.src[f]) THEN v
        ELSE [JoinQueue(v, f) EXCEPT !.src[f].blocked = TRUE]

\* The card calls its sources back until one sends; when all have declined, a
\* control packet goes out.
TimeToSend(w, h) ==
    LET queue == w.nic[h].queue
        asked == Asked(w, h)
        takers == {i \in DOMAIN queue : ~Declines(asked[i - 1].src[queue[i]])}
        first == Least(takers)
        rest == asked[Len(queue)]
    IN  IF takers # {} THEN TakeTurn(asked[first - 1], queue[first])
        ELSE IF rest.nic[h].control # <<>> THEN SendControl(rest, h) ELSE rest

CantSend(w, f) == TimeToSend(Popped(w, f), From[f])

\* requestSending, granted.
Granted(w, f) == Asserted(w, ~Waiting(w.nic[From[f]]))

\* Leave was granted in w; the source tells the card what became of it.
Attempt(w, f, sent) ==
    IF SpendKind(w.src[f]) = "none" THEN CantSend(sent, f) ELSE StartSending(sent, f)

SendIfPermitted(w, f) ==
    LET s == w.src[f]
        v == Granted(w, f)
    IN  IF Credit(s) <= 0 \/ NothingToSend(s) \/ s.blocked THEN w
        ELSE IF Busy(w, f) THEN [JoinQueue(w, f) EXCEPT !.src[f].blocked = TRUE]
        ELSE Attempt(v, f, SendPacket(v, f))

\* EqdsNIC::doNextEvent.
CardTurn(w, h) ==
    LET n == w.nic[h]
        both == n.queue # <<>> /\ n.control # <<>>
        crt == IF both THEN (n.crt + 1) % (ControlTurns + DataTurns) ELSE n.crt
        v == Asserted([w EXCEPT !.nic[h].crt = crt], n.phase = "ending" /\ Waiting(n))
    IN  IF ~Waiting(n) THEN v
        ELSE IF n.queue # <<>> /\ (both => crt < DataTurns)
             THEN TimeToSend(v, h)
             ELSE SendControl(v, h)

SendControlPacket(w, h, packet) ==
    LET n == w.nic[h]
        queued == [n EXCEPT !.control = Append(@, packet)]
    IN  IF n.phase = "idle"
        THEN CardTurn([w EXCEPT !.nic[h] = [queued EXCEPT !.phase = "ending"]], h)
        ELSE [w EXCEPT !.nic[h] =
                 IF Waiting(n) THEN queued ELSE [queued EXCEPT !.events = @ + 1]]

-----------------------------------------------------------------------------
(* The source's handlers.                                                  *)

StartFlow(w, f) ==
    LET s == [w.src[f] EXCEPT !.unsent = Size[f], !.state = "SPECULATING",
                              !.speculating = TRUE, !.creditSpec = Window * Mtu]
        u == [w EXCEPT !.src[f] = s]
        x == Granted(u, f)
        v == IF Busy(u, f) THEN u ELSE Attempt(x, f, SendNewPacket(x, f))
    IN  IF Credit(v.src[f]) > 0 /\ v.src[f].unsent > 0
        THEN [JoinQueue(v, f) EXCEPT !.src[f].blocked = TRUE] ELSE v

QueueForRtx(w, f, seq) ==
    SendIfPermitted(Asserted([w EXCEPT !.src[f].rtx = @ \cup {seq}],
                           seq \notin w.src[f].rtx), f)

\* Mutant of SendRTS: the sink is never told.
SendRTSNever(w, f, expired) == w

\* At most one RTS in a round trip, which is as long as the timeout that
\* expires now for what was sent at the instant "expired".
SendRTS(w, f, expired) ==
    LET s == w.src[f]
        v == CreateSendRecord([w EXCEPT !.src[f] =
                 [s EXCEPT !.rts = @ \cup {s.highest}, !.highest = @ + 1,
                           !.lastRts = w.now]], f, s.highest)
        u == SendControlPacket(v, From[f],
                 [kind |-> "rts", flow |-> f, seq |-> s.highest,
                  target |-> RtsTarget, bytes |-> Hdr, ar |-> TRUE])
    IN  IF s.lastRts > expired THEN w
        ELSE [u EXCEPT !.src[f] = StartRTO(@, w.now)]

RtxTimerExpired(w, f) ==
    LET s == w.src[f]
        first == Least(DOMAIN s.times)
        seq == s.times[first]
        rest == [s EXCEPT !.times = Without(@, {first}), !.tx = Without(@, {seq})]
        u == Asserted([w EXCEPT !.src[f] = RecalculateRTO(rest)],
                    seq \in DOMAIN s.tx)
        v == QueueForRtx(u, f, seq)
        x == Granted(v, f)
    IN  IF s.rtx # {} \/ Credit(v.src[f]) <= 0 THEN SendRTS(v, f, first)
        ELSE IF Busy(v, f) THEN JoinQueue(v, f)
        ELSE Attempt(x, f, SendRtxPacket(x, f))

\* Mutant of CheckFinished: RTS packets count as data.
CheckFinishedAll(s, f, cumulative) ==
    IF ~s.done /\ cumulative >= Size[f]
    THEN [s EXCEPT !.state = "IDLE", !.done = TRUE] ELSE s

CheckFinished(s, f, cumulative) ==
    IF ~s.done /\ cumulative - Cardinality(s.rts) >= Size[f]
    THEN [s EXCEPT !.state = "IDLE", !.done = TRUE] ELSE s

ProcessAck(w, f, ack) ==
    LET s == w.src[f]
        seqs == {seq \in DOMAIN s.tx : seq < ack.cumulative \/ seq \in ack.sacks}
        t == CheckFinished(Acknowledged([s EXCEPT !.rtx =
                 {seq \in @ : seq >= ack.cumulative}], seqs), f, ack.cumulative)
        v == [w EXCEPT !.src[f] = StopSpeculating(t)]
    IN  IF t.done THEN v ELSE SendIfPermitted(v, f)

ProcessNack(w, f, nack) ==
    LET s == w.src[f]
        at == s.tx[nack.seq]
        rest == [s EXCEPT !.tx = Without(@, {nack.seq}), !.times = Without(@, {at})]
        v == QueueForRtx([w EXCEPT !.src[f] = rest], f, nack.seq)
        u == IF at = v.src[f].timer THEN [v EXCEPT !.src[f] = RecalculateRTO(@)] ELSE v
    IN  IF nack.seq \notin DOMAIN s.tx THEN Asserted(w, FALSE)
        ELSE SendIfPermitted([u EXCEPT !.src[f] = StopSpeculating(@)], f)

ProcessPull(w, f, pull) ==
    LET s == w.src[f]
        t == IF pull.no > s.pull
             THEN [s EXCEPT !.creditPull = @ + Unquantize(pull.no - s.pull),
                            !.pull = pull.no]
             ELSE s
    IN  SendIfPermitted([w EXCEPT !.src[f] = StopSpeculating(t)], f)
=============================================================================
