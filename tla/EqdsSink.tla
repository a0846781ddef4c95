------------------------------ MODULE EqdsSink ------------------------------
(***************************************************************************)
(* The receiving half of EQDS (eqds.cpp): the sinks EqdsSink and the pull  *)
(* pacer EqdsPullPacer they share at their host, as operators on the world *)
(* of EqdsSource.  Everything a sink sends waits in its host's card.       *)
(***************************************************************************)
EXTENDS EqdsSource, FiniteSetsExt

CONSTANTS
    CreditPerPull,  \* _credit_per_pull, in quanta
    AckThreshold    \* _bytes_unacked_threshold

ASSUME SinkConstants == CreditPerPull \in Nat \ {0} /\ AckThreshold \in Nat

\* rx holds the packets received above a hole (_epsn_rx_bitmap).
Sink == [expected |-> 0, rx |-> {}, received |-> 0, accepted |-> 0,
         ackRequest |-> FALSE, retx |-> 0, latest |-> 0, highest |-> 0,
         inPull |-> FALSE, inSlow |-> FALSE]

\* events: the pacer's entries in the event list.
Pacer == [rtx |-> <<>>, active |-> <<>>, idle |-> <<>>, running |-> FALSE,
          events |-> 0]

Backlog(k) == IF k.highest > k.latest THEN k.highest - k.latest ELSE 0
SlowCredit(k) == IF k.highest >= k.latest THEN 0 ELSE k.latest - k.highest
Has(k, seq) == seq < k.expected \/ seq \in k.rx

-----------------------------------------------------------------------------
(* The pull pacer.                                                         *)

\* Mutant of Wake: a pacer that runs is scheduled again.
WakeAgain(p) == [p EXCEPT !.events = @ + 1, !.running = TRUE]

Wake(p) == IF p.running THEN p ELSE [p EXCEPT !.events = @ + 1, !.running = TRUE]

RequestPull(w, f) ==
    LET p == w.pacer[To[f]]
    IN  Asserted([w EXCEPT !.pacer[To[f]] = Wake([p EXCEPT !.active = Append(@, f)])],
               w.sink[f].inPull /\ ~Contains(p.active, f))

RequestRetransmit(w, f) ==
    LET p == w.pacer[To[f]]
    IN  Asserted([w EXCEPT !.pacer[To[f]] = Wake([p EXCEPT !.rtx = Append(@, f)])],
               ~Contains(p.rtx, f))

\* EqdsSink::pull.
Pulled(k) ==
    [k EXCEPT !.retx = IF @ > CreditPerPull THEN @ - CreditPerPull ELSE 0,
              !.latest = @ + CreditPerPull]

\* EqdsPullPacer::doNextEvent: retransmissions first, then the sinks that want
\* more, then those that are given speculative credit.
PacerTurn(w, h) ==
    LET p == w.pacer[h]
        Pull(f, k, q) ==
            SendControlPacket(
                [w EXCEPT !.sink[f] = k,
                          !.pacer[h] = [q EXCEPT !.running = TRUE, !.events = @ + 1]],
                h, [kind |-> "pull", flow |-> f, no |-> k.latest])
        Retransmitting ==
            LET f == Head(p.rtx)
                k == Pulled(w.sink[f])
            IN  Pull(f, k, [p EXCEPT !.rtx = IF k.retx > 0 THEN Append(Tail(@), f)
                                                           ELSE Tail(@)])
        Active ==
            LET f == Head(p.active)
                k == Pulled(w.sink[f])
            IN  Asserted(
                  IF Backlog(k) > 0
                  THEN Pull(f, k, [p EXCEPT !.active = Append(Tail(@), f)])
                  ELSE Pull(f, [k EXCEPT !.inPull = FALSE, !.inSlow = TRUE],
                            [p EXCEPT !.active = Tail(@), !.idle = Append(@, f)]),
                  k.inPull)
        Idle ==
            LET f == Head(p.idle)
                s == w.sink[f]
                k == Pulled(IF s.inSlow THEN s
                            ELSE [s EXCEPT !.inPull = FALSE, !.inSlow = TRUE])
                more == /\ Backlog(k) = 0
                        /\ SlowCredit(k) < (Window * Mtu) \div Quantum
            IN  IF more
                THEN Pull(f, k, [p EXCEPT !.idle = Append(Tail(@), f)])
                ELSE Pull(f, [k EXCEPT !.inPull = FALSE, !.inSlow = FALSE],
                          [p EXCEPT !.idle = Tail(@)])
    IN  CASE p.rtx # <<>> -> Retransmitting
          [] p.rtx = <<>> /\ p.active # <<>> -> Active
          [] p.rtx = <<>> /\ p.active = <<>> /\ p.idle # <<>> -> Idle
          [] OTHER -> [w EXCEPT !.pacer[h].running = FALSE]

-----------------------------------------------------------------------------
(* The sink.                                                               *)

HandlePullTarget(w, f, target) ==
    LET k == w.sink[f]
        v == [w EXCEPT !.sink[f].highest = target]
    IN  IF target <= k.highest THEN w
        ELSE IF k.retx = 0 /\ ~k.inPull
             THEN RequestPull([v EXCEPT !.sink[f].inPull = TRUE], f)
             ELSE v

\* The bitmap covers 64 packets from its base on.
SackBase(k, seq) == IF seq - 63 > k.expected + 1 THEN seq - 63 ELSE k.expected + 1
Sack(k, f, base) ==
    [kind |-> "ack", flow |-> f, cumulative |-> k.expected,
     sacks |-> {seq \in k.rx : base <= seq /\ seq <= base + 63}]

\* A packet the sink did not have: the hole closes up to the next one.
Accept(k, seq) ==
    LET next == Least({n \in seq + 1 .. seq + 1 + Cardinality(k.rx) : n \notin k.rx})
    IN  IF seq = k.expected
        THEN [k EXCEPT !.expected = next, !.rx = {n \in @ : n > next}]
        ELSE [k EXCEPT !.rx = @ \cup {seq}]

\* The acknowledgement requested is due again once no hole is left.
Drained(k) == k.rx = {} /\ k.ackRequest

ProcessData(w, f, p) ==
    LET v == HandlePullTarget(w, f, p.target)
        k == [v.sink[f] EXCEPT !.accepted = @ + p.bytes]
        counted == [k EXCEPT !.received = @ + p.bytes - Hdr,
                             !.ackRequest = @ \/ p.ar]
        t == Accept(counted, p.seq)
        closing == p.seq = k.expected /\ Drained(t)
        u == IF closing THEN [t EXCEPT !.ackRequest = FALSE] ELSE t
        ack == \/ u.accepted > AckThreshold
               \/ k.received = 0 \/ p.ar \/ closing
        Answer(j, base) ==
            SendControlPacket([v EXCEPT !.sink[f] = [j EXCEPT !.accepted = 0]],
                              To[f], Sack(j, f, base))
    IN  IF Has(k, p.seq) THEN Answer(k, SackBase(k, p.seq))
        ELSE Asserted(IF ack THEN Answer(u, IF p.ar THEN p.seq ELSE SackBase(u, p.seq))
                           ELSE [v EXCEPT !.sink[f] = u],
                    u.received <= Size[f] * Mss)

ProcessTrimmed(w, f, p) ==
    LET k == w.sink[f]
        v == HandlePullTarget(w, f, p.target)
        u == SendControlPacket([v EXCEPT !.sink[f].retx = @ + QuantizeCeil(Mtu)],
                               To[f], [kind |-> "nack", flow |-> f, seq |-> p.seq])
    IN  IF Has(k, p.seq) THEN SendOn(w, Sack(k, f, p.seq))
        ELSE IF k.retx > 0 THEN u ELSE RequestRetransmit(u, f)

ProcessRts(w, f, p) ==
    LET v == HandlePullTarget(w, f, p.target)
        idle == v.sink[f].retx = 0
        credited == [v EXCEPT !.sink[f].retx = @ + QuantizeCeil(Mtu)]
        pulled == IF v.sink[f].inPull THEN credited
                  ELSE RequestPull([credited EXCEPT !.sink[f].inPull = TRUE], f)
        u == IF idle THEN RequestRetransmit(pulled, f) ELSE credited
        k == u.sink[f]
        t == Accept([k EXCEPT !.received = @ + p.bytes - Hdr], p.seq)
        drained == [t EXCEPT !.ackRequest = @ /\ ~(p.seq = k.expected /\ Drained(t))]
        j == IF Has(k, p.seq) THEN k ELSE drained
    IN  SendControlPacket([u EXCEPT !.sink[f] = [j EXCEPT !.accepted = 0]],
                          To[f], Sack(j, f, p.seq))
=============================================================================
