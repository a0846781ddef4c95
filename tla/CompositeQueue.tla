--------------------------- MODULE CompositeQueue ---------------------------
(***************************************************************************)
(* CompositeQueue (compositequeue.cpp) as a record and its operations: data *)
(* packets wait in the low queue and headers in the high one.  When the low *)
(* queue is full a packet loses its payload and waits as a header; when the *)
(* high queue is full too, the header goes back to its sender.             *)
(***************************************************************************)
EXTENDS Integers, Sequences, SequencesExt

CONSTANTS
    LowRoom,                \* data packets that _maxsize leaves room for
    HighRoom,               \* headers that 2*_maxsize leaves room for
    RatioHigh, RatioLow     \* _ratio_high, _ratio_low: 100000 and 1 in the code

ASSUME QueueConstants ==
    /\ LowRoom \in Nat \ {0} /\ HighRoom \in Nat
    /\ RatioHigh \in Nat \ {0} /\ RatioLow \in Nat \ {0}

EmptyComposite == [low |-> <<>>, high |-> <<>>, serv |-> "invalid", crt |-> 0]

\* With both queues waiting, _crt shares the link out; otherwise the one that
\* waits is served.
BeginService(q) ==
    LET both == q.low # <<>> /\ q.high # <<>>
        crt == IF both THEN (q.crt + 1) % (RatioHigh + RatioLow) ELSE q.crt
    IN  [q EXCEPT !.crt = crt,
                  !.serv = IF q.low # <<>> /\ (both => crt >= RatioHigh) THEN "low"
                           ELSE IF q.high # <<>> THEN "high" ELSE "invalid"]

Serving(q) == q.serv # "invalid"
InService(q) == Head(q[q.serv])
CompleteService(q) == BeginService([q EXCEPT ![q.serv] = Tail(@)])

WakeUp(q) == IF Serving(q) THEN q ELSE BeginService(q)

\* What receivePacket may do is a set of outcomes: the queue afterwards, and the
\* headers it returns to their senders.
EnqueueHeader(q, p) ==
    IF Len(q.high) < HighRoom
    THEN [queue |-> WakeUp([q EXCEPT !.high = Append(@, p)]), bounced |-> {}]
    ELSE [queue |-> q, bounced |-> {p}]

LowFull(q) == Len(q.low) >= LowRoom

\* A full low queue trims the arriving packet, or the newest one it holds
\* (pop_front of the ring takes the end where packets are pushed) to make room.
ReceivePacket(q, p) ==
    IF p.kind # "data" THEN {EnqueueHeader(q, p)}
    ELSE IF LowFull(q)
    THEN {EnqueueHeader([q EXCEPT !.low = Append(Front(@), p)], Last(q.low)),
          EnqueueHeader(q, p)}
    ELSE {[queue |-> WakeUp([q EXCEPT !.low = Append(@, p)]), bounced |-> {}]}
=============================================================================
