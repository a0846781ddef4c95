---------------------------- MODULE LosslessPort ----------------------------
(***************************************************************************)
(* The transmit side of a PFC port (class LosslessOutputQueue) as a record *)
(* and its operations as operators on records: LosslessOutputQueue runs    *)
(* one port on its own, PfcHop composes several with input queues.         *)
(*                                                                         *)
(* All packets have the size of one data packet.  The queue keeps, for     *)
(* each packet, a tag: where it came from (_vq runs parallel to _enqueued) *)
(* or where it is routed to, whichever the composition needs.              *)
(*                                                                         *)
(* Operators that say "Mutant" are slips the properties are to catch.      *)
(***************************************************************************)
EXTENDS Integers, Sequences

CONSTANTS
    Tags,     \* what is remembered about a queued packet
    TxTime    \* ticks it takes to put a packet on the wire (drainTime)

ASSUME TxAssumption == TxTime \in Nat \ {0}

SendStates == {"READY", "PAUSED", "PAUSE_RECEIVED"}

(* service holds the ticks left of every service event that is pending on  *)
(* the event list for this queue: nothing in EventList keeps a source from *)
(* being scheduled twice.                                                  *)
Queue == [enqueued: Seq(Tags), state_send: SendStates,
          sending: BOOLEAN, service: Seq(0 .. TxTime)]

EmptyQueue == [enqueued |-> <<>>, state_send |-> "READY",
               sending |-> FALSE, service |-> <<>>]

BeginService(q) ==
    [q EXCEPT !.sending = TRUE, !.service = Append(@, TxTime)]

(* Mutant: a PAUSE that finds a packet in flight is forgotten. *)
ReceivePauseIdle(q) == IF q.sending THEN q ELSE [q EXCEPT !.state_send = "PAUSED"]

(* A PAUSE frame: the packet in flight may finish, then the port stops. *)
ReceivePause(q) ==
    [q EXCEPT !.state_send = IF q.sending THEN "PAUSE_RECEIVED" ELSE "PAUSED"]

(* Mutant: RESUME leaves it to the next arrival to start the port. *)
ReceiveResumeIdle(q) == [q EXCEPT !.state_send = "READY"]

(* A RESUME frame, which finds the last packet still in flight or not. *)
ReceiveResume(q) ==
    LET ready == [q EXCEPT !.state_send = "READY"]
    IN  IF q.enqueued # <<>> /\ ~q.sending THEN BeginService(ready) ELSE ready

(* Mutant: an arrival starts an empty port whatever its state. *)
ReceivePacketPaused(q, tag) ==
    LET longer == [q EXCEPT !.enqueued = Append(@, tag)]
    IN  IF q.enqueued = <<>> THEN BeginService(longer) ELSE longer

ReceivePacket(q, tag) ==
    LET longer == [q EXCEPT !.enqueued = Append(@, tag)]
    IN  IF q.enqueued = <<>> /\ q.state_send = "READY"
        THEN BeginService(longer) ELSE longer

ServiceDue(q) == q.service # <<>> /\ Head(q.service) = 0

(* Mutant: the received PAUSE never takes effect. *)
CompleteServiceRuns(q) ==
    LET sent == [q EXCEPT !.enqueued = Tail(@), !.sending = FALSE, !.service = Tail(@)]
    IN  IF sent.enqueued # <<>> /\ sent.state_send = "READY"
        THEN BeginService(sent) ELSE sent

CompleteService(q) ==
    LET sent == [enqueued   |-> Tail(q.enqueued),
                 state_send |-> IF q.state_send = "PAUSE_RECEIVED"
                                THEN "PAUSED" ELSE q.state_send,
                 sending    |-> FALSE,
                 service    |-> Tail(q.service)]
    IN  IF sent.enqueued # <<>> /\ sent.state_send = "READY"
        THEN BeginService(sent) ELSE sent

(* Time passes: every pending event comes one tick closer. *)
Age(q) ==
    [q EXCEPT !.service = [i \in 1 .. Len(q.service) |-> q.service[i] - 1]]

----------------------------------------------------------------------------
(* What every port owes, in every composition *)

(* A queue that is transmitting has exactly one service event pending, for *)
(* the packet at its head; one that is not has none.  Two events would     *)
(* drain the port at twice its line rate, and beginService would fail its  *)
(* own assertion that the port is READY and not sending.                   *)
OneService(q) ==
    /\ Len(q.service) = IF q.sending THEN 1 ELSE 0
    /\ q.sending => q.enqueued # <<>>

(* The send state tells what is in flight: PAUSED only when the wire is    *)
(* idle, PAUSE_RECEIVED only while the last packet is still leaving, and a *)
(* READY queue with packets is always transmitting (no lost wake-up: no    *)
(* other event would ever start it again).                                 *)
StateMatchesService(q) ==
    /\ q.state_send = "PAUSED" => ~q.sending
    /\ q.state_send = "PAUSE_RECEIVED" => q.sending
    /\ q.state_send = "READY" /\ q.enqueued # <<>> => q.sending
=============================================================================
