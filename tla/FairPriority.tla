---------------------------- MODULE FairPriority ----------------------------
(***************************************************************************)
(* The network card of a host (class FairPriorityQueue) as a record and    *)
(* its operations: a fair queue for each priority, strict priority between *)
(* them, and PAUSE and RESUME from the switch.  A packet is a record with  *)
(* a flow, a priority and the egress it is routed to.                      *)
(***************************************************************************)
EXTENDS FairPull

CONSTANTS
    Prios,     \* priorities, numbers, the highest one served first
    NicTime    \* ticks to transmit a packet

NULL == [flow |-> End]   \* no packet

(* size: _queuesize by priority, in packets, the one being sent included   *)
(* (dequeue took that one out of its fair queue when its service began).   *)
(* failed: an assertion of beginService has failed, the program is gone.   *)
EmptyNic ==
    [queue |-> [p \in Prios |-> EmptyFair], size |-> [p \in Prios |-> 0],
     sending |-> NULL, state_send |-> "READY", service |-> <<>>, failed |-> FALSE]

(* queuesize(): the packets counted for all priorities. *)
QueueSize(n) == Cardinality(UNION {{p} \X (1 .. n.size[p]) : p \in Prios})

(* Serve the highest priority that holds bytes.  dequeue returns NULL from *)
(* an empty fair queue; assert (_sending != NULL) refuses it.              *)
BeginService(n) ==
    LET p == Max({r \in Prios : n.size[r] > 0})
    IN  IF n.queue[p].pull_count = 0 THEN [n EXCEPT !.failed = TRUE]
        ELSE [n EXCEPT !.sending = Served(n.queue[p]),
                       !.queue[p] = Dequeue(@),
                       !.service = Append(@, NicTime)]

(* PAUSE: whatever is queued is taken to be in flight. *)
ReceivePause(n) ==
    [n EXCEPT !.state_send = IF QueueSize(n) > 0 THEN "PAUSE_RECEIVED" ELSE "PAUSED"]

(* RESUME: whatever is queued is taken to be waiting. *)
ReceiveResume(n) ==
    LET ready == [n EXCEPT !.state_send = "READY"]
    IN  IF QueueSize(n) > 0 THEN BeginService(ready) ELSE ready

(* Mutant: an arrival starts the card though a packet is in flight. *)
ReceivePacketBusy(n, pkt) ==
    LET longer == [n EXCEPT !.size[pkt.prio] = @ + 1,
                            !.queue[pkt.prio] = Enqueue(@, pkt.flow, pkt)]
    IN  IF n.state_send = "READY" THEN BeginService(longer) ELSE longer

ReceivePacket(n, pkt) ==
    LET longer == [n EXCEPT !.size[pkt.prio] = @ + 1,
                            !.queue[pkt.prio] = Enqueue(@, pkt.flow, pkt)]
    IN  IF QueueSize(n) = 0 /\ n.state_send = "READY" THEN BeginService(longer)
        ELSE longer

ServiceDue(n) == n.service # <<>> /\ Head(n.service) = 0

(* A completion sends a packet unless the card is PAUSED or has none. *)
Sends(n) == n.state_send # "PAUSED" /\ n.sending # NULL

(* Mutants: the bytes sent stay counted; _sending is not reset. *)
CompleteServiceAs(n, sent) ==
    LET next == [sent EXCEPT !.service = Tail(@),
                             !.state_send = IF @ = "PAUSE_RECEIVED" THEN "PAUSED" ELSE @]
    IN  IF QueueSize(next) > 0 /\ next.state_send = "READY" THEN BeginService(next)
        ELSE next

CompleteServiceCounted(n) == CompleteServiceAs(n, [n EXCEPT !.sending = NULL])

CompleteServiceKeeps(n) == CompleteServiceAs(n, [n EXCEPT !.size[n.sending.prio] = @ - 1])

(* The service event: the packet in flight leaves, a received PAUSE takes  *)
(* effect, and a READY card with bytes queued starts the next packet.      *)
CompleteService(n) ==
    LET fired == [n EXCEPT !.service = Tail(@)]
        sent == IF Sends(n) THEN [fired EXCEPT !.size[n.sending.prio] = @ - 1,
                                               !.sending = NULL]
                ELSE fired
        next == [sent EXCEPT !.state_send = IF @ = "PAUSE_RECEIVED" THEN "PAUSED" ELSE @]
    IN  IF n.state_send = "PAUSED" THEN fired
        ELSE IF QueueSize(next) > 0 /\ next.state_send = "READY" THEN BeginService(next)
        ELSE next

Age(n) ==
    [n EXCEPT !.service = [i \in 1 .. Len(n.service) |-> n.service[i] - 1]]
=============================================================================
