----------------------------- MODULE PfcSwitch -----------------------------
(***************************************************************************)
(* The switch side of a PFC link: the links (Pipe) into a switch, the      *)
(* LosslessInputQueue at the end of each link, the pipeline of the switch  *)
(* (FatTreeSwitch hands a packet to a CallbackPipe to itself), its output  *)
(* queues, and the wires (CallbackPipe) that carry pause frames back.      *)
(* PfcHop puts an upstream switch at the other end of the links, PfcHost   *)
(* the network card of a host.                                             *)
(*                                                                         *)
(* The input queue is virtual: it stores nothing, it counts the packets it *)
(* passed to an output queue and that have not left the switch yet.  Time  *)
(* is discrete and relative, one tick being a fraction of a packet time; a *)
(* tick is possible only when no event is due, as the event list has it.   *)
(* Events due at the same time fire in any order (the event list uses the  *)
(* order of insertion, one of these).                                      *)
(***************************************************************************)
EXTENDS Integers, Sequences, FiniteSets

CONSTANTS
    Up,          \* the senders at the far end, one link and input queue each
    Egress,      \* output queues of this switch
    High, Low,   \* _high_threshold and _low_threshold, in packets
    TxTime,      \* ticks to transmit a packet, on every port
    LinkDelay,   \* ticks a packet spends in the pipe of a link
    SwitchDelay, \* ticks a packet spends in the pipeline of the switch
    WireDelay    \* ticks a pause frame needs back upstream

ASSUME PfcAssumption ==
    /\ TxTime \in Nat \ {0} /\ LinkDelay \in Nat
    /\ SwitchDelay \in Nat /\ WireDelay \in Nat
    /\ Low \in Nat /\ High \in Nat
    /\ High > 0 /\ High > Low      \* the constructor's assertions
    /\ Up \cap Egress = {}

(* An upstream queue remembers the egress a packet is routed to, an egress *)
(* queue the input queue the packet came from.                             *)
INSTANCE LosslessPort WITH Tags <- Up \cup Egress

VARIABLES
    out,        \* out[e]: the output queue records of this switch
    pipe,       \* pipe[u]: packets on the link, in order
    fabric,     \* packets in the pipeline of the switch, in order
    ingress,    \* ingress[u]: _queuesize (in packets) and _state_recv
    wire        \* wire[u]: pause frames on their way to u, in order

switchVars == <<out, pipe, fabric, ingress, wire>>

SwitchInit ==
    /\ out = [e \in Egress |-> EmptyQueue]
    /\ pipe = [u \in Up |-> <<>>]
    /\ fabric = <<>>
    /\ ingress = [u \in Up |-> [queuesize |-> 0, state_recv |-> "READY"]]
    /\ wire = [u \in Up |-> <<>>]

Arrived(s) == s # <<>> /\ Head(s).left = 0

(* A sender puts a packet for e on its link. *)
Launch(u, e) ==
    /\ pipe' = [pipe EXCEPT ![u] = Append(@, [left |-> LinkDelay, to |-> e])]
    /\ UNCHANGED <<out, fabric, ingress, wire>>

(* A pause frame leaves the wire: the sender handles it. *)
TakeFrame(u) ==
    /\ Arrived(wire[u])
    /\ wire' = [wire EXCEPT ![u] = Tail(@)]
    /\ UNCHANGED <<out, pipe, fabric, ingress>>

(* sendPause(1000) / sendPause(0): a frame enters the wire. *)
SendPause(u, pause) ==
    wire' = [wire EXCEPT ![u] = Append(@, [left |-> WireDelay, pause |-> pause])]

----------------------------------------------------------------------------
(* The handlers of the switch *)

(* The switch routes a packet and delays it; ingress_queue stays with it. *)
EnterSwitch(u, e) ==
    fabric' = Append(fabric, [left |-> SwitchDelay, from |-> u, to |-> e])

(* Mutants: the threshold is off by one; PAUSE is sent again while paused. *)
IngressReceiveAt(u, over(_)) ==
    /\ Arrived(pipe[u])
    /\ pipe' = [pipe EXCEPT ![u] = Tail(@)]
    /\ LET size == ingress[u].queuesize + 1
       IN  /\ ingress' = [ingress EXCEPT ![u] =
                 [queuesize |-> size, state_recv |-> IF over(size) THEN "PAUSED" ELSE @.state_recv]]
           /\ IF over(size) THEN SendPause(u, TRUE) ELSE UNCHANGED wire
    /\ EnterSwitch(u, Head(pipe[u]).to)
    /\ UNCHANGED out

IngressReceiveLate(u) ==
    IngressReceiveAt(u, LAMBDA n : n > High + 1 /\ ingress[u].state_recv # "PAUSED")

IngressReceiveAgain(u) == IngressReceiveAt(u, LAMBDA n : n > High)

(* A packet leaves the link: the input queue counts it, pauses the link if *)
(* it is over the threshold and passes it to the switch.                   *)
IngressReceive(u) ==
    /\ Arrived(pipe[u])
    /\ pipe' = [pipe EXCEPT ![u] = Tail(@)]
    /\ LET size == ingress[u].queuesize + 1
           pausing == size > High /\ ingress[u].state_recv # "PAUSED"
       IN  /\ ingress' = [ingress EXCEPT ![u] =
                 [queuesize |-> size,
                  state_recv |-> IF pausing THEN "PAUSED" ELSE @.state_recv]]
           /\ IF pausing THEN SendPause(u, TRUE) ELSE UNCHANGED wire
    /\ EnterSwitch(u, Head(pipe[u]).to)
    /\ UNCHANGED out

(* A packet leaves the pipeline for its output queue. *)
SwitchForwards ==
    /\ Arrived(fabric)
    /\ fabric' = Tail(fabric)
    /\ out' = [out EXCEPT ![Head(fabric).to] = ReceivePacket(@, Head(fabric).from)]
    /\ UNCHANGED <<pipe, ingress, wire>>

(* Mutant: RESUME waits for one packet less than the threshold asks for. *)
IngressCompletedLate(u) ==
    LET size == ingress[u].queuesize - 1
        resuming == size < Low - 1 /\ ingress[u].state_recv = "PAUSED"
    IN  /\ ingress' = [ingress EXCEPT ![u] =
              [queuesize |-> size,
               state_recv |-> IF resuming THEN "READY" ELSE @.state_recv]]
        /\ IF resuming THEN SendPause(u, FALSE) ELSE UNCHANGED wire

(* completedService of the input queue u, called by the output queue *)
IngressCompleted(u) ==
    LET size == ingress[u].queuesize - 1
        resuming == size < Low /\ ingress[u].state_recv = "PAUSED"
    IN  /\ ingress' = [ingress EXCEPT ![u] =
              [queuesize |-> size,
               state_recv |-> IF resuming THEN "READY" ELSE @.state_recv]]
        /\ IF resuming THEN SendPause(u, FALSE) ELSE UNCHANGED wire

(* Mutant: the other end of _vq is credited with the departure. *)
EgressCompleteLast(e) ==
    /\ ServiceDue(out[e])
    /\ IngressCompleted(out[e].enqueued[Len(out[e].enqueued)])
    /\ out' = [out EXCEPT ![e] = CompleteService(@)]
    /\ UNCHANGED <<pipe, fabric>>

EgressComplete(e) ==
    /\ ServiceDue(out[e])
    /\ IngressCompleted(Head(out[e].enqueued))
    /\ out' = [out EXCEPT ![e] = CompleteService(@)]
    /\ UNCHANGED <<pipe, fabric>>

(* The next hop pauses an egress queue and, later, resumes it. *)
EgressPaused(e) ==
    /\ out[e].state_send = "READY"
    /\ out' = [out EXCEPT ![e] = ReceivePause(@)]
    /\ UNCHANGED <<pipe, fabric, ingress, wire>>

EgressResumed(e) ==
    /\ out[e].state_send # "READY"
    /\ out' = [out EXCEPT ![e] = ReceiveResume(@)]
    /\ UNCHANGED <<pipe, fabric, ingress, wire>>

----------------------------------------------------------------------------
(* Time: the events of the switch that are pending, those that are due. *)

(* The handlers that involve no sender. *)
SwitchEvents ==
    \/ \E u \in Up : IngressReceive(u)
    \/ SwitchForwards
    \/ \E e \in Egress : EgressComplete(e)

(* Mutant: time passes a pause frame that is due. *)
SwitchDueNoWires ==
    \/ Arrived(fabric)
    \/ \E e \in Egress : ServiceDue(out[e])
    \/ \E u \in Up : Arrived(pipe[u])

SwitchDue ==
    \/ Arrived(fabric)
    \/ \E e \in Egress : ServiceDue(out[e])
    \/ \E u \in Up : Arrived(pipe[u]) \/ Arrived(wire[u])

SwitchPending ==
    \/ fabric # <<>>
    \/ \E e \in Egress : out[e].service # <<>>
    \/ \E u \in Up : pipe[u] # <<>> \/ wire[u] # <<>>

Aged(s) == [i \in 1 .. Len(s) |-> [s[i] EXCEPT !.left = @ - 1]]

SwitchTick ==
    /\ out' = [e \in Egress |-> Age(out[e])]
    /\ pipe' = [u \in Up |-> Aged(pipe[u])]
    /\ fabric' = Aged(fabric)
    /\ wire' = [u \in Up |-> Aged(wire[u])]
    /\ UNCHANGED ingress

----------------------------------------------------------------------------
(* Properties of the switch, whatever sender is at the far end *)

SwitchTypeOK ==
    /\ out \in [Egress -> Queue]
    /\ pipe \in [Up -> Seq([left : 0 .. LinkDelay, to : Egress])]
    /\ fabric \in Seq([left : 0 .. SwitchDelay, from : Up, to : Egress])
    /\ ingress \in [Up -> [queuesize : Nat, state_recv : {"READY", "PAUSED"}]]
    /\ wire \in [Up -> Seq([left : 0 .. WireDelay, pause : BOOLEAN])]

(* The packets of input queue u: where they wait in the output queues, and *)
(* those that are still in the pipeline.                                   *)
Waiting(u) ==
    UNION {{e} \X {i \in DOMAIN out[e].enqueued : out[e].enqueued[i] = u} : e \in Egress}
Crossing(u) == {i \in DOMAIN fabric : fabric[i].from = u}

(* The virtual queue counts exactly the packets it handed to the switch    *)
(* and that have not left it: every departure is credited to the input     *)
(* queue its packet came through.                                          *)
Accounting ==
    \A u \in Up : ingress[u].queuesize = Cardinality(Crossing(u)) + Cardinality(Waiting(u))

(* What may still arrive after the queue crosses the threshold: the link   *)
(* is a pipeline of LinkDelay, the pause needs WireDelay, one packet is    *)
(* beginning to be sent when it gets there.                                *)
Headroom == ((LinkDelay + WireDelay) \div TxTime) + 1

(* PFC is lossless: an input queue never holds more than its threshold and *)
(* the packets a pause comes too late for.  (_maxsize is 2000 packets and  *)
(* over it the code can only print "LOSSLESS not working!".)               *)
NoOverrun == \A u \in Up : ingress[u].queuesize <= High + 1 + Headroom

(* An input queue is PAUSED only while enough of its packets are left in   *)
(* the switch for a departure to send the RESUME.                          *)
ResumeWillCome ==
    \A u \in Up : ingress[u].state_recv = "PAUSED" => ingress[u].queuesize >= Low

(* PAUSE and RESUME alternate on a link: the queue at the far end never    *)
(* gets the same order twice (with the assertion of receivePacket that     *)
(* would check it commented out, a second PAUSE would go unnoticed).       *)
FramesAlternate ==
    \A u \in Up : \A i \in 1 .. Len(wire[u]) - 1 : wire[u][i].pause # wire[u][i + 1].pause
=============================================================================
