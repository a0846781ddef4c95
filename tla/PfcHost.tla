------------------------------ MODULE PfcHost ------------------------------
(***************************************************************************)
(* The first hop of a PFC fabric: the network cards of hosts               *)
(* (FairPriorityQueue) send into the input queues of their top-of-rack     *)
(* switch, which pauses and resumes them.                                  *)
(***************************************************************************)
EXTENDS PfcSwitch

CONSTANTS
    Prios,      \* priorities of the packets
    Kinds,      \* the packets hosts send: flow, priority, egress
    MaxBacklog  \* bound of the model: packets of a card queued at a time

ASSUME HostAssumption ==
    /\ Prios \subseteq Nat /\ IsFiniteSet(Prios) /\ MaxBacklog \in Nat
    /\ Kinds \subseteq [flow : Nat \ {0}, prio : Prios, to : Egress]

Card == INSTANCE FairPriority WITH NicTime <- TxTime

VARIABLES
    nic,    \* nic[u]: the card of host u
    early   \* the hosts that a RESUME has found transmitting; it constrains
            \* no action, the properties tell by it what went before

vars == <<nic, early, switchVars>>

Init ==
    /\ SwitchInit
    /\ nic = [u \in Up |-> Card!EmptyNic]
    /\ early = {}

(* A source of host u hands a packet to the card. *)
HostSends(u, pkt) ==
    /\ Card!QueueSize(nic[u]) < MaxBacklog
    /\ nic' = [nic EXCEPT ![u] = Card!ReceivePacket(@, pkt)]
    /\ UNCHANGED <<early, switchVars>>

CardComplete(u) ==
    /\ Card!ServiceDue(nic[u])
    /\ nic' = [nic EXCEPT ![u] = Card!CompleteService(@)]
    /\ IF Card!Sends(nic[u]) THEN Launch(u, nic[u].sending.to)
       ELSE UNCHANGED switchVars
    /\ UNCHANGED early

(* A RESUME finds the card still transmitting. *)
Early(u) == ~Head(wire[u]).pause /\ nic[u].service # <<>>

FrameArrives(u) ==
    /\ TakeFrame(u)
    /\ nic' = [nic EXCEPT ![u] = IF Head(wire[u]).pause
                                 THEN Card!ReceivePause(@) ELSE Card!ReceiveResume(@)]
    /\ early' = IF Early(u) THEN early \cup {u} ELSE early

SwitchEvent == SwitchEvents /\ UNCHANGED <<nic, early>>

Due     == SwitchDue \/ \E u \in Up : Card!ServiceDue(nic[u])
Pending == SwitchPending \/ \E u \in Up : nic[u].service # <<>>

Tick ==
    /\ Pending /\ ~Due
    /\ SwitchTick
    /\ nic' = [u \in Up |-> Card!Age(nic[u])]
    /\ UNCHANGED early

Event ==
    \/ \E u \in Up : CardComplete(u) \/ FrameArrives(u)
    \/ SwitchEvent
    \/ Tick

Paused(e)  == EgressPaused(e) /\ UNCHANGED <<nic, early>>
Resumed(e) == EgressResumed(e) /\ UNCHANGED <<nic, early>>

(* A failed assertion ends the program. *)
Next ==
    /\ \A u \in Up : ~nic[u].failed
    /\ \/ Event
       \/ \E u \in Up, pkt \in Kinds : HostSends(u, pkt)
       \/ \E e \in Egress : Paused(e) \/ Resumed(e)

Spec == Init /\ [][Next]_vars

FairSpec == Spec /\ WF_vars(Event) /\ \A e \in Egress : WF_vars(Resumed(e))

----------------------------------------------------------------------------
(* Properties *)

(* The assertion of FairPriorityQueue::beginService, _sending != NULL: a   *)
(* card that holds bytes of a priority has a packet of it to start.  Only  *)
(* a RESUME that arrived while it was transmitting can make it fail: no    *)
(* other order of packets, completions, PAUSE and RESUME does.             *)
SendingNotNull == \A u \in Up : nic[u].failed => u \in early

(* The assertion itself, for failures with the packet in flight not yet    *)
(* out: those owe nothing to the order of events due at the same time.     *)
SendingNotNullInFlight ==
    \A u \in Up : nic[u].failed => Card!ServiceDue(nic[u])

(* Until then a card transmits one packet at a time, and exactly while it  *)
(* holds one: READY with bytes queued it has a service event to go on with,*)
(* and PAUSED it has none, which completeService would waste.              *)
OneTransmission ==
    \A u \in Up \ early :
        /\ Len(nic[u].service) <= 1
        /\ nic[u].service # <<>> <=> nic[u].sending # Card!NULL
        /\ nic[u].state_send = "READY" /\ Card!QueueSize(nic[u]) > 0
               => nic[u].service # <<>>
        /\ nic[u].state_send = "PAUSED" => nic[u].service = <<>>

(* Nor is a packet lost in such a card: the bytes it counts for a priority *)
(* are the packets of its fair queue and the one in flight.                *)
CardConserves ==
    \A u \in Up \ early, p \in Prios :
        nic[u].size[p] = nic[u].queue[p].pull_count
            + IF nic[u].sending # Card!NULL /\ nic[u].sending.prio = p THEN 1 ELSE 0

(* Every pause of a host ends, if the next hops resume the egress queues   *)
(* and no assertion ends the program first.                                *)
HostPauseEnds ==
    \A u \in Up :
        nic[u].state_send # "READY"
            ~> nic[u].state_send = "READY" \/ \E v \in Up : nic[v].failed
=============================================================================
