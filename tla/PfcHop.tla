------------------------------- MODULE PfcHop -------------------------------
(***************************************************************************)
(* One hop of a PFC fabric: the output queues of upstream switches         *)
(* (LosslessOutputQueue) send into the input queues of a switch, which     *)
(* pauses and resumes them.                                                *)
(***************************************************************************)
EXTENDS PfcSwitch

CONSTANT MaxBacklog   \* bound of the model: packets queued upstream at a time

ASSUME BacklogAssumption == MaxBacklog \in Nat

VARIABLE up    \* up[u]: the upstream output queue records

vars == <<up, switchVars>>

Init ==
    /\ SwitchInit
    /\ up = [u \in Up |-> EmptyQueue]

(* A packet routed to e reaches the upstream queue u. *)
Offer(u, e) ==
    /\ Len(up[u].enqueued) < MaxBacklog
    /\ up' = [up EXCEPT ![u] = ReceivePacket(@, e)]
    /\ UNCHANGED switchVars

UpstreamComplete(u) ==
    /\ ServiceDue(up[u])
    /\ up' = [up EXCEPT ![u] = CompleteService(@)]
    /\ Launch(u, Head(up[u].enqueued))

FrameArrives(u) ==
    /\ TakeFrame(u)
    /\ up' = [up EXCEPT ![u] = IF Head(wire[u]).pause
                               THEN ReceivePause(@) ELSE ReceiveResume(@)]

SwitchEvent == SwitchEvents /\ UNCHANGED up

Due     == SwitchDue \/ \E u \in Up : ServiceDue(up[u])
Pending == SwitchPending \/ \E u \in Up : up[u].service # <<>>

Tick ==
    /\ Pending /\ ~Due
    /\ SwitchTick
    /\ up' = [u \in Up |-> Age(up[u])]

(* The handlers of the events on the event list. *)
Event ==
    \/ \E u \in Up : UpstreamComplete(u) \/ FrameArrives(u)
    \/ SwitchEvent
    \/ Tick

Resumed(e) == EgressResumed(e) /\ UNCHANGED up

Next ==
    \/ Event
    \/ \E u \in Up, e \in Egress : Offer(u, e)
    \/ \E e \in Egress : (EgressPaused(e) /\ UNCHANGED up) \/ Resumed(e)

Spec == Init /\ [][Next]_vars

(* The simulation loop runs every pending event; a paused egress queue is  *)
(* resumed by its next hop sooner or later.                                *)
FairSpec == Spec /\ WF_vars(Event) /\ \A e \in Egress : WF_vars(Resumed(e))

----------------------------------------------------------------------------
(* Properties *)

(* Every queue, link and wire keeps its type; no event is ever overdue.    *)
TypeOK == SwitchTypeOK /\ up \in [Up -> Queue]

(* Composing the ports does not break what each promises on its own: a     *)
(* RESUME that crosses a completion never starts a second transmission.    *)
PortsInv ==
    /\ \A u \in Up : OneService(up[u]) /\ StateMatchesService(up[u])
    /\ \A e \in Egress : OneService(out[e]) /\ StateMatchesService(out[e])

(* The state the far end has, or will have once the frames on the wire     *)
(* have arrived, is the state the input queue thinks it has.               *)
PauseAgreement ==
    \A u \in Up :
        (ingress[u].state_recv = "PAUSED")
            <=> IF wire[u] = <<>> THEN up[u].state_send # "READY"
                ELSE wire[u][Len(wire[u])].pause

(* Every pause ends: if the next hops resume the egress queues, a paused   *)
(* upstream queue is READY again.  (With _low_threshold 0, which the       *)
(* constructor accepts, no RESUME is ever sent.)                           *)
PauseEnds ==
    Low > 0 => \A u \in Up : up[u].state_send # "READY" ~> up[u].state_send = "READY"
=============================================================================
