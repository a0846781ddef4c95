------------------------ MODULE LosslessOutputQueue ------------------------
(***************************************************************************)
(* One PFC output port on its own, between any input queues and any far    *)
(* end: packets, PAUSE frames, RESUME frames and the service event come in *)
(* every order, repeated and unmatched frames included (the assertion that *)
(* would refuse them is commented out in receivePacket).                   *)
(***************************************************************************)
EXTENDS LosslessPort

CONSTANT MaxBacklog   \* bound of the model: packets queued at a time

ASSUME BacklogAssumption == MaxBacklog \in Nat

VARIABLE port

vars == <<port>>

Init == port = EmptyQueue

PauseFrame  == port' = ReceivePause(port)

ResumeFrame == port' = ReceiveResume(port)

Packet(vq) ==
    /\ Len(port.enqueued) < MaxBacklog
    /\ port' = ReceivePacket(port, vq)

Complete ==
    /\ ServiceDue(port)
    /\ port' = CompleteService(port)

(* Mutant: time passes an event that is due. *)
TickPastDue == port.service # <<>> /\ port' = Age(port)

(* The event list never lets time pass an event that is due. *)
Tick ==
    /\ port.service # <<>>
    /\ ~ServiceDue(port)
    /\ port' = Age(port)

Next ==
    \/ PauseFrame
    \/ ResumeFrame
    \/ \E vq \in Tags : Packet(vq)
    \/ Complete
    \/ Tick

Spec == Init /\ [][Next]_vars

(* The event list always gets to run: time advances and due events fire.   *)
FairSpec == Spec /\ WF_vars(Complete) /\ WF_vars(Tick)

----------------------------------------------------------------------------
(* Properties *)

(* Every field keeps its type; in particular a service event never becomes *)
(* overdue (the event list asserts that time does not go back).            *)
TypeOK == port \in Queue

(* The port never has two service events, never waits PAUSED with a packet *)
(* on the wire, and never sits READY on a backlog with no event pending.   *)
ServiceInv == OneService(port) /\ StateMatchesService(port)

(* Once the port has taken a PAUSE, the packet in flight is the last one:  *)
(* until a RESUME no new service event appears, whatever arrives; and the  *)
(* pause does not abandon that packet, which leaves from the head.         *)
PauseStopsPort ==
    [][ /\ (port.state_send # "READY" /\ port'.state_send # "READY")
               => Len(port'.service) <= Len(port.service)
        /\ (port.sending /\ ~port'.sending)
               => port'.enqueued = Tail(port.enqueued) ]_vars

(* A port that stays READY with packets queued keeps transmitting: a       *)
(* RESUME restarts the head packet without waiting for another arrival.    *)
ReadyPortTransmits ==
    <>[](port.state_send = "READY" /\ port.enqueued # <<>>)
        => []<>ServiceDue(port)
=============================================================================
