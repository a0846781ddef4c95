--------------------------- MODULE FairPullQueue ---------------------------
(***************************************************************************)
(* The round robin of FairPullQueue against any sequence of calls: flows   *)
(* appear, are flushed (their iterator under the dequeue's feet) and       *)
(* appear again.                                                           *)
(***************************************************************************)
EXTENDS FairPull

CONSTANTS
    FlowIds,   \* positive flow ids
    Depth      \* bound of the model: packets of a flow queued at a time

ASSUME FlowAssumption == FlowIds \subseteq Nat \ {0} /\ Depth \in Nat

VARIABLES
    fq,       \* the queue
    passed    \* history: flows served while g waits, since g was last served

vars == <<fq, passed>>

Init == fq = EmptyFair /\ passed = [g \in FlowIds |-> {}]

Waits(g) == g \in Backlogged(fq)

Put(f) ==
    /\ Waits(f) => Len(fq.map[f]) < Depth
    /\ fq' = Enqueue(fq, f, f)
    /\ UNCHANGED passed

(* A call finds pull_count 0 and returns NULL, or serves the flow in turn. *)
Take ==
    /\ fq.pull_count > 0
    /\ fq' = Dequeue(fq)
    /\ passed' = [g \in FlowIds |->
                     IF g = Turn(fq) \/ ~Waits(g) THEN {} ELSE passed[g] \cup {Turn(fq)}]

Flush(f) ==
    /\ fq' = FlushFlow(fq, f)
    /\ passed' = [passed EXCEPT ![f] = {}]

Next == Take \/ \E f \in FlowIds : Put(f) \/ Flush(f)

Spec == Init /\ [][Next]_vars

----------------------------------------------------------------------------
(* Properties *)

TypeOK ==
    /\ Flows(fq) \subseteq FlowIds
    /\ \A f \in Flows(fq) : fq.map[f] \in Seq({f})
    /\ fq.current \in Flows(fq) \cup {End}
    /\ passed \in [FlowIds -> SUBSET FlowIds]

(* pull_count is the number of packets in the FIFOs.  If it were larger,   *)
(* dequeue's while (1) would never find a packet: "there are packets       *)
(* queued, so we'll eventually find a queue that lets this terminate".     *)
CountMatches == fq.pull_count = Cardinality(Places(fq))

(* Round robin: no flow is served twice while another waits all the time,  *)
(* though flows are created and flushed around the iterator.               *)
RoundRobin ==
    [][ Take => \A g \in Backlogged(fq) \ {Turn(fq)} : Turn(fq) \notin passed[g] ]_vars
=============================================================================
