------------------------------ MODULE FairPull ------------------------------
(***************************************************************************)
(* FairPullQueue as a record and its operations: one FIFO per flow in a    *)
(* map ordered by flow id, served round robin by an iterator that stays in *)
(* the map between calls.  FairPullQueue runs it on its own; it paces the  *)
(* pulls of NDP and the packets of a host (FairPriorityQueue).             *)
(***************************************************************************)
EXTENDS Integers, Sequences, FiniteSetsExt

End == 0    \* the past-the-end iterator; flow ids are positive

(* map: the flows that have a FIFO, which may be empty; current: the flow  *)
(* the iterator points at; pull_count: kept apart from the FIFOs.          *)
EmptyFair == [map |-> <<>>, current |-> End, pull_count |-> 0]

Flows(fq) == DOMAIN fq.map
Backlogged(fq) == {f \in Flows(fq) : fq.map[f] # <<>>}

(* The iterator's increment: the next flow in the order of the map. *)
After(fq, f) ==
    LET later == {g \in Flows(fq) : g > f} IN IF later = {} THEN End ELSE Min(later)

(* A flow's first packet creates its FIFO; the iterator does not move. *)
Enqueue(fq, f, p) ==
    LET fifo == IF f \in Flows(fq) THEN fq.map[f] ELSE <<>>
    IN  [map        |-> [g \in Flows(fq) \cup {f} |->
                            IF g = f THEN Append(fifo, p) ELSE fq.map[g]],
         current    |-> fq.current,
         pull_count |-> fq.pull_count + 1]

(* The flow dequeue stops at: the first one with a packet from the         *)
(* iterator on, going round once.                                          *)
Turn(fq) ==
    LET ahead == IF fq.current = End THEN {}
                 ELSE {f \in Backlogged(fq) : f >= fq.current}
    IN  IF ahead # {} THEN Min(ahead) ELSE Min(Backlogged(fq))

Served(fq) == Head(fq.map[Turn(fq)])

(* Mutant: the iterator stays on the flow it served. *)
DequeueStays(fq) ==
    [map        |-> [fq.map EXCEPT ![Turn(fq)] = Tail(@)],
     current    |-> Turn(fq),
     pull_count |-> fq.pull_count - 1]

Dequeue(fq) ==
    LET f == Turn(fq)
    IN  [map        |-> [fq.map EXCEPT ![f] = Tail(@)],
         current    |-> After(fq, f),
         pull_count |-> fq.pull_count - 1]

(* Mutants: the iterator stays on a FIFO that is gone; the packets still   *)
(* count.                                                                  *)
FlushFlowDangling(fq, f) ==
    IF f \notin Flows(fq) THEN fq
    ELSE [fq EXCEPT !.map = [g \in Flows(fq) \ {f} |-> fq.map[g]],
                    !.pull_count = @ - Len(fq.map[f])]

FlushFlowCounted(fq, f) ==
    IF f \notin Flows(fq) THEN fq
    ELSE [fq EXCEPT !.map = [g \in Flows(fq) \ {f} |-> fq.map[g]],
                    !.current = IF @ = f THEN After(fq, f) ELSE @]

(* The flow's packets and its FIFO go; an iterator on it moves on first. *)
FlushFlow(fq, f) ==
    IF f \notin Flows(fq) THEN fq
    ELSE [map        |-> [g \in Flows(fq) \ {f} |-> fq.map[g]],
          current    |-> IF fq.current = f THEN After(fq, f) ELSE fq.current,
          pull_count |-> fq.pull_count - Len(fq.map[f])]

----------------------------------------------------------------------------
(* The places of the packets in the FIFOs, for what properties count. *)
Places(fq) == UNION {{f} \X DOMAIN fq.map[f] : f \in Flows(fq)}
=============================================================================
