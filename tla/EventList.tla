----------------------------- MODULE EventList -----------------------------
(***************************************************************************)
(* The simulator's event list (eventlist.cpp): a multimap from a time to   *)
(* the sources that asked for it, and the triggers that run before time    *)
(* moves on.  Equal keys of the multimap keep the order they were inserted *)
(* in, so the sources due at one time are a queue.                         *)
(*                                                                         *)
(* Every program of the repository sets an end time and nothing is kept    *)
(* for that time or later (eventlist.cpp:70), so the keys the multimap can *)
(* hold are 0 .. EndTime - 1.  `_endtime == 0', "run for ever", is not     *)
(* modelled.                                                               *)
(***************************************************************************)
EXTENDS Integers, Sequences

CONSTANTS EndTime    \* _endtime, in units of the shortest delay modelled

ASSUME EndTimeAssumption == EndTime \in Nat \ {0}

Times == 0 .. EndTime - 1

EmptyList == [t \in Times |-> <<>>]

(* sourceIsPending: insert behind the sources already due at that time;    *)
(* what falls at or after the end of the simulation is silently dropped.   *)
SourceIsPending(pending, src, when) ==
  IF when < EndTime THEN [pending EXCEPT ![when] = Append(@, src)] ELSE pending

(* The key of begin(): the earliest time something is due.                 *)
IsNextEventTime(pending, t) ==
  /\ pending[t] # <<>>
  /\ \A u \in Times : u < t => pending[u] = <<>>

(* erase(begin())                                                          *)
Erased(pending, t) == [pending EXCEPT ![t] = Tail(@)]

(* triggerIsPending for each target in turn: push_back ...                 *)
TriggersArePending(stack, targets) == stack \o targets

(* Mutant: the list of triggers is emptied when one is taken.              *)
OtherTriggersNone(stack) == <<>>

(* ... and doNextEvent takes back() and pop_back(): last in, first out.    *)
NextTrigger(stack) == stack[Len(stack)]
OtherTriggers(stack) == SubSeq(stack, 1, Len(stack) - 1)
=============================================================================
