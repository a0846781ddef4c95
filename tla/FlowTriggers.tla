---------------------------- MODULE FlowTriggers ----------------------------
(***************************************************************************)
(* A job of flows that start one another: the connections and triggers of  *)
(* a connection matrix (datacenter/connection_matrix.cpp), bound by the    *)
(* main program, run by the event list.  A connection has a start time or  *)
(* waits for a trigger; when its sender has everything acknowledged it     *)
(* activates its send_done_trigger (trigger.cpp), which makes the flows    *)
(* that wait for it start before time moves on.                            *)
(*                                                                         *)
(* The transfer itself is abstracted to two events: the last packet        *)
(* reaches the receiver, and its acknowledgement reaches the sender, each  *)
(* after a delay of Durations.                                             *)
(***************************************************************************)
EXTENDS EventList, FiniteSets

CONSTANTS Flows,          \* the connections, by flow id
          Triggers,       \* the trigger ids: 0 means "no trigger"
          Kind,           \* trigger |-> SINGLE_SHOT, MULTI_SHOT or BARRIER
          Count,          \* trigger |-> activations a barrier needs
          Targets,        \* trigger |-> its flows in the order of the file
          Starts,         \* time |-> the flows that start then, as in the file
          SendDone,       \* flow |-> send_done_trigger
          Durations       \* how long half a transfer may take

VARIABLES now,               \* _lasteventtime
          pendingSources,
          pendingTriggers,
          flow,              \* what each flow is doing
          trigger,           \* the counters of each trigger
          aborted            \* an assertion has failed

vars == <<now, pendingSources, pendingTriggers, flow, trigger, aborted>>

NoTrigger == 0

Kinds == {"SINGLE_SHOT", "MULTI_SHOT", "BARRIER"}

ASSUME MatrixAssumption ==
  /\ Triggers \subseteq Nat \ {NoTrigger}
  /\ Kind \in [Triggers -> Kinds]
  /\ Count \in [Triggers -> Nat]
  /\ Targets \in [Triggers -> Seq(Flows)]
  /\ Starts \in [Times -> Seq(Flows)]
  /\ SendDone \in [Flows -> Triggers \cup {NoTrigger}]
  /\ Durations \subseteq Nat

(* What the loader and the loop over the connections guarantee: a line has *)
(* a start time or a trigger, not both (a triggered flow has TRIGGER_START *)
(* and connect schedules nothing for it), and its flow is added to that    *)
(* trigger once.                                                           *)
ASSUME TargetsAssumption ==
  /\ \A t \in Triggers : \A i \in DOMAIN Targets[t] :
        \A s \in Times : \A j \in DOMAIN Starts[s] : Targets[t][i] # Starts[s][j]
  /\ \A t, u \in Triggers : \A i \in DOMAIN Targets[t], j \in DOMAIN Targets[u] :
        Targets[t][i] = Targets[u][j] => t = u /\ i = j
-----------------------------------------------------------------------------
(* Mutant: a barrier does not count the activation that releases it.       *)
NewTriggerShort(t) == [done |-> FALSE, next |-> 0, remaining |-> Count[t] - 1]

(* The constructors of the three triggers.                                 *)
NewTrigger(t) == [done |-> FALSE, next |-> 0, remaining |-> Count[t]]

(* The assertions of activate().                                           *)
Aborts(t) ==
  \/ /\ Kind[t] = "SINGLE_SHOT"
     /\ trigger[t].done \/ Targets[t] = <<>>
  \/ /\ Kind[t] = "BARRIER"
     /\ trigger[t].remaining = 0 \/ Targets[t] = <<>>

(* Mutant: a barrier opens one activation early.                           *)
ReleasedEarly(t) ==
  CASE Kind[t] = "SINGLE_SHOT" -> Targets[t]
    [] Kind[t] = "MULTI_SHOT"  -> IF trigger[t].next < Len(Targets[t])
                                  THEN <<Targets[t][trigger[t].next + 1]>> ELSE <<>>
    [] Kind[t] = "BARRIER"     -> IF trigger[t].remaining = 2 THEN Targets[t] ELSE <<>>

(* The targets one activation makes pending: all of them at the first      *)
(* activation of a single shot and at the last a barrier waits for, the    *)
(* next one of a multi-shot, none when a multi-shot has none left.         *)
Released(t) ==
  CASE Kind[t] = "SINGLE_SHOT" -> Targets[t]
    [] Kind[t] = "MULTI_SHOT"  -> IF trigger[t].next < Len(Targets[t])
                                  THEN <<Targets[t][trigger[t].next + 1]>> ELSE <<>>
    [] Kind[t] = "BARRIER"     -> IF trigger[t].remaining = 1 THEN Targets[t] ELSE <<>>

(* Mutant: a multi-shot forgets to move on.                                *)
ActivatedStays(t) ==
  CASE Kind[t] = "SINGLE_SHOT" -> [trigger[t] EXCEPT !.done = TRUE]
    [] Kind[t] = "MULTI_SHOT"  -> trigger[t]
    [] Kind[t] = "BARRIER"     -> [trigger[t] EXCEPT !.remaining = @ - 1]

Activated(t) ==
  CASE Kind[t] = "SINGLE_SHOT" -> [trigger[t] EXCEPT !.done = TRUE]
    [] Kind[t] = "MULTI_SHOT"  ->
         [trigger[t] EXCEPT !.next = IF @ < Len(Targets[t]) THEN @ + 1 ELSE @]
    [] Kind[t] = "BARRIER"     -> [trigger[t] EXCEPT !.remaining = @ - 1]

Activate(t) ==
  /\ aborted' = Aborts(t)
  /\ pendingTriggers' = IF Aborts(t) THEN pendingTriggers
                        ELSE TriggersArePending(pendingTriggers, Released(t))
  /\ trigger' = IF Aborts(t) THEN trigger ELSE [trigger EXCEPT ![t] = Activated(t)]
-----------------------------------------------------------------------------
(* The flows are connected in the order of the matrix, before any event.   *)
Init ==
  /\ now = 0
  /\ pendingSources = Starts
  /\ pendingTriggers = <<>>
  /\ flow = [f \in Flows |-> "idle"]
  /\ trigger = [t \in Triggers |-> NewTrigger(t)]
  /\ aborted = FALSE

(* The pending trigger on top activates its flow: startflow(), from the    *)
(* beginning whatever the flow was doing.                                  *)
RunTrigger ==
  /\ ~aborted
  /\ pendingTriggers # <<>>
  /\ LET f == NextTrigger(pendingTriggers)
     IN  /\ flow' = [flow EXCEPT ![f] = "running"]
         /\ \E d \in Durations :
              pendingSources' = SourceIsPending(pendingSources, f, now + d)
  /\ pendingTriggers' = OtherTriggers(pendingTriggers)
  /\ UNCHANGED <<now, trigger, aborted>>

(* The next source runs when no trigger is pending; time becomes its time. *)
RunsNext(f, t) ==
  /\ ~aborted
  /\ pendingTriggers = <<>>
  /\ IsNextEventTime(pendingSources, t)
  /\ f = Head(pendingSources[t])
  /\ now' = t

(* A flow with a start time starts ...                                     *)
StartFlow(f, t) ==
  /\ RunsNext(f, t)
  /\ flow[f] = "idle"
  /\ flow' = [flow EXCEPT ![f] = "running"]
  /\ \E d \in Durations :
       pendingSources' = SourceIsPending(Erased(pendingSources, t), f, t + d)
  /\ UNCHANGED <<pendingTriggers, trigger, aborted>>

(* Mutant: asks for an event at the delay, not after it.                   *)
ReceivedAbsolute(f, t) ==
  /\ RunsNext(f, t)
  /\ flow[f] = "running"
  /\ flow' = [flow EXCEPT ![f] = "received"]
  /\ \E d \in Durations :
       pendingSources' = SourceIsPending(Erased(pendingSources, t), f, d)
  /\ UNCHANGED <<pendingTriggers, trigger, aborted>>

(* ... its last packet reaches the receiver, whose sink keeps the trigger  *)
(* it may have (recv_done_trigger) and never activates it ...              *)
Received(f, t) ==
  /\ RunsNext(f, t)
  /\ flow[f] = "running"
  /\ flow' = [flow EXCEPT ![f] = "received"]
  /\ \E d \in Durations :
       pendingSources' = SourceIsPending(Erased(pendingSources, t), f, t + d)
  /\ UNCHANGED <<pendingTriggers, trigger, aborted>>

(* Mutant: an acknowledgement that comes again activates the trigger again.*)
SendingDoneAgain(f, t) ==
  /\ RunsNext(f, t)
  /\ flow[f] \in {"received", "done"}
  /\ flow' = [flow EXCEPT ![f] = "done"]
  /\ pendingSources' = IF flow[f] = "done" THEN Erased(pendingSources, t)
                       ELSE SourceIsPending(Erased(pendingSources, t), f, t + 1)
  /\ IF SendDone[f] = NoTrigger
     THEN UNCHANGED <<pendingTriggers, trigger, aborted>>
     ELSE Activate(SendDone[f])

(* ... and the sender, told so, is done and activates its end trigger.     *)
SendingDone(f, t) ==
  /\ RunsNext(f, t)
  /\ flow[f] = "received"
  /\ flow' = [flow EXCEPT ![f] = "done"]
  /\ pendingSources' = Erased(pendingSources, t)
  /\ IF SendDone[f] = NoTrigger
     THEN UNCHANGED <<pendingTriggers, trigger, aborted>>
     ELSE Activate(SendDone[f])

Next ==
  \/ RunTrigger
  \/ \E f \in Flows, t \in Times : StartFlow(f, t) \/ Received(f, t) \/ SendingDone(f, t)

Spec == Init /\ [][Next]_vars

(* main: while (eventlist.doNextEvent()) {}                                *)
FairSpec == Spec /\ WF_vars(Next)
-----------------------------------------------------------------------------
TypeOK ==
  /\ now \in Times
  /\ pendingSources \in [Times -> Seq(Flows)]
  /\ pendingTriggers \in Seq(Flows)
  /\ flow \in [Flows -> {"idle", "running", "received", "done"}]
  /\ trigger \in [Triggers -> [done : BOOLEAN, next : Nat, remaining : Nat]]
  /\ aborted \in BOOLEAN

(* Time never goes back: nothing is pending for a time that has passed     *)
(* (the assertion of EventList::doNextEvent, eventlist.cpp:59).            *)
NothingOverdue == \A t \in Times : t < now => pendingSources[t] = <<>>

(* A trigger starts a flow once: "most targets cannot be restarted"        *)
(* (trigger.h:45).  What is pending has not started, and is pending once.  *)
StartOnce ==
  /\ \A i \in DOMAIN pendingTriggers : flow[pendingTriggers[i]] = "idle"
  /\ \A i, j \in DOMAIN pendingTriggers :
        pendingTriggers[i] = pendingTriggers[j] => i = j

(* A trigger releases what the finished flows that feed it entitle it to:  *)
(* all of its flows at the first one, all at the Count-th one, or one flow *)
(* for each, until it has none left.  (A barrier loaded without a count    *)
(* never opens: its first activation fails its assertion.)                 *)
Finished(t) == Cardinality({f \in Flows : SendDone[f] = t /\ flow[f] = "done"})
Entitled(t) ==
  LET all == Len(Targets[t])
  IN  CASE Kind[t] = "SINGLE_SHOT" -> IF Finished(t) >= 1 THEN all ELSE 0
        [] Kind[t] = "MULTI_SHOT"  -> IF Finished(t) < all THEN Finished(t) ELSE all
        [] Kind[t] = "BARRIER"     -> IF Count[t] > 0 /\ Finished(t) >= Count[t] THEN all ELSE 0
InTurn ==
  \A t \in Triggers : \A i \in DOMAIN Targets[t] :
     LET f == Targets[t][i]
         released == flow[f] # "idle" \/ \E k \in DOMAIN pendingTriggers : pendingTriggers[k] = f
     IN  released <=> i <= Entitled(t)

(* No assertion of a trigger fails (trigger.cpp), in a job that is Fed.    *)
NoAbort == ~aborted

(* A matrix whose triggers are fed as they expect: whatever is activated   *)
(* has targets (a multi-shot need not), one flow feeds a single shot, and  *)
(* no more flows feed a barrier than it counts.                            *)
Feeders(t) == {f \in Flows : SendDone[f] = t}
Fed == \A t \in Triggers :
  /\ Kind[t] # "MULTI_SHOT" /\ Feeders(t) # {} => Targets[t] # <<>>
  /\ Kind[t] = "SINGLE_SHOT" => \A f, g \in Feeders(t) : f = g
  /\ Kind[t] = "BARRIER" => IsFiniteSet(Feeders(t)) /\ Cardinality(Feeders(t)) <= Count[t]

(* Every flow of the job finishes.                                         *)
EveryFlowEnds == \A f \in Flows : <>(flow[f] = "done")
=============================================================================
