------------------------- MODULE FlowTriggersProofs -------------------------
(***************************************************************************)
(* For every job the loader accepts: the state is well typed, time never   *)
(* goes back, and no trigger starts a flow that has started or is about    *)
(* to.  The last needs to know which targets a trigger has not released    *)
(* yet (those wait: they are idle and not pending), and that an idle flow  *)
(* with an event has a start time, so that no trigger will start it too.   *)
(***************************************************************************)
EXTENDS FlowTriggers, FiniteSetTheorems, TLAPS

IsReleased(t, i) ==
  CASE Kind[t] = "SINGLE_SHOT" -> trigger[t].done
    [] Kind[t] = "MULTI_SHOT"  -> i <= trigger[t].next
    [] Kind[t] = "BARRIER"     -> Count[t] > 0 /\ trigger[t].remaining = 0

OnStack(f) == \E k \in DOMAIN pendingTriggers : pendingTriggers[k] = f

UnreleasedWait ==
  \A t \in Triggers : \A i \in DOMAIN Targets[t] :
     ~IsReleased(t, i) => flow[Targets[t][i]] = "idle" /\ ~OnStack(Targets[t][i])

IsTarget(f) == \E t \in Triggers : \E i \in DOMAIN Targets[t] : Targets[t][i] = f

QueuedOrStarted ==
  \A s \in Times : \A j \in DOMAIN pendingSources[s] :
     flow[pendingSources[s][j]] = "idle" => ~IsTarget(pendingSources[s][j])

BarrierCounts == \A t \in Triggers : trigger[t].remaining <= Count[t]

IInv == /\ TypeOK /\ NothingOverdue /\ StartOnce
        /\ UnreleasedWait /\ QueuedOrStarted /\ BarrierCounts
-----------------------------------------------------------------------------
(* A queue with one more source is still a queue, and holds what it held.  *)
LEMMA SourceIsPendingType ==
  ASSUME NEW q \in [Times -> Seq(Flows)], NEW f \in Flows, NEW w \in Nat
  PROVE  /\ SourceIsPending(q, f, w) \in [Times -> Seq(Flows)]
         /\ \A s \in Times : s < w => SourceIsPending(q, f, w)[s] = q[s]
         /\ \A s \in Times : \A j \in DOMAIN SourceIsPending(q, f, w)[s] :
               \/ SourceIsPending(q, f, w)[s][j] = f
               \/ \E i \in DOMAIN q[s] : SourceIsPending(q, f, w)[s][j] = q[s][i]
<1>1. CASE w < EndTime
  <2>1. w \in Times
    BY <1>1, EndTimeAssumption DEF Times
  <2>2. Append(q[w], f) \in Seq(Flows)
    BY <2>1
  <2>3. SourceIsPending(q, f, w) = [q EXCEPT ![w] = Append(q[w], f)]
    BY <1>1 DEF SourceIsPending
  <2>4. \A j \in DOMAIN Append(q[w], f) :
           Append(q[w], f)[j] = f \/ \E i \in DOMAIN q[w] : Append(q[w], f)[j] = q[w][i]
    BY <2>1
  <2>5. \A s \in Times : s # w => SourceIsPending(q, f, w)[s] = q[s]
    BY <2>3
  <2>6. SourceIsPending(q, f, w)[w] = Append(q[w], f)
    BY <2>1, <2>3
  <2>7. \A s \in Times : s < w => s # w
    BY EndTimeAssumption DEF Times
  <2> QED
    BY <2>1, <2>2, <2>3, <2>4, <2>5, <2>6, <2>7
<1>2. CASE ~(w < EndTime)
  BY <1>2 DEF SourceIsPending
<1> QED
  BY <1>1, <1>2

LEMMA ErasedType ==
  ASSUME NEW q \in [Times -> Seq(Flows)], NEW t \in Times, q[t] # <<>>
  PROVE  /\ Erased(q, t) \in [Times -> Seq(Flows)]
         /\ \A s \in Times : s # t => Erased(q, t)[s] = q[s]
         /\ \A s \in Times : \A j \in DOMAIN Erased(q, t)[s] :
               \E i \in DOMAIN q[s] : Erased(q, t)[s][j] = q[s][i]
         /\ Head(q[t]) \in Flows /\ Head(q[t]) = q[t][1] /\ 1 \in DOMAIN q[t]
<1>1. q[t] \in Seq(Flows)
  OBVIOUS
<1>2. Tail(q[t]) \in Seq(Flows) /\ Head(q[t]) \in Flows /\ Head(q[t]) = q[t][1] /\ 1 \in DOMAIN q[t]
  BY <1>1
<1>3. \A j \in DOMAIN Tail(q[t]) : j + 1 \in DOMAIN q[t] /\ Tail(q[t])[j] = q[t][j + 1]
  BY <1>1
<1>4. Erased(q, t) = [q EXCEPT ![t] = Tail(q[t])]
  BY DEF Erased
<1> QED
  BY <1>2, <1>3, <1>4

(* What an activation that passes its assertions puts on the stack: targets*)
(* it had not released, each once, and it counts them as released.         *)
LEMMA ReleasedTargets ==
  ASSUME TypeOK, NEW t \in Triggers, ~Aborts(t)
  PROVE  /\ Released(t) \in Seq(Flows)
         /\ \A k \in DOMAIN Released(t) : \E i \in DOMAIN Targets[t] :
               /\ Released(t)[k] = Targets[t][i]
               /\ ~IsReleased(t, i)
         /\ \A k, m \in DOMAIN Released(t) : Released(t)[k] = Released(t)[m] => k = m
<1>1. Targets[t] \in Seq(Flows) /\ Kind[t] \in Kinds
  BY MatrixAssumption
<1>2. \A i, j \in DOMAIN Targets[t] : Targets[t][i] = Targets[t][j] => i = j
  BY TargetsAssumption
<1>3. trigger[t] \in [done : BOOLEAN, next : Nat, remaining : Nat]
  BY DEF TypeOK
<1>4. CASE Kind[t] = "SINGLE_SHOT"
  BY <1>1, <1>2, <1>4 DEF Released, IsReleased, Aborts
<1>5. CASE Kind[t] = "MULTI_SHOT"
  <2>1. CASE trigger[t].next < Len(Targets[t])
    <3>1. trigger[t].next + 1 \in DOMAIN Targets[t] /\ ~(trigger[t].next + 1 <= trigger[t].next)
      BY <1>1, <1>3, <2>1
    <3>2. Released(t) = <<Targets[t][trigger[t].next + 1]>>
      BY <1>5, <2>1 DEF Released
    <3>3. ~IsReleased(t, trigger[t].next + 1)
      BY <1>5, <3>1 DEF IsReleased
    <3> QED
      BY <1>1, <3>1, <3>2, <3>3
  <2>2. CASE ~(trigger[t].next < Len(Targets[t]))
    BY <1>5, <2>2 DEF Released
  <2> QED
    BY <2>1, <2>2
<1>6. CASE Kind[t] = "BARRIER"
  <2>1. CASE trigger[t].remaining = 1
    BY <1>1, <1>2, <1>6, <2>1 DEF Released, IsReleased
  <2>2. CASE trigger[t].remaining # 1
    BY <1>6, <2>2 DEF Released
  <2> QED
    BY <2>1, <2>2
<1> QED
  BY <1>1, <1>4, <1>5, <1>6 DEF Kinds

(* The counters of a trigger stay counters, and what was or is being       *)
(* released counts as released afterwards.                                 *)
LEMMA ActivatedReleases ==
  ASSUME TypeOK, BarrierCounts, NEW t \in Triggers, ~Aborts(t),
         trigger' = [trigger EXCEPT ![t] = Activated(t)]
  PROVE  /\ BarrierCounts'
         /\ trigger' \in [Triggers -> [done : BOOLEAN, next : Nat, remaining : Nat]]
         /\ \A u \in Triggers : \A i \in DOMAIN Targets[u] :
               ~IsReleased(u, i)' => ~IsReleased(u, i)
         /\ \A i \in DOMAIN Targets[t] : ~IsReleased(t, i)' =>
               \A k \in DOMAIN Released(t) : Released(t)[k] # Targets[t][i]
<1>1. Targets[t] \in Seq(Flows) /\ Kind[t] \in Kinds
  BY MatrixAssumption
<1>2. \A i, j \in DOMAIN Targets[t] : Targets[t][i] = Targets[t][j] => i = j
  BY TargetsAssumption
<1>3. /\ trigger[t] \in [done : BOOLEAN, next : Nat, remaining : Nat]
      /\ trigger[t].remaining <= Count[t] /\ Count[t] \in Nat
  BY MatrixAssumption DEF TypeOK, BarrierCounts
<1>4. trigger'[t] = Activated(t) /\ \A u \in Triggers \ {t} : trigger'[u] = trigger[u]
  BY DEF TypeOK
<1>5. \A u \in Triggers \ {t} : \A i : IsReleased(u, i)' <=> IsReleased(u, i)
  BY <1>4 DEF IsReleased
<1>6. /\ Activated(t).remaining <= Count[t]
      /\ Activated(t) \in [done : BOOLEAN, next : Nat, remaining : Nat]
      /\ \A i \in DOMAIN Targets[t] : IsReleased(t, i) => IsReleased(t, i)'
      /\ \A i \in DOMAIN Targets[t] : ~IsReleased(t, i)' =>
            \A k \in DOMAIN Released(t) : Released(t)[k] # Targets[t][i]
  <2>1. CASE Kind[t] = "SINGLE_SHOT"
    <3>1. Activated(t) = [trigger[t] EXCEPT !.done = TRUE]
      BY <2>1 DEF Activated
    <3>2. \A i : IsReleased(t, i)'
      BY <1>3, <1>4, <2>1, <3>1 DEF IsReleased
    <3> QED
      BY <1>3, <3>1, <3>2
  <2>2. CASE Kind[t] = "MULTI_SHOT" /\ trigger[t].next < Len(Targets[t])
    <3>1. Activated(t) = [trigger[t] EXCEPT !.next = trigger[t].next + 1]
      BY <2>2 DEF Activated
    <3>2. Released(t) = <<Targets[t][trigger[t].next + 1]>>
      BY <2>2 DEF Released
    <3>3. \A i : IsReleased(t, i)' <=> i <= trigger[t].next + 1
      BY <1>3, <1>4, <2>2, <3>1 DEF IsReleased
    <3>4. \A i : IsReleased(t, i) <=> i <= trigger[t].next
      BY <2>2 DEF IsReleased
    <3>5. trigger[t].next + 1 \in DOMAIN Targets[t]
      BY <1>1, <1>3, <2>2
    <3>6. \A i \in DOMAIN Targets[t] : i <= trigger[t].next => i <= trigger[t].next + 1
      BY <1>1, <1>3
    <3>7. \A i \in DOMAIN Targets[t] : ~(i <= trigger[t].next + 1) => i # trigger[t].next + 1
      BY <1>1, <1>3
    <3>8. \A k \in DOMAIN Released(t) : Released(t)[k] = Targets[t][trigger[t].next + 1]
      BY <3>2
    <3>9. /\ Activated(t) \in [done : BOOLEAN, next : Nat, remaining : Nat]
          /\ Activated(t).remaining <= Count[t]
      BY <1>3, <3>1
    <3> QED
      BY <1>2, <3>3, <3>4, <3>5, <3>6, <3>7, <3>8, <3>9
  <2>3. CASE Kind[t] = "MULTI_SHOT" /\ ~(trigger[t].next < Len(Targets[t]))
    <3>1. Activated(t) = trigger[t] /\ Released(t) = <<>>
      BY <1>3, <2>3 DEF Activated, Released
    <3>2. \A i : IsReleased(t, i)' <=> IsReleased(t, i)
      BY <1>4, <2>3, <3>1 DEF IsReleased
    <3> QED
      BY <1>3, <3>1, <3>2
  <2>4. CASE Kind[t] = "BARRIER"
    <3>1. Activated(t) = [trigger[t] EXCEPT !.remaining = trigger[t].remaining - 1]
      BY <2>4 DEF Activated
    <3>2. trigger[t].remaining # 0
      BY <2>4 DEF Aborts
    <3>3. \A i : IsReleased(t, i)' <=> trigger[t].remaining = 1
      BY <1>3, <1>4, <2>4, <3>1, <3>2 DEF IsReleased
    <3>4. \A i : ~IsReleased(t, i)
      BY <2>4, <3>2 DEF IsReleased
    <3>5. trigger[t].remaining # 1 => Released(t) = <<>>
      BY <2>4 DEF Released
    <3>6. /\ Activated(t) \in [done : BOOLEAN, next : Nat, remaining : Nat]
          /\ Activated(t).remaining <= Count[t]
      BY <1>3, <3>1, <3>2
    <3> QED
      BY <3>3, <3>4, <3>5, <3>6
  <2> QED
    BY <1>1, <2>1, <2>2, <2>3, <2>4 DEF Kinds
<1> QED
  BY <1>4, <1>5, <1>6 DEF TypeOK, BarrierCounts

(* The start of a job: only flows with a start time are in the list.       *)
LEMMA InitInv == Init => IInv
<1> SUFFICES ASSUME Init PROVE IInv
  OBVIOUS
<1>1. TypeOK
  <2>1. trigger \in [Triggers -> [done : BOOLEAN, next : Nat, remaining : Nat]]
    BY MatrixAssumption DEF Init, NewTrigger
  <2>2. 0 \in Times
    BY EndTimeAssumption DEF Times
  <2>3. pendingSources \in [Times -> Seq(Flows)] /\ pendingTriggers \in Seq(Flows)
    BY MatrixAssumption DEF Init
  <2>4. flow \in [Flows -> {"idle", "running", "received", "done"}]
    BY DEF Init
  <2> QED
    BY <2>1, <2>2, <2>3, <2>4 DEF Init, TypeOK
<1>2. NothingOverdue /\ StartOnce
  BY EndTimeAssumption DEF Init, NothingOverdue, StartOnce, Times
<1>3. UnreleasedWait
  BY MatrixAssumption DEF Init, UnreleasedWait, OnStack
<1>4. QueuedOrStarted
  BY TargetsAssumption DEF Init, QueuedOrStarted, IsTarget
<1>5. BarrierCounts
  BY MatrixAssumption DEF Init, NewTrigger, BarrierCounts
<1> QED
  BY <1>1, <1>2, <1>3, <1>4, <1>5 DEF IInv

(* The flow on top of the stack starts and leaves the stack.               *)
LEMMA RunTriggerKeepsInv == IInv /\ RunTrigger => IInv'
<1> SUFFICES ASSUME IInv, RunTrigger PROVE IInv'
  OBVIOUS
<1> DEFINE n == Len(pendingTriggers)
           f == NextTrigger(pendingTriggers)
<1>1. /\ pendingTriggers \in Seq(Flows) /\ n \in Nat \ {0} /\ f = pendingTriggers[n]
      /\ f \in Flows
      /\ now \in Times /\ now \in Nat
      /\ pendingSources \in [Times -> Seq(Flows)]
      /\ flow \in [Flows -> {"idle", "running", "received", "done"}]
  BY EndTimeAssumption DEF IInv, TypeOK, RunTrigger, NextTrigger, Times
<1>2. PICK d \in Durations : pendingSources' = SourceIsPending(pendingSources, f, now + d)
  BY DEF RunTrigger
<1>3. now + d \in Nat /\ now <= now + d
  BY <1>1, MatrixAssumption
<1>4. flow' = [flow EXCEPT ![f] = "running"]
  BY DEF RunTrigger
<1>5. /\ pendingTriggers' \in Seq(Flows)
      /\ DOMAIN pendingTriggers' = 1 .. n - 1
      /\ \A k \in DOMAIN pendingTriggers' :
            k \in DOMAIN pendingTriggers /\ k # n /\ pendingTriggers'[k] = pendingTriggers[k]
  BY <1>1 DEF RunTrigger, OtherTriggers
<1>6. /\ pendingSources' \in [Times -> Seq(Flows)]
      /\ \A s \in Times : s < now + d => pendingSources'[s] = pendingSources[s]
      /\ \A s \in Times : \A j \in DOMAIN pendingSources'[s] :
            \/ pendingSources'[s][j] = f
            \/ \E i \in DOMAIN pendingSources[s] : pendingSources'[s][j] = pendingSources[s][i]
  BY <1>1, <1>2, <1>3, SourceIsPendingType
<1>7. TypeOK'
  BY <1>1, <1>4, <1>5, <1>6 DEF IInv, TypeOK, RunTrigger
<1>8. NothingOverdue'
  <2>1. \A t \in Times : t < now => t < now + d
    BY <1>1, <1>3, EndTimeAssumption, MatrixAssumption DEF Times
  <2> QED
    BY <1>6, <2>1 DEF IInv, NothingOverdue, RunTrigger
<1>9. StartOnce'
  <2>1. \A k \in DOMAIN pendingTriggers' : pendingTriggers'[k] \in Flows /\ pendingTriggers'[k] # f
    BY <1>1, <1>5 DEF IInv, StartOnce
  <2> QED
    BY <1>1, <1>4, <1>5, <2>1 DEF IInv, StartOnce
<1>10. UnreleasedWait'
  <2> SUFFICES ASSUME NEW t \in Triggers, NEW i \in DOMAIN Targets[t], ~IsReleased(t, i)'
               PROVE  flow'[Targets[t][i]] = "idle" /\ ~OnStack(Targets[t][i])'
    BY DEF UnreleasedWait
  <2>1. flow[Targets[t][i]] = "idle" /\ ~OnStack(Targets[t][i])
    BY DEF IInv, UnreleasedWait, IsReleased, RunTrigger
  <2>2. Targets[t][i] # f
    BY <1>1, <2>1 DEF OnStack
  <2>3. Targets[t][i] \in Flows
    BY MatrixAssumption
  <2> QED
    BY <1>1, <1>4, <1>5, <2>1, <2>2, <2>3 DEF OnStack
<1>11. QueuedOrStarted'
  <2> SUFFICES ASSUME NEW s \in Times, NEW j \in DOMAIN pendingSources'[s],
                      flow'[pendingSources'[s][j]] = "idle"
               PROVE  ~IsTarget(pendingSources'[s][j])
    BY DEF QueuedOrStarted, IsTarget
  <2>1. pendingSources'[s][j] # f
    BY <1>1, <1>4
  <2>2. PICK i \in DOMAIN pendingSources[s] : pendingSources'[s][j] = pendingSources[s][i]
    BY <1>6, <2>1
  <2>3. QueuedOrStarted
    BY DEF IInv
  <2>4. flow[pendingSources[s][i]] = "idle"
    BY <1>1, <1>4, <2>1, <2>2
  <2> QED
    BY <2>2, <2>3, <2>4 DEF QueuedOrStarted
<1>12. BarrierCounts'
  BY DEF IInv, BarrierCounts, RunTrigger
<1> QED
  BY <1>7, <1>8, <1>9, <1>10, <1>11, <1>12 DEF IInv

(* What every event of a source has in common: it is the first of the      *)
(* earliest time, which becomes the present.                               *)
LEMMA RunsNextFacts ==
  ASSUME IInv, NEW f \in Flows, NEW t \in Times, RunsNext(f, t)
  PROVE  /\ pendingSources[t] # <<>>
         /\ \A u \in Times : u < t => pendingSources[u] = <<>>
         /\ f = pendingSources[t][1] /\ 1 \in DOMAIN pendingSources[t]
         /\ pendingTriggers = <<>>
         /\ now' = t
         /\ t \in Nat
         /\ flow[f] = "idle" => ~IsTarget(f)
BY ErasedType, EndTimeAssumption
   DEF IInv, TypeOK, RunsNext, IsNextEventTime, QueuedOrStarted, Times

(* A flow that starts or arrives asks for its next event.                  *)
LEMMA RescheduleKeepsInv ==
  ASSUME IInv, NEW f \in Flows, NEW t \in Times, RunsNext(f, t),
         NEW s \in {"running", "received"}, flow' = [flow EXCEPT ![f] = s],
         NEW d \in Durations,
         pendingSources' = SourceIsPending(Erased(pendingSources, t), f, t + d),
         UNCHANGED <<pendingTriggers, trigger, aborted>>
  PROVE  IInv'
<1> DEFINE q == Erased(pendingSources, t)
<1>1. /\ pendingSources \in [Times -> Seq(Flows)]
      /\ flow \in [Flows -> {"idle", "running", "received", "done"}]
  BY DEF IInv, TypeOK
<1>2. /\ q \in [Times -> Seq(Flows)]
      /\ \A u \in Times : u # t => q[u] = pendingSources[u]
      /\ \A u \in Times : \A j \in DOMAIN q[u] :
            \E i \in DOMAIN pendingSources[u] : q[u][j] = pendingSources[u][i]
  BY <1>1, RunsNextFacts, ErasedType
<1>3. t + d \in Nat /\ t <= t + d
  BY RunsNextFacts, MatrixAssumption
<1>4. /\ pendingSources' \in [Times -> Seq(Flows)]
      /\ \A u \in Times : u < t + d => pendingSources'[u] = q[u]
      /\ \A u \in Times : \A j \in DOMAIN pendingSources'[u] :
            pendingSources'[u][j] = f \/ \E i \in DOMAIN q[u] : pendingSources'[u][j] = q[u][i]
  <2> HIDE DEF q
  <2> DEFINE r == SourceIsPending(q, f, t + d)
  <2>1. /\ r \in [Times -> Seq(Flows)]
        /\ \A u \in Times : u < t + d => r[u] = q[u]
        /\ \A u \in Times : \A j \in DOMAIN r[u] :
              r[u][j] = f \/ \E i \in DOMAIN q[u] : r[u][j] = q[u][i]
    BY <1>2, <1>3, SourceIsPendingType
  <2>2. pendingSources' = r
    BY DEF q
  <2> HIDE DEF r
  <2> QED
    BY <2>1, <2>2
<1>5. TypeOK'
  BY <1>1, <1>4, RunsNextFacts DEF IInv, TypeOK
<1>6. NothingOverdue'
  <2>1. \A u \in Times : u < t => u # t /\ u < t + d
    BY <1>3, EndTimeAssumption, MatrixAssumption DEF Times
  <2> QED
    BY <1>2, <1>4, <2>1, RunsNextFacts DEF NothingOverdue
<1>7. StartOnce'
  BY RunsNextFacts DEF StartOnce
<1>8. UnreleasedWait'
  <2> SUFFICES ASSUME NEW u \in Triggers, NEW i \in DOMAIN Targets[u], ~IsReleased(u, i)'
               PROVE  flow'[Targets[u][i]] = "idle" /\ ~OnStack(Targets[u][i])'
    BY DEF UnreleasedWait
  <2>0. ~IsReleased(u, i)
    BY DEF IsReleased
  <2>1. flow[Targets[u][i]] = "idle" /\ Targets[u][i] \in Flows
    BY <2>0, MatrixAssumption DEF IInv, UnreleasedWait
  <2>2. Targets[u][i] # f
    BY <2>1, RunsNextFacts DEF IsTarget
  <2> QED
    BY <1>1, <2>1, <2>2, RunsNextFacts DEF OnStack
<1>9. QueuedOrStarted'
  <2> SUFFICES ASSUME NEW u \in Times, NEW j \in DOMAIN pendingSources'[u],
                      flow'[pendingSources'[u][j]] = "idle"
               PROVE  ~IsTarget(pendingSources'[u][j])
    BY DEF QueuedOrStarted, IsTarget
  <2>1. pendingSources'[u][j] # f
    BY <1>1
  <2>2. PICK i \in DOMAIN pendingSources[u] : pendingSources'[u][j] = pendingSources[u][i]
    BY <1>2, <1>4, <2>1
  <2>3. QueuedOrStarted
    BY DEF IInv
  <2>4. flow[pendingSources[u][i]] = "idle"
    BY <1>1, <2>1, <2>2
  <2> QED
    BY <2>2, <2>3, <2>4 DEF QueuedOrStarted
<1>10. BarrierCounts'
  BY DEF IInv, BarrierCounts
<1> QED
  BY <1>5, <1>6, <1>7, <1>8, <1>9, <1>10 DEF IInv

(* A sender that is done activates its trigger, if it has one.             *)
LEMMA SendingDoneKeepsInv ==
  ASSUME IInv, NEW f \in Flows, NEW t \in Times, SendingDone(f, t)
  PROVE  IInv'
<1> DEFINE u == SendDone[f]
<1>1. RunsNext(f, t) /\ flow[f] = "received" /\ flow' = [flow EXCEPT ![f] = "done"]
      /\ pendingSources' = Erased(pendingSources, t)
  BY DEF SendingDone
<1>2. /\ pendingSources \in [Times -> Seq(Flows)]
      /\ flow \in [Flows -> {"idle", "running", "received", "done"}]
      /\ trigger \in [Triggers -> [done : BOOLEAN, next : Nat, remaining : Nat]]
  BY DEF IInv, TypeOK
<1>3. /\ pendingSources' \in [Times -> Seq(Flows)]
      /\ \A s \in Times : s # t => pendingSources'[s] = pendingSources[s]
      /\ \A s \in Times : \A j \in DOMAIN pendingSources'[s] :
            \E i \in DOMAIN pendingSources[s] : pendingSources'[s][j] = pendingSources[s][i]
  <2>1. pendingSources[t] # <<>>
    BY <1>1, RunsNextFacts
  <2> DEFINE q == Erased(pendingSources, t)
  <2>2. /\ q \in [Times -> Seq(Flows)]
        /\ \A s \in Times : s # t => q[s] = pendingSources[s]
        /\ \A s \in Times : \A j \in DOMAIN q[s] :
              \E i \in DOMAIN pendingSources[s] : q[s][j] = pendingSources[s][i]
    BY <1>2, <2>1, ErasedType
  <2>3. pendingSources' = q
    BY <1>1
  <2> HIDE DEF q
  <2> QED
    BY <2>2, <2>3
<1>4. pendingTriggers = <<>> /\ now' = t
  BY <1>1, RunsNextFacts
<1>5. NothingOverdue'
  <2>1. \A s \in Times : s < t => s # t
    BY DEF Times
  <2> QED
    BY <1>1, <1>3, <1>4, <2>1, RunsNextFacts DEF NothingOverdue
<1>6. QueuedOrStarted'
  <2> SUFFICES ASSUME NEW s \in Times, NEW j \in DOMAIN pendingSources'[s],
                      flow'[pendingSources'[s][j]] = "idle"
               PROVE  ~IsTarget(pendingSources'[s][j])
    BY DEF QueuedOrStarted, IsTarget
  <2>1. PICK i \in DOMAIN pendingSources[s] : pendingSources'[s][j] = pendingSources[s][i]
    BY <1>3
  <2>2. QueuedOrStarted
    BY DEF IInv
  <2>3. flow[pendingSources[s][i]] = "idle"
    BY <1>1, <1>2, <2>1
  <2> QED
    BY <2>1, <2>2, <2>3 DEF QueuedOrStarted
<1>7. \A r \in Triggers : \A i \in DOMAIN Targets[r] :
        ~IsReleased(r, i) => /\ flow'[Targets[r][i]] = "idle"
                             /\ Targets[r][i] \in Flows
  <2> TAKE r \in Triggers
  <2> TAKE i \in DOMAIN Targets[r]
  <2> HAVE ~IsReleased(r, i)
  <2>1. flow[Targets[r][i]] = "idle" /\ Targets[r][i] \in Flows
    BY MatrixAssumption DEF IInv, UnreleasedWait
  <2> QED
    BY <1>1, <1>2, <2>1
<1>8. CASE u = NoTrigger \/ (u \in Triggers /\ Aborts(u))
  <2>1. UNCHANGED <<pendingTriggers, trigger>> /\ aborted' \in BOOLEAN
    BY <1>8, MatrixAssumption DEF SendingDone, Activate, Aborts, IInv, TypeOK
  <2>2. TypeOK'
    BY <1>1, <1>2, <1>3, <1>4, <2>1 DEF IInv, TypeOK
  <2>3. StartOnce'
    BY <1>4, <2>1 DEF StartOnce
  <2>4. UnreleasedWait'
    <3>1. \A r \in Triggers : \A i : IsReleased(r, i)' <=> IsReleased(r, i)
      BY <2>1 DEF IsReleased
    <3>2. \A g : ~OnStack(g)'
      BY <1>4, <2>1 DEF OnStack
    <3> QED
      BY <1>7, <3>1, <3>2 DEF UnreleasedWait
  <2>5. BarrierCounts'
    BY <2>1 DEF IInv, BarrierCounts
  <2> QED
    BY <1>5, <1>6, <2>2, <2>3, <2>4, <2>5 DEF IInv
<1>9. CASE u \in Triggers /\ ~Aborts(u)
  <2>1. /\ pendingTriggers' = TriggersArePending(pendingTriggers, Released(u))
        /\ trigger' = [trigger EXCEPT ![u] = Activated(u)]
        /\ aborted' \in BOOLEAN
    <3>1. u # NoTrigger
      BY <1>9, MatrixAssumption
    <3>2. Activate(u)
      BY <3>1 DEF SendingDone
    <3>3. aborted' \in BOOLEAN
      BY <3>2 DEF Activate, Aborts
    <3> QED
      BY <1>9, <3>2, <3>3 DEF Activate
  <2>2. /\ Released(u) \in Seq(Flows)
        /\ \A k \in DOMAIN Released(u) : \E i \in DOMAIN Targets[u] :
              /\ Released(u)[k] = Targets[u][i]
              /\ ~IsReleased(u, i)
        /\ \A k, m \in DOMAIN Released(u) : Released(u)[k] = Released(u)[m] => k = m
    BY <1>9, ReleasedTargets DEF IInv
  <2>3. pendingTriggers' = Released(u)
    BY <1>4, <2>1, <2>2 DEF TriggersArePending
  <2>4. /\ trigger' \in [Triggers -> [done : BOOLEAN, next : Nat, remaining : Nat]]
        /\ \A r \in Triggers : \A i \in DOMAIN Targets[r] :
              ~IsReleased(r, i)' => ~IsReleased(r, i)
        /\ \A i \in DOMAIN Targets[u] : ~IsReleased(u, i)' =>
              \A k \in DOMAIN Released(u) : Released(u)[k] # Targets[u][i]
        /\ BarrierCounts'
    BY <1>9, <2>1, ActivatedReleases DEF IInv
  <2>5. TypeOK'
    BY <1>1, <1>2, <1>3, <1>4, <2>1, <2>2, <2>3, <2>4 DEF IInv, TypeOK
  <2>6. StartOnce'
    BY <1>7, <1>9, <2>2, <2>3 DEF StartOnce
  <2>7. UnreleasedWait'
    <3> SUFFICES ASSUME NEW r \in Triggers, NEW i \in DOMAIN Targets[r], ~IsReleased(r, i)'
                 PROVE  flow'[Targets[r][i]] = "idle" /\ ~OnStack(Targets[r][i])'
      BY DEF UnreleasedWait
    <3>1. flow'[Targets[r][i]] = "idle"
      BY <1>7, <2>4
    <3>2. CASE r = u
      BY <2>3, <2>4, <3>1, <3>2 DEF OnStack
    <3>3. CASE r # u
      <4>1. \A j \in DOMAIN Targets[u] : Targets[u][j] # Targets[r][i]
        BY <1>9, <3>3, TargetsAssumption
      <4> QED
        BY <2>2, <2>3, <3>1, <4>1 DEF OnStack
    <3> QED
      BY <3>2, <3>3
  <2> QED
    BY <1>5, <1>6, <2>4, <2>5, <2>6, <2>7 DEF IInv
<1> QED
  BY <1>8, <1>9, MatrixAssumption

LEMMA NextKeepsInv == IInv /\ [Next]_vars => IInv'
<1> SUFFICES ASSUME IInv, [Next]_vars PROVE IInv'
  OBVIOUS
<1>1. CASE RunTrigger
  BY <1>1, RunTriggerKeepsInv
<1>2. ASSUME NEW f \in Flows, NEW t \in Times, StartFlow(f, t) PROVE IInv'
  BY <1>2, RescheduleKeepsInv DEF StartFlow
<1>3. ASSUME NEW f \in Flows, NEW t \in Times, Received(f, t) PROVE IInv'
  BY <1>3, RescheduleKeepsInv DEF Received
<1>4. ASSUME NEW f \in Flows, NEW t \in Times, SendingDone(f, t) PROVE IInv'
  BY <1>4, SendingDoneKeepsInv
<1>5. CASE UNCHANGED vars
  <2>1. TypeOK'
    BY <1>5 DEF vars, IInv, TypeOK
  <2>2. NothingOverdue' /\ StartOnce'
    BY <1>5 DEF vars, IInv, NothingOverdue, StartOnce
  <2>3. UnreleasedWait'
    BY <1>5 DEF vars, IInv, UnreleasedWait, OnStack, IsReleased
  <2>4. QueuedOrStarted'
    BY <1>5 DEF vars, IInv, QueuedOrStarted, IsTarget
  <2>5. BarrierCounts'
    BY <1>5 DEF vars, IInv, BarrierCounts
  <2> QED
    BY <2>1, <2>2, <2>3, <2>4, <2>5 DEF IInv
<1> QED
  BY <1>1, <1>2, <1>3, <1>4, <1>5 DEF Next

THEOREM InvCorrect == Spec => []IInv
BY InitInv, NextKeepsInv, PTL DEF Spec
-----------------------------------------------------------------------------
(* The state of every job is well typed.                                   *)
THEOREM TypeCorrect == Spec => []TypeOK
<1>1. IInv => TypeOK
  BY DEF IInv
<1> QED
  BY <1>1, InvCorrect, PTL

(* For every job and every delay, no event is left behind in the past: the *)
(* assertion of EventList::doNextEvent cannot fail.                        *)
THEOREM NothingOverdueCorrect == Spec => []NothingOverdue
<1>1. IInv => NothingOverdue
  BY DEF IInv
<1> QED
  BY <1>1, InvCorrect, PTL

(* For every job, no trigger ever starts a flow that has started, or puts  *)
(* one on the stack twice: a flow is started at most once.                 *)
THEOREM StartOnceCorrect == Spec => []StartOnce
<1>1. IInv => StartOnce
  BY DEF IInv
<1> QED
  BY <1>1, InvCorrect, PTL

(* Time never goes back.                                                   *)
THEOREM TimeCorrect == Spec => [][now <= now']_vars
<1>1. IInv /\ [Next]_vars => [now <= now']_vars
  <2> SUFFICES ASSUME IInv, Next PROVE now <= now'
    OBVIOUS
  <2>1. now \in Times /\ \A s \in Times : s \in Int
    BY EndTimeAssumption DEF IInv, TypeOK, Times
  <2>2. ASSUME NEW f \in Flows, NEW t \in Times, RunsNext(f, t) PROVE now <= now'
    <3>1. pendingSources[t] # <<>> /\ now' = t
      BY <2>2 DEF RunsNext, IsNextEventTime
    <3> QED
      BY <2>1, <3>1 DEF IInv, NothingOverdue
  <2>3. CASE RunTrigger
    BY <2>1, <2>3 DEF RunTrigger
  <2> QED
    BY <2>2, <2>3 DEF Next, StartFlow, Received, SendingDone
<1> QED
  BY <1>1, InvCorrect, PTL DEF Spec
-----------------------------------------------------------------------------
(***************************************************************************)
(* Second part: what is released is exactly what the finished flows entitle*)
(* a trigger to.  The counters of a trigger count its finished feeders, up *)
(* to the point where they stop; and what is released does go.             *)
(***************************************************************************)
DoneFeeders(t) == {f \in Flows : SendDone[f] = t /\ flow[f] = "done"}

Tally(t, c, n) ==
  CASE Kind[t] = "SINGLE_SHOT" -> c.done <=> n >= 1
    [] Kind[t] = "MULTI_SHOT"  -> c.next = IF n < Len(Targets[t]) THEN n ELSE Len(Targets[t])
    [] Kind[t] = "BARRIER"     -> c.remaining = IF n < Count[t] THEN Count[t] - n ELSE 0

Counted ==
  \A t \in Triggers :
     /\ IsFiniteSet(DoneFeeders(t))
     /\ Targets[t] # <<>> => Tally(t, trigger[t], Cardinality(DoneFeeders(t)))

ReleasedGo ==
  \A t \in Triggers : \A i \in DOMAIN Targets[t] :
     IsReleased(t, i) => flow[Targets[t][i]] # "idle" \/ OnStack(Targets[t][i])

CInv == IInv /\ ReleasedGo /\ Counted

(* One more activation, whether its assertions hold or not: the counters   *)
(* of a trigger that has targets follow.                                   *)
LEMMA TallyUp ==
  ASSUME TypeOK, NEW t \in Triggers, NEW n \in Nat, Targets[t] # <<>>,
         Tally(t, trigger[t], n)
  PROVE  Tally(t, IF Aborts(t) THEN trigger[t] ELSE Activated(t), n + 1)
<1>1. /\ Targets[t] \in Seq(Flows) /\ Len(Targets[t]) \in Nat /\ Kind[t] \in Kinds
      /\ Count[t] \in Nat
  BY MatrixAssumption
<1>2. trigger[t] \in [done : BOOLEAN, next : Nat, remaining : Nat]
  BY DEF TypeOK
<1>3. CASE Kind[t] = "SINGLE_SHOT"
  <2>1. CASE Aborts(t)
    <3>1. trigger[t].done
      BY <1>3, <2>1 DEF Aborts
    <3> QED
      BY <1>3, <2>1, <3>1 DEF Tally
  <2>2. CASE ~Aborts(t)
    <3>1. Activated(t) = [trigger[t] EXCEPT !.done = TRUE]
      BY <1>3 DEF Activated
    <3>2. Activated(t).done
      BY <1>2, <3>1
    <3> QED
      BY <1>3, <2>2, <3>2 DEF Tally
  <2> QED
    BY <2>1, <2>2
<1>4. CASE Kind[t] = "MULTI_SHOT"
  <2>1. ~Aborts(t)
    BY <1>4 DEF Aborts
  <2>2. Activated(t).next = IF trigger[t].next < Len(Targets[t])
                            THEN trigger[t].next + 1 ELSE trigger[t].next
    BY <1>2, <1>4 DEF Activated
  <2>3. trigger[t].next = IF n < Len(Targets[t]) THEN n ELSE Len(Targets[t])
    BY <1>4 DEF Tally
  <2>4. Activated(t).next = IF n + 1 < Len(Targets[t]) THEN n + 1 ELSE Len(Targets[t])
    BY <1>1, <2>2, <2>3
  <2> QED
    BY <1>4, <2>1, <2>4 DEF Tally
<1>5. CASE Kind[t] = "BARRIER"
  <2>1. trigger[t].remaining = IF n < Count[t] THEN Count[t] - n ELSE 0
    BY <1>5 DEF Tally
  <2>2. CASE Aborts(t)
    <3>1. trigger[t].remaining = 0
      BY <1>5, <2>2 DEF Aborts
    <3>2. trigger[t].remaining = IF n + 1 < Count[t] THEN Count[t] - (n + 1) ELSE 0
      BY <1>1, <2>1, <3>1
    <3> QED
      BY <1>5, <2>2, <3>2 DEF Tally
  <2>3. CASE ~Aborts(t)
    <3>1. trigger[t].remaining # 0
      BY <1>5, <2>3 DEF Aborts
    <3>2. Activated(t).remaining = trigger[t].remaining - 1
      BY <1>2, <1>5 DEF Activated
    <3>3. Activated(t).remaining = IF n + 1 < Count[t] THEN Count[t] - (n + 1) ELSE 0
      BY <1>1, <2>1, <3>1, <3>2
    <3> QED
      BY <1>5, <2>3, <3>3 DEF Tally
  <2> QED
    BY <2>2, <2>3
<1> QED
  BY <1>1, <1>3, <1>4, <1>5 DEF Kinds

(* An activation counts as released only what it puts on the stack.        *)
LEMMA ActivatedOnly ==
  ASSUME TypeOK, NEW t \in Triggers, ~Aborts(t),
         trigger' = [trigger EXCEPT ![t] = Activated(t)]
  PROVE  \A u \in Triggers : \A i \in DOMAIN Targets[u] : IsReleased(u, i)' =>
            \/ IsReleased(u, i)
            \/ u = t /\ \E k \in DOMAIN Released(t) : Released(t)[k] = Targets[u][i]
<1>1. Targets[t] \in Seq(Flows) /\ Len(Targets[t]) \in Nat /\ Kind[t] \in Kinds
  BY MatrixAssumption
<1>2. trigger[t] \in [done : BOOLEAN, next : Nat, remaining : Nat]
  BY DEF TypeOK
<1>3. trigger'[t] = Activated(t) /\ \A u \in Triggers \ {t} : trigger'[u] = trigger[u]
  BY DEF TypeOK
<1>4. \A u \in Triggers \ {t} : \A i : IsReleased(u, i)' <=> IsReleased(u, i)
  BY <1>3 DEF IsReleased
<1>5. ASSUME NEW i \in DOMAIN Targets[t], IsReleased(t, i)', ~IsReleased(t, i)
      PROVE  \E k \in DOMAIN Released(t) : Released(t)[k] = Targets[t][i]
  <2>1. CASE Kind[t] = "SINGLE_SHOT"
    BY <1>1, <2>1 DEF Released
  <2>2. CASE Kind[t] = "MULTI_SHOT"
    <3>1. Activated(t).next = IF trigger[t].next < Len(Targets[t])
                              THEN trigger[t].next + 1 ELSE trigger[t].next
      BY <1>2, <2>2 DEF Activated
    <3>2. i <= Activated(t).next /\ ~(i <= trigger[t].next)
      BY <1>3, <1>5, <2>2 DEF IsReleased
    <3>3. trigger[t].next < Len(Targets[t]) /\ i = trigger[t].next + 1
      BY <1>1, <1>2, <3>1, <3>2
    <3>4. Released(t) = <<Targets[t][trigger[t].next + 1]>>
      BY <2>2, <3>3 DEF Released
    <3> QED
      BY <3>3, <3>4
  <2>3. CASE Kind[t] = "BARRIER"
    <3>1. trigger[t].remaining # 0
      BY <2>3, <1>5 DEF Aborts
    <3>2. Activated(t).remaining = trigger[t].remaining - 1
      BY <1>2, <2>3 DEF Activated
    <3>3. trigger[t].remaining = 1
      BY <1>2, <1>3, <1>5, <2>3, <3>2 DEF IsReleased
    <3>4. Released(t) = Targets[t]
      BY <2>3, <3>3 DEF Released
    <3> QED
      BY <1>1, <3>4
  <2> QED
    BY <1>1, <2>1, <2>2, <2>3 DEF Kinds
<1> QED
  BY <1>4, <1>5

(* A flow that neither was nor is done leaves the counts alone.            *)
LEMMA StartKeepsCounts ==
  ASSUME TypeOK, Counted, NEW f \in Flows, flow[f] # "done",
         NEW s \in {"running", "received"}, flow' = [flow EXCEPT ![f] = s],
         trigger' = trigger
  PROVE  Counted'
<1>1. \A g \in Flows : flow'[g] = "done" <=> flow[g] = "done"
  BY DEF TypeOK
<1>2. \A t \in Triggers : DoneFeeders(t)' = DoneFeeders(t)
  BY <1>1 DEF DoneFeeders
<1> QED
  BY <1>2 DEF Counted

LEMMA InitCInv == Init => CInv
<1> SUFFICES ASSUME Init PROVE CInv
  OBVIOUS
<1>1. \A t \in Triggers : DoneFeeders(t) = {}
  BY DEF Init, DoneFeeders
<1>2. \A t \in Triggers : Kind[t] \in Kinds /\ Count[t] \in Nat /\ Len(Targets[t]) \in Nat
  BY MatrixAssumption
<1>3. ASSUME NEW t \in Triggers PROVE Tally(t, trigger[t], 0)
  <2>1. ~trigger[t].done /\ trigger[t].next = 0 /\ trigger[t].remaining = Count[t]
    BY DEF Init, NewTrigger
  <2>2. Kind[t] \in Kinds /\ Count[t] \in Nat /\ Len(Targets[t]) \in Nat
    BY <1>2
  <2>3. CASE Kind[t] = "SINGLE_SHOT"
    BY <2>1, <2>3 DEF Tally
  <2>4. CASE Kind[t] = "MULTI_SHOT"
    BY <2>1, <2>2, <2>4 DEF Tally
  <2>5. CASE Kind[t] = "BARRIER"
    BY <2>1, <2>2, <2>5 DEF Tally
  <2> QED
    BY <2>2, <2>3, <2>4, <2>5 DEF Kinds
<1>4. Counted
  BY <1>1, <1>3, FS_EmptySet DEF Counted
<1>5. ReleasedGo
  <2> SUFFICES ASSUME NEW t \in Triggers, NEW i \in DOMAIN Targets[t], IsReleased(t, i)
               PROVE  FALSE
    BY DEF ReleasedGo
  <2>1. ~trigger[t].done /\ trigger[t].next = 0 /\ trigger[t].remaining = Count[t]
    BY DEF Init, NewTrigger
  <2>2. i \in Nat \ {0}
    BY MatrixAssumption
  <2>3. Kind[t] \in Kinds /\ Count[t] \in Nat
    BY <1>2
  <2>4. CASE Kind[t] = "SINGLE_SHOT"
    BY <2>1, <2>4 DEF IsReleased
  <2>5. CASE Kind[t] = "MULTI_SHOT"
    BY <2>1, <2>2, <2>5 DEF IsReleased
  <2>6. CASE Kind[t] = "BARRIER"
    BY <2>1, <2>3, <2>6 DEF IsReleased
  <2> QED
    BY <2>3, <2>4, <2>5, <2>6 DEF Kinds
<1> QED
  BY <1>4, <1>5, InitInv DEF CInv

LEMMA RunTriggerKeepsCInv == CInv /\ RunTrigger => CInv'
<1> SUFFICES ASSUME CInv, RunTrigger PROVE CInv'
  OBVIOUS
<1> DEFINE n == Len(pendingTriggers)
           f == NextTrigger(pendingTriggers)
<1>0. IInv /\ TypeOK /\ StartOnce
  BY DEF CInv, IInv
<1>1. /\ pendingTriggers \in Seq(Flows) /\ n \in Nat \ {0} /\ f = pendingTriggers[n]
      /\ f \in Flows
      /\ flow \in [Flows -> {"idle", "running", "received", "done"}]
  BY <1>0 DEF TypeOK, RunTrigger, NextTrigger
<1>2. flow' = [flow EXCEPT ![f] = "running"] /\ trigger' = trigger
  BY DEF RunTrigger
<1>3. /\ DOMAIN pendingTriggers' = 1 .. n - 1
      /\ \A k \in 1 .. n - 1 : pendingTriggers'[k] = pendingTriggers[k]
      /\ DOMAIN pendingTriggers = 1 .. n
  BY <1>1 DEF RunTrigger, OtherTriggers
<1>4. flow[f] = "idle"
  BY <1>0, <1>1, <1>3 DEF StartOnce
<1>5. Counted'
  BY <1>0, <1>1, <1>2, <1>4, StartKeepsCounts DEF CInv
<1>6. ReleasedGo'
  <2> SUFFICES ASSUME NEW t \in Triggers, NEW i \in DOMAIN Targets[t], IsReleased(t, i)'
               PROVE  flow'[Targets[t][i]] # "idle" \/ OnStack(Targets[t][i])'
    BY DEF ReleasedGo
  <2>1. IsReleased(t, i)
    BY <1>2 DEF IsReleased
  <2>2. flow[Targets[t][i]] # "idle" \/ OnStack(Targets[t][i])
    BY <2>1 DEF CInv, ReleasedGo
  <2>3. Targets[t][i] \in Flows
    BY MatrixAssumption
  <2>4. CASE flow[Targets[t][i]] # "idle"
    BY <1>1, <1>2, <2>3, <2>4
  <2>5. CASE OnStack(Targets[t][i])
    <3>1. PICK k \in 1 .. n : pendingTriggers[k] = Targets[t][i]
      BY <1>3, <2>5 DEF OnStack
    <3>2. CASE k = n
      BY <1>1, <1>2, <2>3, <3>1, <3>2
    <3>3. CASE k # n
      <4>1. k \in 1 .. n - 1
        BY <1>1, <3>3
      <4> QED
        BY <1>3, <3>1, <4>1 DEF OnStack
    <3> QED
      BY <3>2, <3>3
  <2> QED
    BY <2>2, <2>4, <2>5
<1> QED
  BY <1>0, <1>5, <1>6, RunTriggerKeepsInv DEF CInv

LEMMA RescheduleKeepsCInv ==
  ASSUME CInv, NEW f \in Flows, flow[f] # "done",
         NEW s \in {"running", "received"}, flow' = [flow EXCEPT ![f] = s],
         UNCHANGED <<pendingTriggers, trigger>>
  PROVE  ReleasedGo' /\ Counted'
<1>0. TypeOK
  BY DEF CInv, IInv
<1>1. flow \in [Flows -> {"idle", "running", "received", "done"}]
  BY <1>0 DEF TypeOK
<1>2. Counted'
  BY <1>0, StartKeepsCounts DEF CInv
<1>3. ReleasedGo'
  <2> SUFFICES ASSUME NEW t \in Triggers, NEW i \in DOMAIN Targets[t], IsReleased(t, i)'
               PROVE  flow'[Targets[t][i]] # "idle" \/ OnStack(Targets[t][i])'
    BY DEF ReleasedGo
  <2>1. IsReleased(t, i)
    BY DEF IsReleased
  <2>2. flow[Targets[t][i]] # "idle" \/ OnStack(Targets[t][i])
    BY <2>1 DEF CInv, ReleasedGo
  <2>3. Targets[t][i] \in Flows
    BY MatrixAssumption
  <2>4. CASE flow[Targets[t][i]] # "idle"
    BY <1>1, <2>3, <2>4
  <2>5. CASE OnStack(Targets[t][i])
    BY <2>5 DEF OnStack
  <2> QED
    BY <2>2, <2>4, <2>5
<1> QED
  BY <1>2, <1>3

(* A sender that is done is one more finished feeder of its trigger, and   *)
(* activates it once.                                                      *)
LEMMA SendingDoneKeepsCInv ==
  ASSUME CInv, NEW f \in Flows, NEW t \in Times, SendingDone(f, t)
  PROVE  CInv'
<1> DEFINE u == SendDone[f]
<1>0. IInv /\ TypeOK /\ ReleasedGo /\ Counted
  BY DEF CInv, IInv
<1>1. /\ RunsNext(f, t) /\ flow[f] = "received" /\ flow' = [flow EXCEPT ![f] = "done"]
      /\ flow \in [Flows -> {"idle", "running", "received", "done"}]
      /\ trigger \in [Triggers -> [done : BOOLEAN, next : Nat, remaining : Nat]]
  BY <1>0 DEF SendingDone, TypeOK
<1>2. pendingTriggers = <<>>
  BY <1>1 DEF RunsNext
<1>3. u = NoTrigger \/ u \in Triggers
  BY MatrixAssumption
<1>4. \A r \in Triggers \ {u} : trigger'[r] = trigger[r]
  BY <1>1, <1>3 DEF SendingDone, Activate
<1>5. u \in Triggers => trigger'[u] = IF Aborts(u) THEN trigger[u] ELSE Activated(u)
  <2> SUFFICES ASSUME u \in Triggers
               PROVE  trigger'[u] = IF Aborts(u) THEN trigger[u] ELSE Activated(u)
    OBVIOUS
  <2>1. u # NoTrigger
    BY MatrixAssumption
  <2>2. trigger' = IF Aborts(u) THEN trigger ELSE [trigger EXCEPT ![u] = Activated(u)]
    BY <2>1 DEF SendingDone, Activate
  <2> QED
    BY <1>1, <2>2
<1>6. \A g \in Flows : flow'[g] = "done" <=> flow[g] = "done" \/ g = f
  BY <1>1
<1>7. Counted'
  <2> SUFFICES ASSUME NEW r \in Triggers
               PROVE  /\ IsFiniteSet(DoneFeeders(r)')
                      /\ Targets[r] # <<>> => Tally(r, trigger'[r], Cardinality(DoneFeeders(r)'))
    BY DEF Counted, Tally
  <2>1. /\ IsFiniteSet(DoneFeeders(r))
        /\ Targets[r] # <<>> => Tally(r, trigger[r], Cardinality(DoneFeeders(r)))
    BY <1>0 DEF Counted
  <2>2. CASE r # u
    <3>1. DoneFeeders(r)' = DoneFeeders(r)
      BY <1>6, <2>2 DEF DoneFeeders
    <3> QED
      BY <1>4, <2>1, <2>2, <3>1
  <2>3. CASE r = u
    <3>1. DoneFeeders(r)' = DoneFeeders(r) \cup {f} /\ f \notin DoneFeeders(r)
      BY <1>1, <1>6, <2>3 DEF DoneFeeders
    <3>2. /\ IsFiniteSet(DoneFeeders(r)')
          /\ Cardinality(DoneFeeders(r)') = Cardinality(DoneFeeders(r)) + 1
      BY <2>1, <3>1, FS_AddElement
    <3>3. Cardinality(DoneFeeders(r)) \in Nat
      BY <2>1, FS_CardinalityType
    <3>4. trigger'[r] = IF Aborts(r) THEN trigger[r] ELSE Activated(r)
      BY <1>5, <2>3
    <3>5. ASSUME Targets[r] # <<>>
          PROVE  Tally(r, IF Aborts(r) THEN trigger[r] ELSE Activated(r),
                       Cardinality(DoneFeeders(r)) + 1)
      BY <1>0, <2>1, <3>3, <3>5, TallyUp
    <3> QED
      BY <3>2, <3>4, <3>5
  <2> QED
    BY <2>2, <2>3
<1>8. ReleasedGo'
  <2> SUFFICES ASSUME NEW r \in Triggers, NEW i \in DOMAIN Targets[r], IsReleased(r, i)'
               PROVE  flow'[Targets[r][i]] # "idle" \/ OnStack(Targets[r][i])'
    BY DEF ReleasedGo
  <2>1. Targets[r][i] \in Flows
    BY MatrixAssumption
  <2>2. CASE IsReleased(r, i)
    <3>1. ~OnStack(Targets[r][i])
      BY <1>2 DEF OnStack
    <3>2. flow[Targets[r][i]] # "idle"
      BY <1>0, <2>2, <3>1 DEF ReleasedGo
    <3> QED
      BY <1>1, <2>1, <3>2
  <2>3. CASE ~IsReleased(r, i)
    <3>1. trigger'[r] # trigger[r]
      BY <2>3 DEF IsReleased
    <3>2. r = u /\ u \in Triggers /\ ~Aborts(u)
      BY <1>4, <1>5, <3>1
    <3>3. u # NoTrigger
      BY <3>2, MatrixAssumption
    <3>4. /\ trigger' = [trigger EXCEPT ![u] = Activated(u)]
          /\ pendingTriggers' = TriggersArePending(pendingTriggers, Released(u))
      BY <3>2, <3>3 DEF SendingDone, Activate
    <3>5. \E k \in DOMAIN Released(u) : Released(u)[k] = Targets[r][i]
      BY <1>0, <2>3, <3>2, <3>4, ActivatedOnly
    <3>6. Released(u) \in Seq(Flows)
      BY <1>0, <3>2, ReleasedTargets
    <3>7. pendingTriggers' = Released(u)
      BY <1>2, <3>4, <3>6 DEF TriggersArePending
    <3> QED
      BY <3>5, <3>7 DEF OnStack
  <2> QED
    BY <2>2, <2>3
<1> QED
  BY <1>0, <1>7, <1>8, SendingDoneKeepsInv DEF CInv

LEMMA NextKeepsCInv == CInv /\ [Next]_vars => CInv'
<1> SUFFICES ASSUME CInv, [Next]_vars PROVE CInv'
  OBVIOUS
<1>0. IInv'
  BY NextKeepsInv DEF CInv
<1>1. CASE RunTrigger
  BY <1>1, RunTriggerKeepsCInv
<1>2. ASSUME NEW f \in Flows, NEW t \in Times, StartFlow(f, t) PROVE CInv'
  <2>1. flow[f] # "done" /\ flow' = [flow EXCEPT ![f] = "running"]
        /\ UNCHANGED <<pendingTriggers, trigger>>
    BY <1>2 DEF StartFlow
  <2> QED
    BY <1>0, <2>1, RescheduleKeepsCInv DEF CInv
<1>3. ASSUME NEW f \in Flows, NEW t \in Times, Received(f, t) PROVE CInv'
  <2>1. flow[f] # "done" /\ flow' = [flow EXCEPT ![f] = "received"]
        /\ UNCHANGED <<pendingTriggers, trigger>>
    BY <1>3 DEF Received
  <2> QED
    BY <1>0, <2>1, RescheduleKeepsCInv DEF CInv
<1>4. ASSUME NEW f \in Flows, NEW t \in Times, SendingDone(f, t) PROVE CInv'
  BY <1>4, SendingDoneKeepsCInv
<1>5. CASE UNCHANGED vars
  <2>1. ReleasedGo'
    BY <1>5 DEF vars, CInv, ReleasedGo, IsReleased, OnStack
  <2>2. \A t \in Triggers : DoneFeeders(t)' = DoneFeeders(t)
    BY <1>5 DEF vars, DoneFeeders
  <2>3. Counted'
    BY <1>5, <2>2 DEF vars, CInv, Counted
  <2> QED
    BY <1>0, <2>1, <2>3 DEF CInv
<1> QED
  BY <1>1, <1>2, <1>3, <1>4, <1>5 DEF Next

THEOREM CInvCorrect == Spec => []CInv
BY InitCInv, NextKeepsCInv, PTL DEF Spec
-----------------------------------------------------------------------------
(* For every job, well or badly fed, a trigger releases exactly the targets*)
(* its finished flows entitle it to: none early, none forgotten.           *)
THEOREM InTurnCorrect == Spec => []InTurn
<1>1. CInv => InTurn
  <2> SUFFICES ASSUME CInv, NEW t \in Triggers, NEW i \in DOMAIN Targets[t]
               PROVE  flow[Targets[t][i]] # "idle" \/ OnStack(Targets[t][i])
                        <=> i <= Entitled(t)
    BY DEF InTurn, OnStack
  <2>1. flow[Targets[t][i]] # "idle" \/ OnStack(Targets[t][i]) <=> IsReleased(t, i)
    BY DEF CInv, IInv, UnreleasedWait, ReleasedGo
  <2>2. /\ Len(Targets[t]) \in Nat /\ i \in 1 .. Len(Targets[t]) /\ Targets[t] # <<>>
        /\ Kind[t] \in Kinds /\ Count[t] \in Nat
    BY MatrixAssumption
  <2>3. /\ IsFiniteSet(DoneFeeders(t))
        /\ Tally(t, trigger[t], Cardinality(DoneFeeders(t)))
    BY <2>2 DEF CInv, Counted
  <2>4. Finished(t) \in Nat /\ Tally(t, trigger[t], Finished(t))
    BY <2>3, FS_CardinalityType DEF Finished, DoneFeeders
  <2> HIDE DEF Finished
  <2>5. IsReleased(t, i) <=> i <= Entitled(t)
    <3>1. CASE Kind[t] = "SINGLE_SHOT"
      <4>1. IsReleased(t, i) <=> Finished(t) >= 1
        BY <2>4, <3>1 DEF IsReleased, Tally
      <4>2. Entitled(t) = IF Finished(t) >= 1 THEN Len(Targets[t]) ELSE 0
        BY <3>1 DEF Entitled
      <4> QED
        BY <2>2, <2>4, <4>1, <4>2
    <3>2. CASE Kind[t] = "MULTI_SHOT"
      <4>1. IsReleased(t, i) <=> i <= trigger[t].next
        BY <3>2 DEF IsReleased
      <4>2. trigger[t].next = Entitled(t)
        BY <2>4, <3>2 DEF Entitled, Tally
      <4> QED
        BY <4>1, <4>2
    <3>3. CASE Kind[t] = "BARRIER"
      <4>1. IsReleased(t, i) <=> Count[t] > 0 /\ trigger[t].remaining = 0
        BY <3>3 DEF IsReleased
      <4>2. trigger[t].remaining = IF Finished(t) < Count[t] THEN Count[t] - Finished(t) ELSE 0
        BY <2>4, <3>3 DEF Tally
      <4>3. Entitled(t) = IF Count[t] > 0 /\ Finished(t) >= Count[t] THEN Len(Targets[t]) ELSE 0
        BY <3>3 DEF Entitled
      <4> QED
        BY <2>2, <2>4, <4>1, <4>2, <4>3
    <3> QED
      BY <2>2, <3>1, <3>2, <3>3 DEF Kinds
  <2> QED
    BY <2>1, <2>5
<1> QED
  BY <1>1, CInvCorrect, PTL

(* A flow that is still to finish finds its trigger waiting for it.        *)
LEMMA FedDoesNotAbort ==
  ASSUME Fed, CInv, NEW f \in Flows, flow[f] # "done", SendDone[f] \in Triggers
  PROVE  ~Aborts(SendDone[f])
<1> DEFINE t == SendDone[f]
           n == Cardinality(DoneFeeders(t))
<1>1. f \in Feeders(t) /\ f \notin DoneFeeders(t) /\ DoneFeeders(t) \subseteq Feeders(t)
  BY DEF Feeders, DoneFeeders
<1>2. IsFiniteSet(DoneFeeders(t)) /\ n \in Nat /\ Count[t] \in Nat
  BY MatrixAssumption, FS_CardinalityType DEF CInv, Counted
<1>3. Kind[t] # "MULTI_SHOT" => Targets[t] # <<>> /\ Tally(t, trigger[t], n)
  BY <1>1 DEF CInv, Counted, Fed
<1> HIDE DEF n
<1>4. CASE Kind[t] = "SINGLE_SHOT"
  <2>1. DoneFeeders(t) = {}
    BY <1>1, <1>4 DEF Fed
  <2>2. n = 0
    BY <2>1, FS_EmptySet DEF n
  <2>3. ~trigger[t].done
    BY <1>3, <1>4, <2>2 DEF Tally
  <2> QED
    BY <1>3, <1>4, <2>3 DEF Aborts
<1>5. CASE Kind[t] = "BARRIER"
  <2>1. IsFiniteSet(Feeders(t)) /\ Cardinality(Feeders(t)) <= Count[t]
    BY <1>5 DEF Fed
  <2>2. /\ n <= Cardinality(Feeders(t))
        /\ Cardinality(Feeders(t)) \in Nat
        /\ n # Cardinality(Feeders(t))
    BY <1>1, <2>1, FS_Subset, FS_CardinalityType DEF n
  <2>3. n < Count[t]
    BY <1>2, <2>1, <2>2
  <2>4. trigger[t].remaining = Count[t] - n
    BY <1>3, <1>5, <2>3 DEF Tally
  <2>5. trigger[t].remaining # 0
    BY <1>2, <2>3, <2>4
  <2> QED
    BY <1>3, <1>5, <2>5 DEF Aborts
<1> QED
  BY <1>4, <1>5 DEF Aborts

(* For every job that is fed as its triggers expect, however long its      *)
(* transfers take and however they interleave, no assertion of a trigger   *)
(* ever fails.                                                             *)
THEOREM NoAbortCorrect ==
  ASSUME Fed
  PROVE  Spec => []NoAbort
<1>1. Init => NoAbort
  BY DEF Init, NoAbort
<1>2. CInv /\ NoAbort /\ [Next]_vars => NoAbort'
  <2> SUFFICES ASSUME CInv, ~aborted, [Next]_vars PROVE ~aborted'
    BY DEF NoAbort
  <2>1. CASE RunTrigger
    BY <2>1 DEF RunTrigger
  <2>2. ASSUME NEW f \in Flows, NEW t \in Times, StartFlow(f, t) \/ Received(f, t)
        PROVE  ~aborted'
    BY <2>2 DEF StartFlow, Received
  <2>3. ASSUME NEW f \in Flows, NEW t \in Times, SendingDone(f, t) PROVE ~aborted'
    <3>1. flow[f] # "done"
      BY <2>3 DEF SendingDone
    <3>2. CASE SendDone[f] = NoTrigger
      BY <2>3, <3>2 DEF SendingDone
    <3>3. CASE SendDone[f] # NoTrigger
      <4>1. SendDone[f] \in Triggers
        BY <3>3, MatrixAssumption
      <4>2. ~Aborts(SendDone[f])
        BY <3>1, <4>1, FedDoesNotAbort
      <4> QED
        BY <2>3, <3>3, <4>2 DEF SendingDone, Activate
    <3> QED
      BY <3>2, <3>3
  <2>4. CASE UNCHANGED vars
    BY <2>4 DEF vars
  <2> QED
    BY <2>1, <2>2, <2>3, <2>4 DEF Next
<1> QED
  BY <1>1, <1>2, CInvCorrect, PTL DEF Spec
=============================================================================
