--------------------------- MODULE PfcHostProofs ---------------------------
(***************************************************************************)
(* The network card of a host for any hosts, egress queues, thresholds,    *)
(* packet times and delays: what a card keeps through every order of       *)
(* packets, completions, PAUSE and RESUME, until a RESUME finds it         *)
(* transmitting.  Lemmas about its fair queues are in FairPullProofs.      *)
(***************************************************************************)
EXTENDS PfcHost, FiniteSetTheorems, FunctionTheorems, SequenceTheorems,
        WellFoundedInduction, TLAPS

Fair == INSTANCE FairPullProofs
            WITH FlowIds <- {}, Depth <- 0, fq <- Card!EmptyFair, passed <- <<>>

(***************************************************************************)
(* One card                                                                *)
(***************************************************************************)

FlowsOf == {k.flow : k \in Kinds}
Packets(p) == {k \in Kinds : k.prio = p}

Nics == [queue : [Prios -> Fair!Fair(FlowsOf, Kinds)], size : [Prios -> Int],
         sending : Kinds \cup {Card!NULL}, state_send : SendStates,
         service : Seq(0 .. TxTime), failed : BOOLEAN]

(* What a card counts for a priority is what it holds of it. *)
Counted(n, p) ==
    /\ Fair!WellFormed(n.queue[p], FlowsOf, Packets(p))
    /\ n.size[p] = n.queue[p].pull_count
           + IF n.sending # Card!NULL /\ n.sending.prio = p THEN 1 ELSE 0

Sound(n) ==
    /\ n \in Nics /\ ~n.failed
    /\ \A p \in Prios : Counted(n, p)
    /\ Len(n.service) <= 1
    /\ n.service # <<>> <=> n.sending # Card!NULL

Holds(n) == \E p \in Prios : n.size[p] > 0

(* PAUSE_RECEIVED promises nothing: a second PAUSE leaves a PAUSED card    *)
(* that holds packets in that state with none in flight.                   *)
CardOK(n) ==
    /\ Sound(n)
    /\ n.state_send = "READY" /\ Holds(n) => n.service # <<>>
    /\ n.state_send = "PAUSED" => n.service = <<>>

(* A card's fair queue is a queue of FairPullProofs. *)
LEMMA SameQueue ==
    /\ Fair!FlowAssumption /\ Card!EmptyFair = Fair!EmptyFair
    /\ \A q : /\ Card!Served(q) = Fair!Served(q) /\ Card!Dequeue(q) = Fair!Dequeue(q)
    /\ \A q, f, p : Card!Enqueue(q, f, p) = Fair!Enqueue(q, f, p)
  <1>1. \A S : Card!Min(S) = Fair!Min(S)
    BY DEF Card!Min, Fair!Min
  <1>2. \A q : Card!Flows(q) = Fair!Flows(q) /\ Card!Backlogged(q) = Fair!Backlogged(q)
    BY DEF Card!Flows, Fair!Flows, Card!Backlogged, Fair!Backlogged
  <1>3. \A q, f : Card!After(q, f) = Fair!After(q, f)
    BY <1>1, <1>2 DEF Card!After, Fair!After, Card!End, Fair!End
  <1>4. \A q : Card!Turn(q) = Fair!Turn(q)
    BY <1>1, <1>2 DEF Card!Turn, Fair!Turn, Card!End, Fair!End
  <1>5. \A q : Card!Served(q) = Fair!Served(q) /\ Card!Dequeue(q) = Fair!Dequeue(q)
    BY <1>3, <1>4 DEF Card!Served, Fair!Served, Card!Dequeue, Fair!Dequeue
  <1>6. \A q, f, p : Card!Enqueue(q, f, p) = Fair!Enqueue(q, f, p)
    BY <1>2 DEF Card!Enqueue, Fair!Enqueue
  <1>7. Fair!FlowAssumption /\ Card!EmptyFair = Fair!EmptyFair
    BY DEF Fair!FlowAssumption, Card!EmptyFair, Fair!EmptyFair, Card!End, Fair!End
  <1> QED BY <1>5, <1>6, <1>7

(* A queue of the packets of one priority is a queue of packets. *)
LEMMA WiderFair ==
    ASSUME NEW p, NEW q, Fair!WellFormed(q, FlowsOf, Packets(p))
    PROVE  q \in Fair!Fair(FlowsOf, Kinds)
  <1>1. q \in Fair!Fair(FlowsOf, Packets(p))
    BY DEF Fair!WellFormed
  <1>2. PICK D \in SUBSET FlowsOf : q.map \in [D -> Seq(Packets(p))]
    BY <1>1 DEF Fair!Fair
  <1>3. ASSUME NEW f \in D PROVE q.map[f] \in Seq(Kinds)
    <2>1. q.map[f] \in Seq(Packets(p)) /\ Packets(p) \subseteq Kinds
      BY <1>2 DEF Packets
    <2>2. \A i \in 1 .. Len(q.map[f]) : q.map[f][i] \in Kinds
      BY <2>1, ElementOfSeq
    <2>3. Len(q.map[f]) \in Nat /\ q.map[f] = [i \in 1 .. Len(q.map[f]) |-> q.map[f][i]]
      BY <2>1, LenProperties
    <2> HIDE DEF Packets
    <2> QED BY <2>1, <2>2, <2>3
  <1>4. q.map \in [D -> Seq(Kinds)]
    BY <1>2, <1>3
  <1> QED BY <1>1, <1>4 DEF Fair!Fair

LEMMA KindFacts ==
    /\ FlowsOf \in SUBSET (Nat \ {0})
    /\ \A k \in Kinds : /\ k # Card!NULL /\ k.prio \in Prios /\ k.flow \in FlowsOf
                        /\ k \in Packets(k.prio) /\ k.to \in Egress
    /\ \A p : Packets(p) \subseteq Kinds
    /\ Prios \in SUBSET Nat /\ IsFiniteSet(Prios) /\ TxTime \in Nat \ {0}
  <1>1. Kinds \subseteq [flow : Nat \ {0}, prio : Prios, to : Egress]
    BY HostAssumption
  <1>2. \A k \in Kinds : k.flow # 0 /\ Card!NULL.flow = 0
    BY <1>1 DEF Card!NULL, Card!End
  <1>3. \A k \in Kinds : k # Card!NULL
    BY <1>2
  <1> QED BY <1>1, <1>3, HostAssumption, PfcAssumption DEF FlowsOf, Packets

(* What a fair queue with packets of P hands out, and what is left.        *)
LEMMA FairServes ==
    ASSUME NEW P, NEW q, Fair!WellFormed(q, FlowsOf, P), Fair!Backlogged(q) # {}
    PROVE  /\ Fair!WellFormed(Fair!Dequeue(q), FlowsOf, P)
           /\ Fair!Dequeue(q).pull_count = q.pull_count - 1
           /\ Fair!Served(q) \in P
  <1>1. Fair!FlowAssumption /\ FlowsOf \in SUBSET (Nat \ {0})
    BY SameQueue, KindFacts
  <1> QED BY <1>1, Fair!DequeueFacts

(***************************************************************************)
(* The greatest element of a finite set of naturals: the elements above it *)
(* are the least of the finite sets of elements above one.                 *)
(***************************************************************************)
LEMMA MaxFacts ==
    ASSUME NEW S \in SUBSET Nat, IsFiniteSet(S), S # {}
    PROVE  Card!Max(S) \in S
  <1> DEFINE Above == {{m \in S : m > n} : n \in S}
  <1>1. Above \subseteq FiniteSubsetsOf(Nat) /\ Above # {}
    <2>1. ASSUME NEW n \in S PROVE {m \in S : m > n} \in FiniteSubsetsOf(Nat)
      <3>1. {m \in S : m > n} \in SUBSET S
        OBVIOUS
      <3> QED BY <3>1, FS_Subset DEF FiniteSubsetsOf
    <2> QED BY <2>1
  <1>2. PICK b \in Above : \A c \in Above : <<c, b>> \notin StrictSubsetOrdering(Nat)
    <2> HIDE DEF Above
    <2> QED BY <1>1, FS_StrictSubsetOrderingWellFounded, WFMin
  <1>3. PICK x \in S : b = {m \in S : m > x}
    BY <1>2
  <1>4. ASSUME NEW n \in S, n > x PROVE FALSE
    <2> DEFINE c == {m \in S : m > n}
    <2>1. c \in Above
      OBVIOUS
    <2>4. c \subseteq b /\ n \in b /\ n \notin c
      <3> HIDE DEF Above
      <3>1. \A m \in S : m > n => m > x
        BY <1>4
      <3>2. n \in Nat /\ ~(n > n) /\ n > x
        BY <1>4
      <3> QED BY <1>3, <3>1, <3>2
    <2>2. b \subseteq Nat
      BY <1>3
    <2> HIDE DEF c, Above
    <2>3. <<c, b>> \in StrictSubsetOrdering(Nat)
      BY <2>4, <2>2 DEF StrictSubsetOrdering
    <2> QED BY <1>2, <2>1, <2>3
  <1>5. \A n \in S : x >= n
    BY <1>4
  <1> QED BY <1>5 DEF Card!Max

LEMMA SameCardinality == \A S : Card!Cardinality(S) = Cardinality(S)
  BY DEF Card!Cardinality, Cardinality

(* queuesize() is positive when the card holds a packet of some priority. *)
LEMMA QueueSizeFacts ==
    ASSUME NEW n, n.size \in [Prios -> Int]
    PROVE  /\ Card!QueueSize(n) > 0 <=> Holds(n)
           /\ Card!QueueSize(n) = 0 <=> ~Holds(n)
  <1> DEFINE f == [p \in Prios |-> {p} \X (1 .. n.size[p])]
             T == {{p} \X (1 .. n.size[p]) : p \in Prios}
             U == UNION T
  <1>1. IsFiniteSet(T)
    <2>1. f \in Surjection(Prios, T)
      BY DEF Surjection
    <2> HIDE DEF f, T
    <2> QED BY <2>1, KindFacts, FS_Surjection
  <1>2. \A s \in T : IsFiniteSet(s)
    <2> SUFFICES ASSUME NEW p \in Prios PROVE IsFiniteSet({p} \X (1 .. n.size[p]))
      OBVIOUS
    <2>1. IsFiniteSet({p})
      BY FS_Singleton
    <2>2. IsFiniteSet(1 .. n.size[p])
      <3>1. n.size[p] \in Int
        OBVIOUS
      <3> QED BY <3>1, FS_Interval
    <2> QED BY <2>1, <2>2, FS_Product
  <1>3. IsFiniteSet(U)
    <2> HIDE DEF T
    <2> QED BY <1>1, <1>2, FS_UNION
  <1>4. U # {} <=> Holds(n)
    <2>1. ASSUME NEW x \in U PROVE Holds(n)
      <3>1. PICK p \in Prios : x \in {p} \X (1 .. n.size[p])
        OBVIOUS
      <3>2. n.size[p] > 0
        BY <3>1
      <3> QED BY <3>2 DEF Holds
    <2>2. ASSUME NEW p \in Prios, n.size[p] > 0 PROVE U # {}
      <3>1. <<p, 1>> \in {p} \X (1 .. n.size[p])
        BY <2>2
      <3> QED BY <3>1
    <2> QED BY <2>1, <2>2 DEF Holds
  <1>5. Card!QueueSize(n) = Cardinality(U)
    BY SameCardinality DEF Card!QueueSize
  <1> HIDE DEF U
  <1>6. Cardinality(U) \in Nat /\ (Cardinality(U) = 0 <=> U = {})
    BY <1>3, FS_CardinalityType, FS_EmptySet
  <1> QED BY <1>4, <1>5, <1>6

LEMMA OneElement ==
    ASSUME NEW S, NEW s \in Seq(S), Len(s) <= 1, s # <<>>
    PROVE  s = <<s[1]>> /\ s[1] \in S
  <1>1. Len(s) \in Nat /\ Len(s) # 0
    BY EmptySeq, LenProperties
  <1>2. Len(s) = 1
    BY <1>1
  <1>3. s[1] \in S
    BY <1>2, ElementOfSeq
  <1> QED BY <1>2, <1>3

(* A card's one service event. *)
LEMMA ServiceShape ==
    ASSUME NEW n, Sound(n)
    PROVE  /\ n.service # <<>> => /\ n.service = <<Head(n.service)>>
                                  /\ Head(n.service) \in 0 .. TxTime
                                  /\ Tail(n.service) = <<>>
           /\ n.service \in Seq(0 .. TxTime)
           /\ Append(<<>>, TxTime) = <<TxTime>> /\ <<TxTime>> \in Seq(0 .. TxTime)
           /\ Len(<<TxTime>>) = 1 /\ <<TxTime>> # <<>> /\ Head(<<TxTime>>) = TxTime
  <1>1. n.service \in Seq(0 .. TxTime) /\ Len(n.service) <= 1
    BY DEF Sound, Nics
  <1>2. ASSUME n.service # <<>>
        PROVE  /\ n.service = <<Head(n.service)>> /\ Head(n.service) \in 0 .. TxTime
               /\ Tail(n.service) = <<>>
    <2>1. n.service = <<n.service[1]>> /\ n.service[1] \in 0 .. TxTime
      BY <1>1, <1>2, OneElement
    <2>2. Tail(<<n.service[1]>>) = <<>> /\ Head(<<n.service[1]>>) = n.service[1]
      OBVIOUS
    <2> QED BY <2>1, <2>2
  <1>3. TxTime \in 0 .. TxTime
    BY KindFacts
  <1> QED BY <1>1, <1>2, <1>3

(* What a sound card counts. *)
LEMMA CountFacts ==
    ASSUME NEW n, Sound(n), NEW p \in Prios
    PROVE  /\ n.queue[p].pull_count \in Nat /\ n.size[p] \in Nat
           /\ n.queue[p].pull_count > 0 <=> Fair!Backlogged(n.queue[p]) # {}
           /\ n.sending = Card!NULL => n.size[p] = n.queue[p].pull_count
           /\ n.sending # Card!NULL /\ n.sending.prio = p
                  => n.size[p] = n.queue[p].pull_count + 1
  <1>1. Fair!WellFormed(n.queue[p], FlowsOf, Packets(p))
    BY DEF Sound, Counted
  <1>2. /\ n.queue[p].pull_count \in Nat
        /\ n.queue[p].pull_count > 0 <=> Fair!Backlogged(n.queue[p]) # {}
    BY <1>1, SameQueue, Fair!CountedIsBacklogged
  <1> QED BY <1>2 DEF Sound, Counted

(* A packet in flight is counted. *)
LEMMA InFlightHolds ==
    ASSUME NEW n, Sound(n), n.service # <<>>
    PROVE  Holds(n) /\ n.sending \in Kinds
  <1>1. n.sending \in Kinds /\ n.sending # Card!NULL
    BY DEF Sound, Nics
  <1>2. n.sending.prio \in Prios
    BY <1>1, KindFacts
  <1>3. n.size[n.sending.prio] > 0
    BY <1>1, <1>2, CountFacts
  <1> QED BY <1>1, <1>2, <1>3 DEF Holds

(* The assertion holds whenever an idle card that counts a packet begins.  *)
LEMMA BeginServiceOK ==
    ASSUME NEW n, Sound(n), n.sending = Card!NULL, Holds(n)
    PROVE  /\ Sound(Card!BeginService(n))
           /\ Card!BeginService(n).state_send = n.state_send
           /\ Card!BeginService(n).service = <<TxTime>>
  <1> DEFINE p == Card!Max({r \in Prios : n.size[r] > 0})
             q == n.queue[p]
             k == Card!Served(q)
             rest == [n.queue EXCEPT ![p] = Card!Dequeue(q)]
             b == [n EXCEPT !.sending = k, !.queue = rest, !.service = <<TxTime>>]
  <1>1. p \in Prios /\ n.size[p] > 0
    <2> DEFINE S == {r \in Prios : n.size[r] > 0}
    <2>1. S \in SUBSET Nat /\ S # {} /\ S \in SUBSET Prios
      BY KindFacts DEF Holds
    <2>2. IsFiniteSet(S)
      BY <2>1, KindFacts, FS_Subset
    <2>3. Card!Max(S) \in S
      <3> HIDE DEF S
      <3> QED BY <2>1, <2>2, MaxFacts
    <2> QED BY <2>3
  <1> HIDE DEF p
  <1>2. Fair!WellFormed(q, FlowsOf, Packets(p)) /\ Fair!Backlogged(q) # {}
    BY <1>1, CountFacts DEF Sound, Counted
  <1>3. /\ Fair!WellFormed(Fair!Dequeue(q), FlowsOf, Packets(p))
        /\ Fair!Dequeue(q).pull_count = q.pull_count - 1
        /\ Fair!Served(q) \in Packets(p)
    <2> DEFINE P == Packets(p)
    <2>1. Fair!WellFormed(q, FlowsOf, P) /\ Fair!Backlogged(q) # {}
      BY <1>2
    <2> HIDE DEF q, P
    <2>2. /\ Fair!WellFormed(Fair!Dequeue(q), FlowsOf, P)
          /\ Fair!Dequeue(q).pull_count = q.pull_count - 1
          /\ Fair!Served(q) \in P
      BY <2>1, FairServes
    <2> QED BY <2>2 DEF P
  <1>4. /\ Fair!WellFormed(rest[p], FlowsOf, Packets(p))
        /\ rest[p].pull_count = q.pull_count - 1
        /\ \A r \in Prios \ {p} : rest[r] = n.queue[r]
        /\ k \in Packets(p) /\ rest \in [Prios -> Fair!Fair(FlowsOf, Kinds)]
    <2>1. n.queue \in [Prios -> Fair!Fair(FlowsOf, Kinds)]
      BY DEF Sound, Nics
    <2>2. Card!Dequeue(q) = Fair!Dequeue(q) /\ k = Fair!Served(q)
      BY SameQueue
    <2>3. Fair!Dequeue(q) \in Fair!Fair(FlowsOf, Kinds)
      BY <1>3, WiderFair
    <2> HIDE DEF q, k
    <2> QED BY <1>1, <1>3, <2>1, <2>2, <2>3
  <1>5. n.service = <<>> /\ Append(n.service, TxTime) = <<TxTime>>
    BY ServiceShape DEF Sound
  <1>6. Card!BeginService(n) = b
    <2>1. n.queue[p].pull_count # 0
      BY <1>1, CountFacts
    <2>2. n \in Nics
      BY DEF Sound
    <2> QED BY <1>5, <2>1, <2>2 DEF Card!BeginService, p, Nics
  <1>7. k \in Kinds /\ k # Card!NULL /\ k.prio = p
    BY <1>4, KindFacts DEF Packets
  <1> HIDE DEF k, rest, q
  <1>8. /\ b.sending = k /\ b.queue = rest /\ b.service = <<TxTime>> /\ b \in Nics
        /\ b.size = n.size /\ b.state_send = n.state_send /\ ~b.failed
    BY <1>4, <1>7, ServiceShape DEF Sound, Nics
  <1>9. ASSUME NEW r \in Prios PROVE Counted(b, r)
    <2>1. CASE r = p
      <3>1. n.size[p] = q.pull_count /\ q.pull_count \in Nat
        BY <1>1, CountFacts DEF q
      <3> QED BY <1>4, <1>7, <1>8, <2>1, <3>1 DEF Counted
    <2>2. CASE r # p
      <3>1. Counted(n, r)
        BY DEF Sound
      <3> QED BY <1>4, <1>7, <1>8, <2>2, <3>1, CountFacts DEF Counted
    <2> QED BY <2>1, <2>2
  <1> HIDE DEF b
  <1> QED BY <1>6, <1>7, <1>8, <1>9, ServiceShape DEF Sound

(* A packet that joins its fair queue. *)
Longer(n, pkt) ==
    [n EXCEPT !.size[pkt.prio] = @ + 1,
              !.queue[pkt.prio] = Card!Enqueue(@, pkt.flow, pkt)]

LEMMA FairGrows ==
    ASSUME NEW P, NEW q, Fair!WellFormed(q, FlowsOf, P), NEW f \in FlowsOf, NEW k \in P
    PROVE  /\ Fair!WellFormed(Fair!Enqueue(q, f, k), FlowsOf, P)
           /\ Fair!Enqueue(q, f, k).pull_count = q.pull_count + 1
  <1>1. Fair!FlowAssumption
    BY SameQueue
  <1> QED BY <1>1, Fair!EnqueueFacts

LEMMA LongerOK ==
    ASSUME NEW n, Sound(n), NEW pkt \in Kinds
    PROVE  /\ Sound(Longer(n, pkt)) /\ Holds(Longer(n, pkt))
           /\ Longer(n, pkt).sending = n.sending
           /\ Longer(n, pkt).state_send = n.state_send
           /\ Longer(n, pkt).service = n.service
  <1> DEFINE p == pkt.prio
             q == Card!Enqueue(n.queue[p], pkt.flow, pkt)
             queues == [n.queue EXCEPT ![p] = q]
             sizes == [n.size EXCEPT ![p] = @ + 1]
             b == [n EXCEPT !.size = sizes, !.queue = queues]
  <1>1. p \in Prios /\ pkt.flow \in FlowsOf /\ pkt \in Packets(p)
    BY KindFacts
  <1>2. n \in Nics /\ n.queue \in [Prios -> Fair!Fair(FlowsOf, Kinds)]
        /\ n.size \in [Prios -> Int]
    BY DEF Sound, Nics
  <1>3. Longer(n, pkt) = b
    BY <1>2 DEF Longer, Nics
  <1>4. Fair!WellFormed(q, FlowsOf, Packets(p)) /\ q.pull_count = n.queue[p].pull_count + 1
    <2> DEFINE P == Packets(p)  r == n.queue[p]  f == pkt.flow
    <2>1. Fair!WellFormed(r, FlowsOf, P) /\ f \in FlowsOf /\ pkt \in P
      BY <1>1 DEF Sound, Counted
    <2>2. q = Fair!Enqueue(r, f, pkt)
      BY SameQueue
    <2> HIDE DEF P, r, f, q
    <2>3. Fair!WellFormed(q, FlowsOf, P) /\ q.pull_count = r.pull_count + 1
      BY <2>1, <2>2, FairGrows
    <2> QED BY <2>3 DEF P, r
  <1>5. q \in Fair!Fair(FlowsOf, Kinds)
    BY <1>4, WiderFair
  <1> HIDE DEF q
  <1>6. /\ queues \in [Prios -> Fair!Fair(FlowsOf, Kinds)] /\ sizes \in [Prios -> Int]
        /\ queues[p] = q /\ sizes[p] = n.size[p] + 1
        /\ \A r \in Prios \ {p} : queues[r] = n.queue[r] /\ sizes[r] = n.size[r]
    BY <1>1, <1>2, <1>5
  <1> HIDE DEF queues, sizes
  <1>7. /\ b \in Nics /\ b.queue = queues /\ b.size = sizes /\ b.sending = n.sending
        /\ b.state_send = n.state_send /\ b.service = n.service /\ b.failed = n.failed
    BY <1>2, <1>6 DEF Nics
  <1> HIDE DEF b
  <1>8. ASSUME NEW r \in Prios PROVE Counted(b, r)
    <2>1. Counted(n, r)
      BY DEF Sound
    <2>2. CASE r = p
      <3>1. n.size[p] \in Nat /\ n.queue[p].pull_count \in Nat
        BY <1>1, CountFacts
      <3> QED BY <1>4, <1>6, <1>7, <2>1, <2>2, <3>1 DEF Counted
    <2>3. CASE r # p
      BY <1>6, <1>7, <2>1, <2>3 DEF Counted
    <2> QED BY <2>2, <2>3
  <1>9. Sound(b)
    BY <1>7, <1>8 DEF Sound
  <1>10. Holds(b)
    <2>1. n.size[p] \in Nat
      BY <1>1, CountFacts
    <2>2. b.size[p] > 0
      BY <1>6, <1>7, <2>1
    <2> QED BY <1>1, <2>2 DEF Holds
  <1> QED BY <1>3, <1>7, <1>9, <1>10

(***************************************************************************)
(* Every handler keeps a card as it should be.                             *)
(***************************************************************************)

LEMMA SizeOfSound ==
    ASSUME NEW n, Sound(n)
    PROVE  /\ Card!QueueSize(n) > 0 <=> Holds(n)
           /\ Card!QueueSize(n) = 0 <=> ~Holds(n)
  <1>1. n.size \in [Prios -> Int]
    BY DEF Sound, Nics
  <1> QED BY <1>1, QueueSizeFacts

LEMMA EmptyCard ==
    CardOK(Card!EmptyNic)
  <1> DEFINE n == Card!EmptyNic
  <1>1. /\ n.queue = [p \in Prios |-> Card!EmptyFair] /\ n.size = [p \in Prios |-> 0]
        /\ n.sending = Card!NULL /\ n.state_send = "READY" /\ n.service = <<>>
        /\ n.failed = FALSE
        /\ n = [queue |-> n.queue, size |-> n.size, sending |-> n.sending,
                state_send |-> n.state_send, service |-> n.service, failed |-> n.failed]
    BY DEF Card!EmptyNic
  <1>2. ASSUME NEW P PROVE Fair!WellFormed(Card!EmptyFair, FlowsOf, P)
    BY SameQueue, Fair!EmptyFairFacts
  <1>3. Card!EmptyFair.pull_count = 0
    BY DEF Card!EmptyFair
  <1>4. Card!EmptyFair \in Fair!Fair(FlowsOf, Kinds)
    BY <1>2 DEF Fair!WellFormed
  <1> HIDE DEF n
  <1>5. n \in Nics
    <2>1. n.queue \in [Prios -> Fair!Fair(FlowsOf, Kinds)] /\ n.size \in [Prios -> Int]
      <3>1. [p \in Prios |-> Card!EmptyFair] \in [Prios -> Fair!Fair(FlowsOf, Kinds)]
        BY <1>4
      <3> QED BY <1>1, <3>1
    <2>2. n.sending \in Kinds \cup {Card!NULL}
      BY <1>1
    <2>3. n.failed \in BOOLEAN
      BY <1>1
    <2>4. n.service \in Seq(0 .. TxTime)
      BY <1>1
    <2>5. n.state_send \in SendStates
      BY <1>1 DEF SendStates
    <2> QED BY <1>1, <2>1, <2>2, <2>3, <2>4, <2>5 DEF Nics
  <1>6. \A p \in Prios : Counted(n, p)
    BY <1>1, <1>2, <1>3 DEF Counted
  <1>7. ~Holds(n)
    BY <1>1 DEF Holds
  <1> QED BY <1>1, <1>5, <1>6, <1>7 DEF CardOK, Sound, n

LEMMA PacketInCard ==
    ASSUME NEW n, CardOK(n), NEW pkt \in Kinds
    PROVE  CardOK(Card!ReceivePacket(n, pkt))
  <1> DEFINE b == Card!ReceivePacket(n, pkt)  l == Longer(n, pkt)
  <1>1. Sound(n) /\ Sound(l) /\ Holds(l) /\ l.sending = n.sending
        /\ l.state_send = n.state_send /\ l.service = n.service
    BY LongerOK DEF CardOK
  <1>2. CASE Card!QueueSize(n) = 0 /\ n.state_send = "READY"
    <2>1. b = Card!BeginService(l)
      BY <1>2 DEF Card!ReceivePacket, Longer
    <2>2. ~Holds(n)
      BY <1>1, <1>2, SizeOfSound
    <2>3. n.sending = Card!NULL
      BY <1>1, <2>2, InFlightHolds DEF Sound
    <2> HIDE DEF l, b
    <2>4. Sound(b) /\ b.state_send = l.state_send /\ b.service = <<TxTime>>
      BY <1>1, <2>1, <2>3, BeginServiceOK
    <2>5. b.service # <<>>
      BY <2>4
    <2>6. CardOK(b)
      BY <1>1, <1>2, <2>4, <2>5 DEF CardOK
    <2> QED BY <2>6 DEF b
  <1>3. CASE ~(Card!QueueSize(n) = 0 /\ n.state_send = "READY")
    <2>1. b = l
      BY <1>3 DEF Card!ReceivePacket, Longer
    <2>2. n.state_send = "READY" => Holds(n)
      BY <1>1, <1>3, SizeOfSound
    <2> HIDE DEF l, b
    <2>3. CardOK(b)
      BY <1>1, <2>1, <2>2 DEF CardOK
    <2> QED BY <2>3 DEF b
  <1> QED BY <1>2, <1>3

(* The same card in another send state. *)
LEMMA OtherState ==
    ASSUME NEW n, Sound(n), NEW s \in SendStates
    PROVE  /\ Sound([n EXCEPT !.state_send = s])
           /\ Holds([n EXCEPT !.state_send = s]) <=> Holds(n)
           /\ [n EXCEPT !.state_send = s].state_send = s
           /\ [n EXCEPT !.state_send = s].service = n.service
           /\ [n EXCEPT !.state_send = s].sending = n.sending
  <1> DEFINE b == [n EXCEPT !.state_send = s]
  <1>1. /\ b \in Nics /\ b.state_send = s /\ b.service = n.service /\ b.sending = n.sending
        /\ b.size = n.size /\ b.queue = n.queue /\ b.failed = n.failed
    BY DEF Sound, Nics
  <1> HIDE DEF b
  <1>2. Sound(b)
    BY <1>1 DEF Sound, Counted
  <1>3. Holds(b) <=> Holds(n)
    BY <1>1 DEF Holds
  <1> QED BY <1>1, <1>2, <1>3 DEF b

(* A PAUSE, in whatever state it finds the card. *)
LEMMA PausedCard ==
    ASSUME NEW n, CardOK(n)
    PROVE  CardOK(Card!ReceivePause(n))
  <1> DEFINE s == IF Card!QueueSize(n) > 0 THEN "PAUSE_RECEIVED" ELSE "PAUSED"
             b == [n EXCEPT !.state_send = s]
  <1>1. Card!ReceivePause(n) = b /\ s \in SendStates
    BY DEF Card!ReceivePause, SendStates
  <1>2. (s = "PAUSED" => ~Holds(n)) /\ s # "READY"
    BY SizeOfSound DEF CardOK
  <1> HIDE DEF s
  <1>3. Sound(b) /\ b.state_send = s /\ b.service = n.service
    BY <1>1, OtherState DEF CardOK
  <1> HIDE DEF b
  <1>4. n.service # <<>> => Holds(n)
    BY InFlightHolds DEF CardOK
  <1>5. CardOK(b)
    BY <1>2, <1>3, <1>4 DEF CardOK
  <1> QED BY <1>1, <1>5

(* A RESUME, in whatever state, of a card that is not transmitting. *)
LEMMA ResumedCard ==
    ASSUME NEW n, CardOK(n), n.service = <<>>
    PROVE  CardOK(Card!ReceiveResume(n))
  <1> DEFINE ready == [n EXCEPT !.state_send = "READY"]
             b == Card!ReceiveResume(n)
  <1>1. n.sending = Card!NULL /\ "READY" \in SendStates /\ Sound(n)
    BY DEF CardOK, Sound, SendStates
  <1>2. Sound(ready) /\ ready.state_send = "READY" /\ ready.sending = Card!NULL
        /\ (Holds(ready) <=> Holds(n)) /\ ready.service = n.service
    BY <1>1, OtherState
  <1>3. CASE Card!QueueSize(n) > 0
    <2>1. b = Card!BeginService(ready)
      BY <1>3 DEF Card!ReceiveResume
    <2>2. Holds(ready)
      BY <1>1, <1>2, <1>3, SizeOfSound
    <2> HIDE DEF ready, b
    <2>3. Sound(b) /\ b.state_send = "READY" /\ b.service = <<TxTime>>
      BY <1>2, <2>1, <2>2, BeginServiceOK
    <2>4. b.service # <<>>
      BY <2>3
    <2>5. CardOK(b)
      BY <2>3, <2>4 DEF CardOK
    <2> QED BY <2>5 DEF b
  <1>4. CASE ~(Card!QueueSize(n) > 0)
    <2>1. b = ready
      BY <1>4 DEF Card!ReceiveResume
    <2>2. ~Holds(ready)
      BY <1>1, <1>2, <1>4, SizeOfSound
    <2> HIDE DEF ready, b
    <2>3. CardOK(b)
      BY <1>2, <2>1, <2>2 DEF CardOK
    <2> QED BY <2>3 DEF b
  <1> QED BY <1>3, <1>4

(* The packet in flight has left the card.                                 *)
Emptied(n, s) ==
    [n EXCEPT !.service = <<>>, !.size[n.sending.prio] = @ - 1,
              !.sending = Card!NULL, !.state_send = s]

LEMMA EmptiedOK ==
    ASSUME NEW n, Sound(n), n.service # <<>>, NEW s \in SendStates
    PROVE  /\ Sound(Emptied(n, s)) /\ Emptied(n, s).sending = Card!NULL
           /\ Emptied(n, s).state_send = s /\ Emptied(n, s).service = <<>>
  <1> DEFINE p == n.sending.prio
             sizes == [n.size EXCEPT ![p] = @ - 1]
             b == [n EXCEPT !.service = <<>>, !.size = sizes, !.sending = Card!NULL,
                            !.state_send = s]
  <1>1. n \in Nics /\ n.size \in [Prios -> Int] /\ ~n.failed
    BY DEF Sound, Nics
  <1>2. n.sending # Card!NULL /\ p \in Prios
    BY InFlightHolds, KindFacts
  <1>3. Emptied(n, s) = b
    BY <1>1 DEF Emptied, Nics
  <1>4. /\ sizes \in [Prios -> Int] /\ sizes[p] = n.size[p] - 1
        /\ \A r \in Prios \ {p} : sizes[r] = n.size[r]
    BY <1>1, <1>2
  <1> HIDE DEF sizes
  <1>5. <<>> \in Seq(0 .. TxTime) /\ Len(<<>>) = 0
    OBVIOUS
  <1>6. /\ b \in Nics /\ b.queue = n.queue /\ b.size = sizes /\ b.sending = Card!NULL
        /\ b.state_send = s /\ b.service = <<>> /\ ~b.failed
    BY <1>1, <1>4, <1>5 DEF Nics
  <1> HIDE DEF b
  <1>7. ASSUME NEW r \in Prios PROVE Counted(b, r)
    <2>1. Fair!WellFormed(b.queue[r], FlowsOf, Packets(r))
      BY <1>6 DEF Sound, Counted
    <2>2. n.queue[r].pull_count \in Nat
      BY CountFacts
    <2>3. CASE r = p
      <3>1. n.size[p] = n.queue[p].pull_count + 1
        BY <1>2, CountFacts
      <3> QED BY <1>4, <1>6, <2>1, <2>2, <2>3, <3>1 DEF Counted
    <2>4. CASE r # p
      <3>1. n.size[r] = n.queue[r].pull_count
        BY <2>2, <2>4 DEF Sound, Counted
      <3> QED BY <1>4, <1>6, <2>1, <2>2, <2>4, <3>1 DEF Counted
    <2> QED BY <2>3, <2>4
  <1>8. Sound(b)
    BY <1>5, <1>6, <1>7 DEF Sound
  <1> QED BY <1>3, <1>6, <1>8

LEMMA CompletedCard ==
    ASSUME NEW n, CardOK(n), Card!ServiceDue(n)
    PROVE  CardOK(Card!CompleteService(n))
  <1> DEFINE s == IF n.state_send = "PAUSE_RECEIVED" THEN "PAUSED" ELSE n.state_send
             next == Emptied(n, s)
             b == Card!CompleteService(n)
  <1>1. /\ Sound(n) /\ n.service # <<>> /\ n.state_send # "PAUSED"
        /\ n \in Nics /\ n.state_send \in SendStates /\ Tail(n.service) = <<>>
    BY ServiceShape DEF CardOK, Card!ServiceDue, Sound, Nics
  <1>2. n.sending # Card!NULL
    BY <1>1 DEF Sound
  <1>3. Card!Sends(n)
    BY <1>1, <1>2 DEF Card!Sends
  <1>4. s \in SendStates
    BY <1>1 DEF SendStates
  <1>5. b = IF Card!QueueSize(next) > 0 /\ next.state_send = "READY"
            THEN Card!BeginService(next) ELSE next
    <2> DEFINE fired == [n EXCEPT !.service = Tail(@)]
               sent == [fired EXCEPT !.size[n.sending.prio] = @ - 1, !.sending = Card!NULL]
               last == [sent EXCEPT !.state_send =
                            IF @ = "PAUSE_RECEIVED" THEN "PAUSED" ELSE @]
    <2>1. fired = [n EXCEPT !.service = <<>>]
      BY <1>1 DEF Nics
    <2>2. sent = [n EXCEPT !.service = <<>>, !.size[n.sending.prio] = @ - 1,
                           !.sending = Card!NULL]
      <3> HIDE DEF fired
      <3> QED BY <1>1, <2>1 DEF Nics
    <2>3. last = next
      <3> HIDE DEF fired, sent
      <3> QED BY <1>1, <2>2 DEF Emptied, Nics
    <2>4. b = IF Card!QueueSize(last) > 0 /\ last.state_send = "READY"
              THEN Card!BeginService(last) ELSE last
      BY <1>1, <1>3 DEF Card!CompleteService
    <2> HIDE DEF fired, sent, last, next, b
    <2> QED BY <2>3, <2>4
  <1> HIDE DEF s
  <1>6. /\ Sound(next) /\ next.sending = Card!NULL /\ next.state_send = s
        /\ next.service = <<>>
    BY <1>1, <1>4, EmptiedOK
  <1> HIDE DEF next, b
  <1>7. CASE Card!QueueSize(next) > 0 /\ next.state_send = "READY"
    <2>1. b = Card!BeginService(next) /\ Holds(next)
      BY <1>5, <1>6, <1>7, SizeOfSound
    <2>2. Sound(b) /\ b.state_send = "READY" /\ b.service = <<TxTime>>
      BY <1>6, <1>7, <2>1, BeginServiceOK
    <2>3. b.service # <<>>
      BY <2>2
    <2>4. CardOK(b)
      BY <2>2, <2>3 DEF CardOK
    <2> QED BY <2>4 DEF b
  <1>8. CASE ~(Card!QueueSize(next) > 0 /\ next.state_send = "READY")
    <2>1. b = next /\ (next.state_send = "READY" => ~Holds(next))
      BY <1>5, <1>6, <1>8, SizeOfSound
    <2>2. CardOK(b)
      BY <1>6, <2>1 DEF CardOK
    <2> QED BY <2>2 DEF b
  <1> QED BY <1>7, <1>8

LEMMA AgedCard ==
    ASSUME NEW n, CardOK(n), ~Card!ServiceDue(n)
    PROVE  CardOK(Card!Age(n))
  <1> DEFINE older == [i \in 1 .. Len(n.service) |-> n.service[i] - 1]
             b == [n EXCEPT !.service = older]
  <1>1. n \in Nics /\ Sound(n) /\ Card!Age(n) = b
    BY DEF CardOK, Sound, Card!Age
  <1>2. /\ older \in Seq(0 .. TxTime) /\ Len(older) <= 1 /\ (older # <<>> <=> n.service # <<>>)
    <2>1. CASE n.service = <<>>
      <3>1. older = <<>>
        BY <2>1
      <3> QED BY <2>1, <3>1
    <2>2. CASE n.service # <<>>
      <3> DEFINE h == Head(n.service)
      <3>1. n.service = <<h>> /\ h \in 0 .. TxTime /\ h # 0
        BY <1>1, <2>2, ServiceShape DEF Card!ServiceDue
      <3> HIDE DEF h
      <3>2. older = <<h - 1>>
        BY <3>1
      <3>3. h - 1 \in 0 .. TxTime
        BY <3>1, KindFacts
      <3> HIDE DEF older
      <3>4. /\ <<h - 1>> \in Seq(0 .. TxTime) /\ Len(<<h - 1>>) = 1
            /\ <<h - 1>> # <<>>
        BY <3>3
      <3> QED BY <2>2, <3>2, <3>4
    <2> QED BY <2>1, <2>2
  <1> HIDE DEF older
  <1>3. /\ b \in Nics /\ b.queue = n.queue /\ b.size = n.size /\ b.sending = n.sending
        /\ b.state_send = n.state_send /\ b.service = older /\ b.failed = n.failed
    BY <1>1, <1>2 DEF Nics
  <1> HIDE DEF b
  <1>4. \A p \in Prios : Counted(b, p)
    BY <1>1, <1>3 DEF Sound, Counted
  <1>5. Sound(b)
    BY <1>1, <1>2, <1>3, <1>4 DEF Sound
  <1>6. Holds(b) <=> Holds(n)
    BY <1>3 DEF Holds
  <1>7. CardOK(b)
    BY <1>2, <1>3, <1>5, <1>6 DEF CardOK
  <1> QED BY <1>1, <1>7

(***************************************************************************)
(* All cards                                                               *)
(***************************************************************************)

(* Every card that no RESUME has found transmitting is as it should be.    *)
(* The switch, its thresholds, links and wires do not matter: frames may   *)
(* come in any order, and twice.                                           *)
CardsOK == DOMAIN nic = Up /\ \A u \in Up \ early : CardOK(nic[u])

(* One card changes, and is as it should be or is one of the early ones.   *)
LEMMA OneCard ==
    ASSUME CardsOK, NEW u \in Up, NEW m, nic' = [nic EXCEPT ![u] = m],
           \/ early' = early \cup {u}
           \/ early' = early /\ (u \notin early => CardOK(m))
    PROVE  CardsOK'
  <1>1. DOMAIN nic' = Up /\ nic'[u] = m /\ \A v \in Up \ {u} : nic'[v] = nic[v]
    BY DEF CardsOK
  <1>2. ASSUME NEW v \in Up \ early' PROVE CardOK(nic'[v])
    <2>1. CASE v = u
      BY <1>1, <1>2, <2>1
    <2>2. CASE v # u
      BY <1>1, <1>2, <2>2 DEF CardsOK
    <2> QED BY <2>1, <2>2
  <1> QED BY <1>1, <1>2 DEF CardsOK

LEMMA HostSendsOK ==
    ASSUME CardsOK, NEW u \in Up, NEW pkt \in Kinds, HostSends(u, pkt)
    PROVE  CardsOK'
  <1> DEFINE m == Card!ReceivePacket(nic[u], pkt)
  <1>1. nic' = [nic EXCEPT ![u] = m] /\ early' = early
    BY DEF HostSends
  <1>2. u \notin early => CardOK(m)
    BY PacketInCard DEF CardsOK
  <1> HIDE DEF m
  <1> QED BY <1>1, <1>2, OneCard

LEMMA CardCompleteOK ==
    ASSUME CardsOK, NEW u \in Up, CardComplete(u)
    PROVE  CardsOK'
  <1> DEFINE m == Card!CompleteService(nic[u])
  <1>1. nic' = [nic EXCEPT ![u] = m] /\ early' = early /\ Card!ServiceDue(nic[u])
    BY DEF CardComplete
  <1>2. u \notin early => CardOK(m)
    BY <1>1, CompletedCard DEF CardsOK
  <1> HIDE DEF m
  <1> QED BY <1>1, <1>2, OneCard

LEMMA FrameArrivesOK ==
    ASSUME CardsOK, NEW u \in Up, FrameArrives(u)
    PROVE  CardsOK'
  <1> DEFINE n == nic[u]
             m == IF Head(wire[u]).pause THEN Card!ReceivePause(n) ELSE Card!ReceiveResume(n)
  <1>1. /\ nic' = [nic EXCEPT ![u] = m]
        /\ early' = IF Early(u) THEN early \cup {u} ELSE early
    BY DEF FrameArrives
  <1>2. CASE Early(u)
    <2> HIDE DEF m
    <2> QED BY <1>1, <1>2, OneCard
  <1>3. CASE ~Early(u)
    <2>1. ASSUME u \notin early PROVE CardOK(m)
      <3>1. CardOK(n)
        BY <2>1 DEF CardsOK
      <3>2. CASE Head(wire[u]).pause
        <4>1. m = Card!ReceivePause(n)
          BY <3>2
        <4> HIDE DEF n, m
        <4> QED BY <3>1, <4>1, PausedCard
      <3>3. CASE ~Head(wire[u]).pause
        <4>1. m = Card!ReceiveResume(n) /\ n.service = <<>>
          BY <1>3, <3>3 DEF Early
        <4> HIDE DEF n, m
        <4> QED BY <3>1, <4>1, ResumedCard
      <3> QED BY <3>2, <3>3
    <2> HIDE DEF m
    <2> QED BY <1>1, <1>3, <2>1, OneCard
  <1> QED BY <1>2, <1>3

LEMMA TickOK ==
    ASSUME CardsOK, Tick
    PROVE  CardsOK'
  <1>1. /\ nic' = [u \in Up |-> Card!Age(nic[u])] /\ early' = early
        /\ \A u \in Up : ~Card!ServiceDue(nic[u])
    BY DEF Tick, Due
  <1>2. \A u \in Up \ early : CardOK(Card!Age(nic[u]))
    BY <1>1, AgedCard DEF CardsOK
  <1> QED BY <1>1, <1>2 DEF CardsOK

LEMMA CardsInit == Init => CardsOK
  BY EmptyCard DEF Init, CardsOK

LEMMA CardsNext ==
    ASSUME CardsOK, [Next]_vars
    PROVE  CardsOK'
  <1>1. ASSUME UNCHANGED <<nic, early>> PROVE CardsOK'
    BY <1>1 DEF CardsOK
  <1>2. \/ \E u \in Up : CardComplete(u) \/ FrameArrives(u)
        \/ \E u \in Up, pkt \in Kinds : HostSends(u, pkt)
        \/ Tick
        \/ UNCHANGED <<nic, early>>
    BY DEF Next, Event, SwitchEvent, Paused, Resumed, vars
  <1> QED BY <1>1, <1>2, CardCompleteOK, FrameArrivesOK, HostSendsOK, TickOK

LEMMA Inductive == Spec => []CardsOK
  <1>1. CardsOK /\ [Next]_vars => CardsOK'
    BY CardsNext
  <1> QED BY <1>1, CardsInit, PTL DEF Spec

(***************************************************************************)
(* What follows                                                            *)
(***************************************************************************)

(* Whatever the thresholds, the assertion of beginService fails only in a  *)
(* card that a RESUME has found transmitting (queue.cpp calls beginService *)
(* then, though a packet is in flight): no other order of packets,         *)
(* completions and frames makes it fail.                                   *)
THEOREM AssertionHolds == Spec => []SendingNotNull
  <1>1. CardsOK => SendingNotNull
    BY DEF CardsOK, SendingNotNull, CardOK, Sound
  <1> QED BY <1>1, Inductive, PTL

(* Until then a card transmits one packet at a time, never idles on a      *)
(* backlog while it is READY and never transmits while it is PAUSED.       *)
THEOREM OneTransmissionCorrect == Spec => []OneTransmission
  <1>1. CardsOK => OneTransmission
    <2> SUFFICES ASSUME CardsOK, NEW u \in Up \ early
                 PROVE  /\ Len(nic[u].service) <= 1
                        /\ nic[u].service # <<>> <=> nic[u].sending # Card!NULL
                        /\ nic[u].state_send = "READY" /\ Card!QueueSize(nic[u]) > 0
                               => nic[u].service # <<>>
                        /\ nic[u].state_send = "PAUSED" => nic[u].service = <<>>
      BY DEF OneTransmission
    <2>1. CardOK(nic[u])
      BY DEF CardsOK
    <2> QED BY <2>1, SizeOfSound DEF CardOK, Sound
  <1> QED BY <1>1, Inductive, PTL

(* Until then the bytes a card counts for a priority are the packets of    *)
(* its fair queue and the one in flight: none is lost, none counted twice. *)
THEOREM CardConservesCorrect == Spec => []CardConserves
  <1>1. CardsOK => CardConserves
    BY DEF CardsOK, CardConserves, CardOK, Sound, Counted
  <1> QED BY <1>1, Inductive, PTL
=============================================================================
