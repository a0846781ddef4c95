----------------------------- MODULE NdpProofs -----------------------------
(***************************************************************************)
(* The two safety properties of NDP for any number of flows, any sizes and *)
(* windows, any capacity of the queue and any order on the network: every  *)
(* packet is in one place, and no more are under way than the window.      *)
(***************************************************************************)
EXTENDS Ndp, FiniteSetTheorems, SequenceTheorems, WellFoundedInduction, TLAPS

(* The lemmas about the operations of a fair queue; they mention neither   *)
(* the variables nor the constants of FairPullQueue.                       *)
Fair == INSTANCE FairPullProofs
           WITH FlowIds <- {}, Depth <- 0, fq <- EmptyFair, passed <- <<>>

WellFormed(fq, F, P) == Fair!WellFormed(fq, F, P)

(* The pacer's queue is a queue of FairPullProofs. *)
LEMMA SameQueue ==
  /\ Fair!FlowAssumption /\ EmptyFair = Fair!EmptyFair
  /\ \A q : /\ Flows(q) = Fair!Flows(q) /\ Backlogged(q) = Fair!Backlogged(q)
             /\ Turn(q) = Fair!Turn(q) /\ Served(q) = Fair!Served(q)
             /\ Dequeue(q) = Fair!Dequeue(q)
  /\ \A q, f : FlushFlow(q, f) = Fair!FlushFlow(q, f)
  /\ \A q, f, p : Enqueue(q, f, p) = Fair!Enqueue(q, f, p)
  /\ \A S : Min(S) = Fair!Min(S)
<1>1. \A S : Min(S) = Fair!Min(S)
  BY DEF Min, Fair!Min
<1>2. \A q : Flows(q) = Fair!Flows(q) /\ Backlogged(q) = Fair!Backlogged(q)
  BY DEF Flows, Fair!Flows, Backlogged, Fair!Backlogged
<1>3. \A q, f : After(q, f) = Fair!After(q, f)
  BY <1>1, <1>2 DEF After, Fair!After, End, Fair!End
<1>4. \A q : Turn(q) = Fair!Turn(q)
  BY <1>1, <1>2 DEF Turn, Fair!Turn, End, Fair!End
<1>5. \A q : Served(q) = Fair!Served(q) /\ Dequeue(q) = Fair!Dequeue(q)
  BY <1>3, <1>4 DEF Served, Fair!Served, Dequeue, Fair!Dequeue
<1>6. \A q, f : FlushFlow(q, f) = Fair!FlushFlow(q, f)
  BY <1>2, <1>3 DEF FlushFlow, Fair!FlushFlow
<1>7. \A q, f, p : Enqueue(q, f, p) = Fair!Enqueue(q, f, p)
  BY <1>2 DEF Enqueue, Fair!Enqueue
<1>8. Fair!FlowAssumption /\ EmptyFair = Fair!EmptyFair
  BY DEF Fair!FlowAssumption, EmptyFair, Fair!EmptyFair, End, Fair!End
<1> QED
  BY <1>1, <1>2, <1>4, <1>5, <1>6, <1>7, <1>8

B(b) == IF b THEN 1 ELSE 0

BouncedPacket(f, q) == [kind |-> "bounced", flow |-> f, seq |-> q]
Nacks(f, q) == {p \in net : p.kind = "nack" /\ p.flow = f /\ p.seq = q}

(* What is on the network and in the queue.                                *)
DataPackets == [kind : {"data"}, flow : Flow, seq : Nat]
BouncedPackets == [kind : {"bounced"}, flow : Flow, seq : Nat]
Requests == [kind : {"rts"}, flow : Flow, grant : Nat]
Answers == [kind : {"ack", "nack"}, flow : Flow, seq : Nat, cum : Nat,
            pull : BOOLEAN, pullNo : Nat]
Pulls == [kind : {"pull"}, flow : Flow, pullNo : Nat]
Messages == DataPackets \cup BouncedPackets \cup Requests \cup Answers \cup Pulls

Sources == [highest : Nat, rtx : SUBSET Nat, lastPull : Nat, maxPull : Nat,
            pullWindow : Int, firstWindow : Int, acks : Nat, answers : Nat, done : Nat]
Sinks == [pullNo : Nat, received : SUBSET Nat]
Queues == [low : Seq(DataPackets), high : Seq(DataPackets \cup Requests),
           serv : {"invalid", "low", "high"}, crt : Int]
Pacers(pulls) == [pulls : {pulls}, recent : BOOLEAN, due : Nat, later : Nat]

TypeInv ==
  /\ src \in [Flow -> Sources]
  /\ sink \in [Flow -> Sinks]
  /\ queue \in Queues
  /\ pacer \in Pacers(pacer.pulls) /\ WellFormed(pacer.pulls, Flow, Nat)
  /\ net \subseteq Messages
  /\ started \subseteq Flow

(* The queue that is served has a packet.                                  *)
ServiceInv ==
  /\ queue.serv = "low" => queue.low # <<>>
  /\ queue.serv = "high" => queue.high # <<>>

Injective(s) == \A i, j \in DOMAIN s : s[i] = s[j] => i = j

(* No two packets of the network and the queue are alike.                  *)
Apart ==
  /\ Injective(queue.low) /\ Injective(queue.high)
  /\ Range(queue.low) \cap Range(queue.high) = {}
  /\ net \cap (Range(queue.low) \cup Range(queue.high)) = {}

(* The places of a packet, each with one copy or none.                     *)
Copies(f, q) ==
    B(q \in src[f].rtx) + B(q \in sink[f].received)
  + B(DataPacket(f, q) \in net) + B(BouncedPacket(f, q) \in net) + B(Nacks(f, q) # {})
  + B(DataPacket(f, q) \in Range(queue.low)) + B(DataPacket(f, q) \in Range(queue.high))

OnePlace ==
  \A f \in Flow :
     /\ src[f].highest <= Size[f]
     /\ \A q \in Nat :
           /\ Copies(f, q) = B(q \in 1..src[f].highest)
           /\ \A a, b \in Nacks(f, q) : a = b

(* A flow that has not started has nothing under way.                      *)
Fresh ==
  /\ \A p \in net \cup Range(queue.low) \cup Range(queue.high) : p.flow \in started
  /\ Backlogged(pacer.pulls) \subseteq started
  /\ \A f \in Flow \ started :
        src[f].highest = 0 /\ src[f].lastPull = 0 /\ sink[f].pullNo = 0

(* The acknowledgement that ends a flow comes when everything is received. *)
LastAcks(f) == {p \in net : p.kind = "ack" /\ p.flow = f /\ p.cum >= Size[f]}

Ending ==
  \A f \in Flow :
     /\ LastAcks(f) # {} \/ src[f].done # 0 => 1..Size[f] \subseteq sink[f].received
     /\ LastAcks(f) # {} => src[f].done = 0
     /\ src[f].done <= 1
     /\ \A a, b \in LastAcks(f) : a = b

(* A pull number is never ahead of the sink's.                             *)
PullsTrue ==
  \A f \in Flow :
     /\ src[f].lastPull <= src[f].maxPull /\ src[f].maxPull <= sink[f].pullNo
     /\ \A p \in net : p.flow = f /\ p.kind \in {"ack", "nack", "pull"} =>
           p.pullNo <= sink[f].pullNo
     /\ f \in Flows(pacer.pulls) =>
           \A i \in DOMAIN pacer.pulls.map[f] : pacer.pulls.map[f][i] <= sink[f].pullNo

Kinds == {"data", "bounced", "rts"}
Budget ==
  \A f \in Flow :
     /\ IsFiniteSet(OfFlow(net \cup Queued, f, Kinds))
     /\ Cardinality(OfFlow(net \cup Queued, f, Kinds))
          + (sink[f].pullNo - src[f].lastPull) <= Min({Window, Size[f]})

IInv == TypeInv /\ ServiceInv /\ Apart /\ OnePlace /\ Fresh /\ Ending /\ PullsTrue /\ Budget
-----------------------------------------------------------------------------
(* Sequences as sets of packets, no two alike.                             *)
LEMMA AppendRange ==
  ASSUME NEW S, NEW s \in Seq(S), NEW x \in S
  PROVE  /\ Append(s, x) \in Seq(S) /\ Append(s, x) # <<>>
         /\ Range(Append(s, x)) = Range(s) \cup {x}
         /\ Injective(s) /\ x \notin Range(s) => Injective(Append(s, x))
<1> DEFINE n == Len(s)
           t == Append(s, x)
<1>1. /\ t \in Seq(S) /\ t # <<>> /\ n \in Nat
      /\ DOMAIN s = 1..n /\ DOMAIN t = 1..(n + 1)
      /\ \A i \in 1..n : t[i] = s[i]
      /\ t[n + 1] = x
  BY AppendProperties, LenProperties
<1> HIDE DEF n, t
<1>2. Range(t) = Range(s) \cup {x}
  <2>1. \A i \in 1..(n + 1) : i \in 1..n \/ i = n + 1
    BY <1>1
  <2>2. n + 1 \in 1..(n + 1) /\ \A i \in 1..n : i \in 1..(n + 1)
    BY <1>1
  <2> QED
    BY <1>1, <2>1, <2>2 DEF Range
<1>3. ASSUME Injective(s), x \notin Range(s) PROVE Injective(t)
  <2> SUFFICES ASSUME NEW i \in 1..(n + 1), NEW j \in 1..(n + 1), t[i] = t[j] PROVE i = j
    BY <1>1 DEF Injective
  <2>1. \A k \in 1..n : s[k] # x
    BY <1>1, <1>3 DEF Range
  <2>2. CASE i \in 1..n /\ j \in 1..n
    BY <1>1, <1>3, <2>2 DEF Injective
  <2>3. CASE i = n + 1 \/ j = n + 1
    <3>1. CASE i = n + 1 /\ j \in 1..n
      BY <1>1, <2>1, <3>1
    <3>2. CASE j = n + 1 /\ i \in 1..n
      BY <1>1, <2>1, <3>2
    <3> QED
      BY <1>1, <2>3, <3>1, <3>2
  <2> QED
    BY <1>1, <2>2, <2>3
<1> QED
  BY <1>1, <1>2, <1>3 DEF t

LEMMA TailRange ==
  ASSUME NEW S, NEW s \in Seq(S), s # <<>>, Injective(s)
  PROVE  /\ Tail(s) \in Seq(S) /\ Head(s) \in Range(s) /\ Range(s) \subseteq S
         /\ Range(Tail(s)) = Range(s) \ {Head(s)}
         /\ Injective(Tail(s))
<1> DEFINE n == Len(s)
           t == Tail(s)
<1>1. /\ t \in Seq(S) /\ n \in Nat /\ n > 0
      /\ DOMAIN s = 1..n /\ DOMAIN t = 1..(n - 1)
      /\ \A i \in 1..(n - 1) : t[i] = s[i + 1]
      /\ Head(s) = s[1] /\ \A i \in 1..n : s[i] \in S
  BY HeadTailProperties, LenProperties, ElementOfSeq, EmptySeq
<1> HIDE DEF n, t
<1>2. Range(s) \subseteq S /\ Head(s) \in Range(s)
  BY <1>1 DEF Range
<1>3. Range(t) = Range(s) \ {Head(s)}
  <2>1. ASSUME NEW i \in 1..(n - 1) PROVE t[i] \in Range(s) \ {Head(s)}
    <3>1. i + 1 \in 1..n /\ 1 \in 1..n /\ i + 1 # 1
      BY <1>1
    <3>2. t[i] = s[i + 1]
      BY <1>1
    <3>3. s[i + 1] # s[1]
      BY <1>1, <3>1 DEF Injective
    <3>4. s[i + 1] \in Range(s)
      BY <1>1, <3>1 DEF Range
    <3> QED
      BY <1>1, <3>2, <3>3, <3>4
  <2>2. ASSUME NEW i \in 1..n, s[i] # Head(s) PROVE \E j \in 1..(n - 1) : t[j] = s[i]
    <3>1. i - 1 \in 1..(n - 1) /\ (i - 1) + 1 = i
      BY <1>1, <2>2
    <3> QED
      BY <1>1, <3>1
  <2>3. /\ \A x : x \in Range(t) <=> \E i \in 1..(n - 1) : t[i] = x
        /\ \A x : x \in Range(s) <=> \E i \in 1..n : s[i] = x
    BY <1>1 DEF Range
  <2> QED
    BY <2>1, <2>2, <2>3
<1>4. Injective(t)
  <2> SUFFICES ASSUME NEW i \in 1..(n - 1), NEW j \in 1..(n - 1), t[i] = t[j] PROVE i = j
    BY <1>1 DEF Injective
  <2>1. i + 1 \in 1..n /\ j + 1 \in 1..n
    BY <1>1
  <2>2. s[i + 1] = s[j + 1]
    BY <1>1
  <2>3. i + 1 = j + 1
    BY <1>1, <2>1, <2>2 DEF Injective
  <2> QED
    BY <2>3
<1> QED
  BY <1>1, <1>2, <1>3, <1>4 DEF t

LEMMA FrontRange ==
  ASSUME NEW S, NEW s \in Seq(S), s # <<>>, Injective(s)
  PROVE  /\ Front(s) \in Seq(S) /\ Last(s) \in Range(s)
         /\ Range(Front(s)) = Range(s) \ {Last(s)}
         /\ Injective(Front(s))
<1> DEFINE n == Len(s)
           t == Front(s)
<1>1. /\ t \in Seq(S) /\ n \in Nat /\ n > 0
      /\ DOMAIN s = 1..n /\ DOMAIN t = 1..(n - 1)
      /\ \A i \in 1..(n - 1) : t[i] = s[i]
      /\ Last(s) = s[n]
  <2>1. n \in Nat /\ n > 0 /\ DOMAIN s = 1..n /\ Last(s) = s[n]
    BY LenProperties, EmptySeq DEF Last
  <2>2. t = SubSeq(s, 1, n - 1)
    BY DEF Front
  <2> HIDE DEF n, t
  <2>3. t \in Seq(S) /\ Len(t) = n - 1 /\ \A i \in 1..(n - 1) : t[i] = s[i]
    BY <2>1, <2>2 DEF n
  <2> QED
    BY <2>1, <2>3, LenProperties
<1> HIDE DEF n, t
<1>2. Last(s) \in Range(s)
  BY <1>1 DEF Range
<1>3. Range(t) = Range(s) \ {Last(s)}
  <2>1. ASSUME NEW i \in 1..(n - 1) PROVE t[i] \in Range(s) \ {Last(s)}
    <3>1. i \in 1..n /\ n \in 1..n /\ i # n
      BY <1>1
    <3>2. s[i] # s[n]
      BY <1>1, <3>1 DEF Injective
    <3>3. s[i] \in Range(s)
      BY <1>1, <3>1 DEF Range
    <3> QED
      BY <1>1, <3>1, <3>2, <3>3
  <2>2. ASSUME NEW i \in 1..n, s[i] # Last(s) PROVE \E j \in 1..(n - 1) : t[j] = s[i]
    <3>1. i \in 1..(n - 1)
      BY <1>1, <2>2
    <3> QED
      BY <1>1, <3>1
  <2>3. /\ \A x : x \in Range(t) <=> \E i \in 1..(n - 1) : t[i] = x
        /\ \A x : x \in Range(s) <=> \E i \in 1..n : s[i] = x
    BY <1>1 DEF Range
  <2> QED
    BY <2>1, <2>2, <2>3
<1>4. Injective(t)
  BY <1>1 DEF Injective
<1> QED
  BY <1>1, <1>2, <1>3, <1>4 DEF t

(* The greatest element of a bounded set.                                  *)
LEMMA MaxFacts ==
  ASSUME NEW N \in Nat, NEW S \in SUBSET (0..N), S # {}
  PROVE  Max(S) \in S /\ \A x \in S : Max(S) >= x
<1> DEFINE T == {N - x : x \in S}
<1>0. \A x \in S : x \in Nat /\ x <= N
  OBVIOUS
<1>1. T \in SUBSET Nat /\ T # {}
  <2>1. \A x \in S : N - x \in Nat
    BY <1>0
  <2> QED
    BY <2>1
<1> HIDE DEF T
<1>2. Min(T) \in T /\ \A y \in T : Min(T) <= y
  BY <1>1, SameQueue, Fair!MinFacts DEF WellFormed
<1>3. PICK m \in S : Min(T) = N - m
  BY <1>2 DEF T
<1>4. \A x \in S : m >= x
  <2> TAKE x \in S
  <2>1. N - x \in T
    BY DEF T
  <2>2. N - m <= N - x
    BY <1>2, <1>3, <2>1
  <2> QED
    BY <1>0, <2>2
<1> QED
  BY <1>4 DEF Max
-----------------------------------------------------------------------------
(* What a source sends: the first of the packets at hand.                  *)
Ready(f, s) == s.rtx \cup (s.highest + 1)..Size[f]

(* The packets at hand up to some point.                                   *)
FirstOf(f, s, out) ==
  /\ out \subseteq Ready(f, s)
  /\ \A q \in out : \A r \in Ready(f, s) : r <= q => r \in out

LEMMA OutgoingFacts ==
  ASSUME NEW f \in Flow, NEW s, s.highest \in Nat, s.highest <= Size[f],
         s.rtx \subseteq 1..s.highest, NEW n \in Int
  PROVE  /\ FirstOf(f, s, Outgoing(f, s, n))
         /\ n >= 0 => Cardinality(Outgoing(f, s, n)) <= n
<1> DEFINE ready == Ready(f, s)
           upTo(q) == {r \in ready : r <= q}
           out == Outgoing(f, s, n)
<1>1. Size[f] \in Nat
  BY FlowConstants
<1>2. ready \subseteq 1..Size[f] /\ IsFiniteSet(ready)
  <2>1. ready \subseteq 1..Size[f]
    BY <1>1 DEF Ready
  <2>2. IsFiniteSet(1..Size[f])
    BY <1>1, FS_Interval
  <2> QED
    BY <2>1, <2>2, FS_Subset
<1>3. out = {q \in ready : Cardinality(upTo(q)) <= n}
  BY DEF Outgoing, Ready
<1> HIDE DEF ready, out
<1>4. \A q : IsFiniteSet(upTo(q)) /\ Cardinality(upTo(q)) \in Nat
  <2> TAKE q
  <2>1. upTo(q) \in SUBSET ready
    OBVIOUS
  <2> QED
    BY <1>2, <2>1, FS_Subset, FS_CardinalityType
<1>5. \A q, r \in ready : r <= q => Cardinality(upTo(r)) <= Cardinality(upTo(q))
  <2> SUFFICES ASSUME NEW q \in ready, NEW r \in ready, r <= q
               PROVE  Cardinality(upTo(r)) <= Cardinality(upTo(q))
    OBVIOUS
  <2>1. upTo(r) \in SUBSET upTo(q)
    BY <1>1, <1>2
  <2> HIDE DEF upTo
  <2> QED
    BY <1>4, <2>1, FS_Subset
<1>6. \A q \in out : \A r \in ready : r <= q => r \in out
  <2> SUFFICES ASSUME NEW q \in out, NEW r \in ready, r <= q PROVE r \in out
    OBVIOUS
  <2>1. q \in ready /\ Cardinality(upTo(q)) <= n
    BY <1>3
  <2>2. Cardinality(upTo(r)) <= Cardinality(upTo(q))
    BY <1>5, <2>1
  <2> HIDE DEF upTo
  <2> QED
    BY <1>3, <1>4, <2>1, <2>2
<1>7. ASSUME n >= 0 PROVE Cardinality(out) <= n
  <2>1. CASE out = {}
    BY <1>7, <2>1, FS_EmptySet
  <2>2. CASE out # {}
    <3>1. out \in SUBSET (0..Size[f])
      <4>1. out \subseteq 1..Size[f]
        BY <1>2, <1>3
      <4>2. \A x \in 1..Size[f] : x \in 0..Size[f]
        BY <1>1
      <4> QED
        BY <4>1, <4>2
    <3>2. Max(out) \in out /\ \A x \in out : Max(out) >= x
      BY <1>1, <2>2, <3>1, MaxFacts
    <3>3. Cardinality(upTo(Max(out))) <= n
      BY <1>3, <3>2
    <3>4. out \in SUBSET upTo(Max(out))
      BY <1>3, <3>1, <3>2
    <3>5. Cardinality(out) <= Cardinality(upTo(Max(out))) /\ Cardinality(out) \in Nat
      <4> HIDE DEF upTo
      <4> QED
        BY <1>4, <3>4, FS_Subset, FS_CardinalityType
    <3> HIDE DEF upTo
    <3> QED
      BY <1>4, <3>3, <3>5
  <2> QED
    BY <2>1, <2>2
<1> QED
  BY <1>3, <1>6, <1>7 DEF FirstOf, ready, out

(* The highest packet sent follows without a gap.                          *)
LEMMA FirstOfFacts ==
  ASSUME NEW f \in Flow, NEW s, s.highest \in Nat, s.highest <= Size[f],
         s.rtx \subseteq 1..s.highest, NEW out, FirstOf(f, s, out),
         NEW h, h = Max(out \cup {s.highest})
  PROVE  /\ h \in Nat /\ h <= Size[f]
         /\ \A q \in Nat : q \in 1..h <=> q \in 1..s.highest \/ q \in out
         /\ out \subseteq 1..Size[f] /\ IsFiniteSet(out) /\ Cardinality(out) \in Nat
<1>1. Size[f] \in Nat
  BY FlowConstants
<1>2. out \subseteq 1..Size[f] /\ out \subseteq s.rtx \cup (s.highest + 1)..Size[f]
  BY <1>1 DEF FirstOf, Ready
<1>3. IsFiniteSet(out) /\ Cardinality(out) \in Nat
  <2>1. IsFiniteSet(1..Size[f])
    BY <1>1, FS_Interval
  <2> QED
    BY <1>2, <2>1, FS_Subset, FS_CardinalityType
<1> DEFINE S == out \cup {s.highest}
<1>4. S \in SUBSET (0..Size[f]) /\ S # {} /\ s.highest \in S
  <2>1. \A x \in 1..Size[f] : x \in 0..Size[f]
    BY <1>1
  <2>2. s.highest \in 0..Size[f]
    BY <1>1
  <2> QED
    BY <1>2, <2>1, <2>2
<1>5. h \in S /\ \A x \in S : h >= x
  BY <1>1, <1>4, MaxFacts
<1>6. h \in Nat /\ h <= Size[f] /\ s.highest <= h
  BY <1>1, <1>4, <1>5
<1>7. ASSUME NEW q \in Nat, q \in 1..h, q \notin 1..s.highest PROVE q \in out
  <2>1. h # s.highest /\ h \in out
    BY <1>5, <1>7
  <2>2. q \in Ready(f, s) /\ q <= h
    BY <1>1, <1>6, <1>7 DEF Ready
  <2> QED
    BY <2>1, <2>2 DEF FirstOf
<1>8. ASSUME NEW q \in out PROVE q \in 1..h
  BY <1>2, <1>5, <1>6
<1>9. \A q \in 1..s.highest : q \in 1..h
  BY <1>6
<1> QED
  BY <1>2, <1>3, <1>6, <1>7, <1>8, <1>9
-----------------------------------------------------------------------------
(* The queue: what its operations do to the sets of packets it holds.      *)
LEMMA BeginServiceFacts ==
  ASSUME NEW q \in Queues
  PROVE  /\ BeginService(q) \in Queues
         /\ BeginService(q).low = q.low /\ BeginService(q).high = q.high
         /\ BeginService(q).serv = "low" => q.low # <<>>
         /\ BeginService(q).serv = "high" => q.high # <<>>
<1> DEFINE both == q.low # <<>> /\ q.high # <<>>
           crt == IF both THEN (q.crt + 1) % (RatioHigh + RatioLow) ELSE q.crt
           serv == IF q.low # <<>> /\ (both => crt >= RatioHigh) THEN "low"
                   ELSE IF q.high # <<>> THEN "high" ELSE "invalid"
<1>1. BeginService(q) = [q EXCEPT !.crt = crt, !.serv = serv]
  BY DEF BeginService
<1>2. crt \in Int
  <2>1. RatioHigh + RatioLow \in Nat \ {0} /\ q.crt \in Int
    BY QueueConstants DEF Queues
  <2> QED
    BY <2>1
<1>3. /\ serv \in {"invalid", "low", "high"}
      /\ serv = "low" => q.low # <<>>
      /\ serv = "high" => q.high # <<>>
  OBVIOUS
<1> HIDE DEF both, crt, serv
<1> QED
  BY <1>1, <1>2, <1>3 DEF Queues

GoodQueue(q) ==
  /\ q \in Queues
  /\ q.serv = "low" => q.low # <<>>
  /\ q.serv = "high" => q.high # <<>>
  /\ Injective(q.low) /\ Injective(q.high) /\ Range(q.low) \cap Range(q.high) = {}

(* A packet more in one of the queues, which may begin its service.        *)
LEMMA WakeUpFacts ==
  ASSUME NEW q, GoodQueue(q)
  PROVE  /\ GoodQueue(WakeUp(q))
         /\ WakeUp(q).low = q.low /\ WakeUp(q).high = q.high
BY BeginServiceFacts DEF WakeUp, GoodQueue

(* A header waits, or goes back.                                           *)
HeaderWaits(q, p, r) ==
  /\ GoodQueue(r.queue) /\ r.queue.low = q.low
  /\ \/ Range(r.queue.high) = Range(q.high) \cup {p} /\ r.bounced = {}
     \/ r.queue.high = q.high /\ r.bounced = {p}

LEMMA EnqueueHeaderFacts ==
  ASSUME NEW q, GoodQueue(q), NEW p \in DataPackets \cup Requests,
         p \notin Range(q.low), p \notin Range(q.high)
  PROVE  HeaderWaits(q, p, EnqueueHeader(q, p))
<1> DEFINE r == EnqueueHeader(q, p)
<1> SUFFICES HeaderWaits(q, p, r)
  OBVIOUS
<1>1. CASE Len(q.high) < HighRoom
  <2> DEFINE t == [q EXCEPT !.high = Append(q.high, p)]
  <2>1. r = [queue |-> WakeUp(t), bounced |-> {}]
    BY <1>1 DEF EnqueueHeader
  <2>2. /\ Append(q.high, p) \in Seq(DataPackets \cup Requests)
        /\ Append(q.high, p) # <<>>
        /\ Range(Append(q.high, p)) = Range(q.high) \cup {p}
        /\ Injective(Append(q.high, p))
    BY AppendRange DEF GoodQueue, Queues
  <2>3. t.high = Append(q.high, p) /\ t.low = q.low /\ t.serv = q.serv /\ t \in Queues
    BY <2>2 DEF GoodQueue, Queues
  <2> HIDE DEF t
  <2>4. GoodQueue(t)
    BY <2>2, <2>3 DEF GoodQueue
  <2>5. GoodQueue(WakeUp(t)) /\ WakeUp(t).low = t.low /\ WakeUp(t).high = t.high
    BY <2>4, WakeUpFacts
  <2>6. r.queue = WakeUp(t) /\ r.bounced = {}
    BY <2>1
  <2> QED
    BY <2>2, <2>3, <2>5, <2>6 DEF HeaderWaits
<1>2. CASE ~(Len(q.high) < HighRoom)
  BY <1>2 DEF EnqueueHeader, HeaderWaits
<1> QED
  BY <1>1, <1>2

(* A packet that arrives goes where there is room; what it pushes out, or  *)
(* it itself, becomes a header or goes back.                               *)
Arrives(q, p, r) ==
  \E h \in {p} \cup Range(q.low) :
     LET low == (Range(q.low) \cup (IF p.kind = "data" THEN {p} ELSE {})) \ {h}
     IN  \/ /\ p.kind = "data" /\ h = p
            /\ Range(r.queue.low) = Range(q.low) \cup {p}
            /\ Range(r.queue.high) = Range(q.high) /\ r.bounced = {}
         \/ /\ Range(r.queue.low) = low
            /\ Range(r.queue.high) = Range(q.high) \cup {h} /\ r.bounced = {}
            /\ p.kind = "data" \/ h = p
         \/ /\ Range(r.queue.low) = low
            /\ Range(r.queue.high) = Range(q.high) /\ r.bounced = {h}
            /\ p.kind = "data" \/ h = p

LEMMA ReceivePacketFacts ==
  ASSUME NEW q, GoodQueue(q), NEW p \in DataPackets \cup Requests,
         p \notin Range(q.low), p \notin Range(q.high),
         NEW r \in ReceivePacket(q, p)
  PROVE  GoodQueue(r.queue) /\ Arrives(q, p, r)
<1>0. /\ q.low \in Seq(DataPackets) /\ q.high \in Seq(DataPackets \cup Requests)
      /\ p \in Requests => p.kind # "data"
      /\ p \in DataPackets => p.kind = "data"
  BY DEF GoodQueue, Queues, DataPackets, Requests
<1>1. CASE r = EnqueueHeader(q, p)
  <2>1. /\ GoodQueue(r.queue) /\ r.queue.low = q.low
        /\ \/ Range(r.queue.high) = Range(q.high) \cup {p} /\ r.bounced = {}
           \/ r.queue.high = q.high /\ r.bounced = {p}
    BY <1>1, EnqueueHeaderFacts DEF HeaderWaits
  <2>2. (Range(q.low) \cup (IF p.kind = "data" THEN {p} ELSE {})) \ {p} = Range(q.low)
    OBVIOUS
  <2> QED
    BY <2>1, <2>2 DEF Arrives
<1>2. CASE p.kind = "data" /\ LowFull(q)
           /\ r = EnqueueHeader([q EXCEPT !.low = Append(Front(q.low), p)], Last(q.low))
  <2> DEFINE h == Last(q.low)
             low == Append(Front(q.low), p)
             t == [q EXCEPT !.low = low]
  <2>1. q.low # <<>>
    <3>1. Len(q.low) >= LowRoom /\ LowRoom > 0
      BY <1>2, QueueConstants DEF LowFull
    <3>2. q.low = <<>> => Len(q.low) = 0
      OBVIOUS
    <3> QED
      BY <3>1, <3>2, QueueConstants
  <2>2. p \in DataPackets
    BY <1>0, <1>2
  <2>3. /\ Front(q.low) \in Seq(DataPackets) /\ h \in Range(q.low)
        /\ Range(Front(q.low)) = Range(q.low) \ {h} /\ Injective(Front(q.low))
    BY <1>0, <2>1, FrontRange DEF GoodQueue
  <2>4. p \notin Range(Front(q.low))
    BY <2>3
  <2>5. /\ low \in Seq(DataPackets) /\ low # <<>>
        /\ Range(low) = (Range(q.low) \ {h}) \cup {p} /\ Injective(low)
    BY <2>2, <2>3, <2>4, AppendRange
  <2>6. h \in DataPackets /\ h # p /\ h \notin Range(q.high)
    <3>1. Range(q.low) \subseteq DataPackets
      BY <1>0, <2>1, TailRange DEF GoodQueue
    <3> QED
      BY <2>3, <3>1 DEF GoodQueue
  <2> HIDE DEF h, low
  <2>7. t \in Queues /\ t.low = low /\ t.high = q.high /\ t.serv = q.serv
    BY <2>5 DEF GoodQueue, Queues
  <2> HIDE DEF t
  <2>8. GoodQueue(t)
    BY <2>5, <2>7 DEF GoodQueue
  <2>9. r = EnqueueHeader(t, h)
    BY <1>2 DEF t, low, h
  <2>10. h \notin Range(t.low) /\ h \notin Range(t.high)
    BY <2>5, <2>6, <2>7
  <2>11. /\ GoodQueue(r.queue) /\ r.queue.low = t.low
         /\ \/ Range(r.queue.high) = Range(t.high) \cup {h} /\ r.bounced = {}
            \/ r.queue.high = t.high /\ r.bounced = {h}
    <3>1. h \in DataPackets \cup Requests
      BY <2>6
    <3>2. HeaderWaits(t, h, EnqueueHeader(t, h))
      BY <2>8, <2>10, <3>1, EnqueueHeaderFacts
    <3> QED
      BY <2>9, <3>2 DEF HeaderWaits
  <2>12. (Range(q.low) \cup (IF p.kind = "data" THEN {p} ELSE {})) \ {h} = Range(low)
    BY <1>2, <2>5, <2>6
  <2> QED
    BY <1>2, <2>3, <2>7, <2>11, <2>12 DEF Arrives
<1>3. CASE p.kind = "data" /\ r = [queue |-> WakeUp([q EXCEPT !.low = Append(q.low, p)]), bounced |-> {}]
  <2> DEFINE low == Append(q.low, p)
             t == [q EXCEPT !.low = low]
  <2>1. p \in DataPackets
    BY <1>0, <1>3
  <2>2. /\ low \in Seq(DataPackets) /\ low # <<>>
        /\ Range(low) = Range(q.low) \cup {p} /\ Injective(low)
    BY <1>0, <2>1, AppendRange DEF GoodQueue
  <2> HIDE DEF low
  <2>3. t \in Queues /\ t.low = low /\ t.high = q.high /\ t.serv = q.serv
    BY <2>2 DEF GoodQueue, Queues
  <2> HIDE DEF t
  <2>4. GoodQueue(t)
    BY <2>2, <2>3 DEF GoodQueue
  <2>5. GoodQueue(WakeUp(t)) /\ WakeUp(t).low = t.low /\ WakeUp(t).high = t.high
    BY <2>4, WakeUpFacts
  <2>6. r.queue = WakeUp(t) /\ r.bounced = {}
    BY <1>3 DEF t, low
  <2> QED
    BY <1>3, <2>2, <2>3, <2>5, <2>6 DEF Arrives
<1> QED
  BY <1>1, <1>2, <1>3 DEF ReceivePacket

(* The packet in service leaves, and the next one's service begins.        *)
LEMMA CompleteServiceFacts ==
  ASSUME NEW q, GoodQueue(q), Serving(q), NEW p, p = InService(q)
  PROVE  /\ GoodQueue(CompleteService(q))
         /\ \/ /\ q.serv = "low" /\ p \in Range(q.low) /\ p \in DataPackets
               /\ Range(CompleteService(q).low) = Range(q.low) \ {p}
               /\ Range(CompleteService(q).high) = Range(q.high)
            \/ /\ q.serv = "high" /\ p \in Range(q.high) /\ p \in DataPackets \cup Requests
               /\ Range(CompleteService(q).low) = Range(q.low)
               /\ Range(CompleteService(q).high) = Range(q.high) \ {p}
<1>0. /\ q \in Queues
      /\ q.low \in Seq(DataPackets) /\ q.high \in Seq(DataPackets \cup Requests)
  BY DEF GoodQueue, Queues
<1>1. CASE q.serv = "low"
  <2> DEFINE t == [q EXCEPT !.low = Tail(q.low)]
  <2>1. p = Head(q.low) /\ CompleteService(q) = BeginService(t)
    BY <1>1 DEF InService, CompleteService
  <2>2. q.low # <<>> /\ Injective(q.low)
    BY <1>1 DEF GoodQueue
  <2>3. /\ Tail(q.low) \in Seq(DataPackets) /\ p \in Range(q.low)
        /\ Range(q.low) \subseteq DataPackets
        /\ Range(Tail(q.low)) = Range(q.low) \ {p}
        /\ Injective(Tail(q.low))
    BY <1>0, <2>1, <2>2, TailRange
  <2>4. t \in Queues /\ t.low = Tail(q.low) /\ t.high = q.high
    BY <1>0, <2>3 DEF Queues
  <2> HIDE DEF t
  <2>5. /\ BeginService(t) \in Queues
        /\ BeginService(t).low = t.low /\ BeginService(t).high = t.high
        /\ BeginService(t).serv = "low" => t.low # <<>>
        /\ BeginService(t).serv = "high" => t.high # <<>>
    BY <2>4, BeginServiceFacts
  <2> QED
    BY <1>1, <2>1, <2>3, <2>4, <2>5 DEF GoodQueue
<1>2. CASE q.serv = "high"
  <2> DEFINE t == [q EXCEPT !.high = Tail(q.high)]
  <2>1. p = Head(q.high) /\ CompleteService(q) = BeginService(t)
    BY <1>2 DEF InService, CompleteService
  <2>2. q.high # <<>> /\ Injective(q.high)
    BY <1>2 DEF GoodQueue
  <2>3. /\ Tail(q.high) \in Seq(DataPackets \cup Requests) /\ p \in Range(q.high)
        /\ Range(q.high) \subseteq DataPackets \cup Requests
        /\ Range(Tail(q.high)) = Range(q.high) \ {p}
        /\ Injective(Tail(q.high))
    BY <1>0, <2>1, <2>2, TailRange
  <2>4. t \in Queues /\ t.high = Tail(q.high) /\ t.low = q.low
    BY <1>0, <2>3 DEF Queues
  <2> HIDE DEF t
  <2>5. /\ BeginService(t) \in Queues
        /\ BeginService(t).low = t.low /\ BeginService(t).high = t.high
        /\ BeginService(t).serv = "low" => t.low # <<>>
        /\ BeginService(t).serv = "high" => t.high # <<>>
    BY <2>4, BeginServiceFacts
  <2> QED
    BY <1>2, <2>1, <2>3, <2>4, <2>5 DEF GoodQueue
<1> QED
  BY <1>0, <1>1, <1>2 DEF Serving, Queues
-----------------------------------------------------------------------------
(* Packets and answers.                                                    *)
LEMMA PacketFacts ==
  /\ \A f, q : /\ DataPacket(f, q).kind = "data" /\ DataPacket(f, q).flow = f
               /\ DataPacket(f, q).seq = q
               /\ BouncedPacket(f, q).kind = "bounced" /\ BouncedPacket(f, q).flow = f
               /\ BouncedPacket(f, q).seq = q
  /\ \A f \in Flow : \A q \in Nat :
        DataPacket(f, q) \in DataPackets /\ BouncedPacket(f, q) \in BouncedPackets
BY DEF DataPacket, BouncedPacket, DataPackets, BouncedPackets

LEMMA MessageFacts ==
  ASSUME NEW p \in Messages
  PROVE  /\ p.flow \in Flow
         /\ p.kind \in {"data", "bounced", "rts", "ack", "nack", "pull"}
         /\ p.kind = "data" => p \in DataPackets /\ p = DataPacket(p.flow, p.seq) /\ p.seq \in Nat
         /\ p.kind = "bounced" => p = BouncedPacket(p.flow, p.seq) /\ p.seq \in Nat
         /\ p.kind = "rts" => p \in Requests
         /\ p.kind = "nack" => p.seq \in Nat /\ p.pullNo \in Nat
         /\ p.kind = "ack" => p.cum \in Nat /\ p.pullNo \in Nat
         /\ p.kind = "pull" => p.pullNo \in Nat
<1>1. CASE p \in DataPackets
  BY <1>1 DEF DataPackets, DataPacket
<1>2. CASE p \in BouncedPackets
  BY <1>2 DEF BouncedPackets, BouncedPacket
<1>3. CASE p \in Requests
  BY <1>3 DEF Requests
<1>4. CASE p \in Answers
  BY <1>4 DEF Answers
<1>5. CASE p \in Pulls
  BY <1>5 DEF Pulls
<1> QED
  BY <1>1, <1>2, <1>3, <1>4, <1>5 DEF Messages

LEMMA QueuedFacts ==
  ASSUME queue \in Queues
  PROVE  /\ Queued = Range(queue.low) \cup Range(queue.high)
         /\ Range(queue.low) \subseteq DataPackets
         /\ Range(queue.high) \subseteq DataPackets \cup Requests
<1>1. queue.low \in Seq(DataPackets) /\ queue.high \in Seq(DataPackets \cup Requests)
  BY DEF Queues
<1>2. Range(queue.low \o queue.high) = Range(queue.low) \cup Range(queue.high)
  <2>1. queue.low \in Seq(DataPackets \cup Requests)
    BY <1>1
  <2> QED
    BY <1>1, <2>1, RangeConcatenation
<1>3. Range(queue.low) \subseteq DataPackets /\ Range(queue.high) \subseteq DataPackets \cup Requests
  BY <1>1 DEF Range
<1> QED
  BY <1>2, <1>3 DEF Queued

(* The window of a flow.                                                   *)
LEMMA MinOfWindow ==
  ASSUME NEW f \in Flow
  PROVE  /\ Min({Window, Size[f]}) \in Nat \ {0} /\ Min({Window, Size[f]}) <= Size[f]
<1>1. Window \in Nat \ {0} /\ Size[f] \in Nat \ {0}
  BY FlowConstants
<1> DEFINE S == {Window, Size[f]}
<1>2. S \in SUBSET Nat /\ S # {} /\ Size[f] \in S
  BY <1>1
<1>3. Min(S) \in S /\ \A n \in S : Min(S) <= n
  BY <1>2, SameQueue, Fair!MinFacts DEF WellFormed
<1> QED
  BY <1>1, <1>2, <1>3

LEMMA MaxOfTwo ==
  ASSUME NEW a \in Nat, NEW b \in Nat
  PROVE  /\ Max({a, b}) \in Nat /\ Max({a, b}) >= a /\ Max({a, b}) >= b
         /\ Max({a, b}) = a \/ Max({a, b}) = b
<1> DEFINE S == {a, b}
<1>1. S \in SUBSET (0..(a + b)) /\ S # {}
  OBVIOUS
<1>2. Max(S) \in S /\ \A x \in S : Max(S) >= x
  BY <1>1, MaxFacts
<1> QED
  BY <1>2

(* The places of one packet, none or one of them taken.                    *)
LEMMA PlaceFacts ==
  ASSUME TypeInv, OnePlace, NEW f \in Flow, NEW q \in Nat
  PROVE  /\ src[f].highest \in Nat /\ src[f].highest <= Size[f]
         /\ Copies(f, q) = B(q \in 1..src[f].highest)
         /\ \/ q \in src[f].rtx \/ q \in sink[f].received \/ DataPacket(f, q) \in net
            \/ BouncedPacket(f, q) \in net \/ Nacks(f, q) # {}
            \/ DataPacket(f, q) \in Range(queue.low) \/ DataPacket(f, q) \in Range(queue.high)
            => q \in 1..src[f].highest
<1>1. src[f].highest \in Nat /\ src[f].highest <= Size[f] /\ Copies(f, q) = B(q \in 1..src[f].highest)
  BY DEF TypeInv, Sources, OnePlace
<1> QED
  BY <1>1 DEF Copies, B

LEMMA SourceBounds ==
  ASSUME TypeInv, OnePlace, NEW f \in Flow
  PROVE  /\ src[f].highest \in Nat /\ src[f].highest <= Size[f] /\ Size[f] \in Nat \ {0}
         /\ src[f].rtx \subseteq 1..src[f].highest
         /\ sink[f].received \subseteq 1..src[f].highest
         /\ src[f] \in Sources /\ sink[f] \in Sinks
<1>1. src[f] \in Sources /\ sink[f] \in Sinks
  BY DEF TypeInv
<1>2. src[f].rtx \subseteq Nat /\ sink[f].received \subseteq Nat
  BY <1>1 DEF Sources, Sinks
<1>3. \A q \in Nat : q \in src[f].rtx \/ q \in sink[f].received => q \in 1..src[f].highest
  BY PlaceFacts
<1>4. src[f].highest \in Nat /\ src[f].highest <= Size[f]
  BY <1>1 DEF Sources, OnePlace
<1> QED
  BY <1>1, <1>2, <1>3, <1>4, FlowConstants
-----------------------------------------------------------------------------
LEMMA InitIInv ==
  ASSUME Init
  PROVE  IInv
<1>0. /\ src = [f \in Flow |-> Source] /\ sink = [f \in Flow |-> Sink] /\ pacer = Pacer
      /\ queue = EmptyComposite /\ net = {} /\ started = {}
  BY DEF Init
<1>1. queue \in Queues /\ queue.low = <<>> /\ queue.high = <<>> /\ queue.serv = "invalid"
  BY <1>0 DEF Queues, EmptyComposite
<1>2. Range(queue.low) = {} /\ Range(queue.high) = {} /\ Queued = {}
  <2>1. Range(queue.low) = {} /\ Range(queue.high) = {}
    BY <1>1 DEF Range
  <2> QED
    BY <1>1, <2>1, QueuedFacts
<1>3. \A f \in Flow : src[f] = Source /\ sink[f] = Sink
  BY <1>0
<1>4. Source \in Sources /\ Sink \in Sinks
  BY DEF Source, Sources, Sink, Sinks
<1>5. pacer \in Pacers(pacer.pulls) /\ pacer.pulls = EmptyFair
  BY <1>0 DEF Pacer, Pacers
<1>6. TypeInv
  <2>1. src \in [Flow -> Sources] /\ sink \in [Flow -> Sinks]
    BY <1>0, <1>4
  <2>2. WellFormed(pacer.pulls, Flow, Nat)
    BY <1>5, SameQueue, Fair!EmptyFairFacts DEF WellFormed
  <2> QED
    BY <1>0, <1>1, <1>5, <2>1, <2>2 DEF TypeInv
<1>7. ServiceInv /\ Apart
  BY <1>0, <1>1, <1>2 DEF ServiceInv, Apart, Injective
<1>8. OnePlace
  <2>1. \A f \in Flow : src[f].highest = 0 /\ src[f].rtx = {} /\ sink[f].received = {}
    BY <1>3 DEF Source, Sink
  <2>2. \A f \in Flow : \A q \in Nat : Nacks(f, q) = {}
    BY <1>0 DEF Nacks
  <2>3. \A f \in Flow : \A q \in Nat : Copies(f, q) = B(q \in 1..src[f].highest)
    BY <1>0, <1>2, <2>1, <2>2 DEF Copies, B
  <2>4. \A f \in Flow : Size[f] \in Nat
    BY FlowConstants
  <2> QED
    BY <2>1, <2>2, <2>3, <2>4 DEF OnePlace
<1>9. Fresh
  <2>1. Backlogged(pacer.pulls) = {}
    BY <1>5, SameQueue, Fair!EmptyFairFacts DEF WellFormed
  <2>2. \A f \in Flow : src[f].highest = 0 /\ src[f].lastPull = 0 /\ sink[f].pullNo = 0
    BY <1>3 DEF Source, Sink
  <2> QED
    BY <1>0, <1>2, <2>1, <2>2 DEF Fresh
<1>10. Ending
  <2>1. \A f \in Flow : LastAcks(f) = {} /\ src[f].done = 0
    BY <1>0, <1>3 DEF LastAcks, Source
  <2> QED
    BY <2>1 DEF Ending
<1>11. PullsTrue
  <2>1. Flows(pacer.pulls) = {}
    BY <1>5, SameQueue, Fair!EmptyFairFacts DEF WellFormed
  <2>2. \A f \in Flow : src[f].lastPull = 0 /\ src[f].maxPull = 0 /\ sink[f].pullNo = 0
    BY <1>3 DEF Source, Sink
  <2> QED
    BY <1>0, <2>1, <2>2 DEF PullsTrue
<1>12. Budget
  <2> SUFFICES ASSUME NEW f \in Flow
               PROVE  /\ IsFiniteSet(OfFlow(net \cup Queued, f, Kinds))
                      /\ Cardinality(OfFlow(net \cup Queued, f, Kinds))
                           + (sink[f].pullNo - src[f].lastPull) <= Min({Window, Size[f]})
    BY DEF Budget
  <2>1. OfFlow(net \cup Queued, f, Kinds) = {}
    BY <1>0, <1>2 DEF OfFlow
  <2>2. src[f].lastPull = 0 /\ sink[f].pullNo = 0
    BY <1>3 DEF Source, Sink
  <2>3. Min({Window, Size[f]}) \in Nat
    BY MinOfWindow
  <2> QED
    BY <2>1, <2>2, <2>3, FS_EmptySet
<1> QED
  BY <1>6, <1>7, <1>8, <1>9, <1>10, <1>11, <1>12 DEF IInv
-----------------------------------------------------------------------------
(* An answer p makes the source of f send the packets out: s is the source *)
(* when it has taken note of the answer, t when it has sent.               *)
Back(p) == IF p.kind \in {"nack", "bounced"} THEN {p.seq} ELSE {}

SourceStep(p, f, s, out, t) ==
  /\ p \in net /\ p.flow = f /\ p.kind \in {"ack", "nack", "pull", "bounced"}
  /\ s.highest = src[f].highest /\ s.rtx = src[f].rtx \cup Back(p)
  /\ FirstOf(f, s, out)
  /\ t \in Sources /\ t.rtx = s.rtx \ out /\ t.highest = Max(out \cup {s.highest})
  /\ src' = [src EXCEPT ![f] = t]
  /\ net' = (net \ {p}) \cup Data(f, out)
  /\ UNCHANGED <<sink, queue, pacer, started>>

LEMMA SourceStepFacts ==
  ASSUME TypeInv, OnePlace, NEW p, NEW f \in Flow, NEW s, NEW out, NEW t,
         SourceStep(p, f, s, out, t)
  PROVE  /\ s.rtx \subseteq 1..s.highest /\ s.highest \in Nat /\ s.highest <= Size[f]
         /\ t.highest \in Nat /\ t.highest <= Size[f]
         /\ \A q \in Nat : q \in 1..t.highest <=> q \in 1..src[f].highest \/ q \in out
         /\ out \subseteq 1..Size[f] /\ out \subseteq Nat
         /\ IsFiniteSet(out) /\ Cardinality(out) \in Nat
         /\ \A q \in out : q \in s.rtx \/ q \notin 1..src[f].highest
<1>1. p \in Messages /\ p.flow = f
  BY DEF SourceStep, TypeInv
<1>2. \A q \in Back(p) : q \in Nat /\ q \in 1..src[f].highest
  <2> SUFFICES ASSUME NEW q \in Back(p) PROVE q \in Nat /\ q \in 1..src[f].highest
    OBVIOUS
  <2>1. q = p.seq /\ p.kind \in {"nack", "bounced"}
    BY DEF Back
  <2>2. q \in Nat
    BY <1>1, <2>1, MessageFacts
  <2>3. CASE p.kind = "bounced"
    <3>1. BouncedPacket(f, q) \in net
      BY <1>1, <2>1, <2>3, MessageFacts DEF SourceStep
    <3> QED
      BY <2>2, <3>1, PlaceFacts
  <2>4. CASE p.kind = "nack"
    <3>1. Nacks(f, q) # {}
      BY <1>1, <2>1, <2>4 DEF SourceStep, Nacks
    <3> QED
      BY <2>2, <3>1, PlaceFacts
  <2> QED
    BY <2>1, <2>3, <2>4
<1>3. /\ s.rtx \subseteq 1..s.highest /\ s.highest \in Nat /\ s.highest <= Size[f]
      /\ Size[f] \in Nat
  BY <1>2, SourceBounds DEF SourceStep
<1>4. /\ t.highest \in Nat /\ t.highest <= Size[f]
      /\ \A q \in Nat : q \in 1..t.highest <=> q \in 1..s.highest \/ q \in out
      /\ out \subseteq 1..Size[f] /\ IsFiniteSet(out) /\ Cardinality(out) \in Nat
  <2>1. FirstOf(f, s, out) /\ t.highest = Max(out \cup {s.highest})
    BY DEF SourceStep
  <2> QED
    BY <1>3, <2>1, FirstOfFacts
<1>5. \A q \in out : q \in s.rtx \/ q \notin 1..src[f].highest
  BY <1>3 DEF SourceStep, FirstOf, Ready
<1>6. out \subseteq Nat
  BY <1>3, <1>4
<1>7. s.highest = src[f].highest
  BY DEF SourceStep
<1> QED
  BY <1>3, <1>4, <1>5, <1>6, <1>7

LEMMA SourceStepPlaces ==
  ASSUME IInv, NEW p, NEW f \in Flow, NEW s, NEW out, NEW t,
         SourceStep(p, f, s, out, t)
  PROVE  OnePlace'
<1>0. TypeInv /\ OnePlace /\ Apart
  BY DEF IInv
<1>1. /\ p \in net /\ p \in Messages /\ p.flow = f /\ p.kind \in {"ack", "nack", "pull", "bounced"}
      /\ src' = [src EXCEPT ![f] = t] /\ net' = (net \ {p}) \cup Data(f, out)
      /\ sink' = sink /\ queue' = queue
      /\ t.rtx = (src[f].rtx \cup Back(p)) \ out
      /\ src'[f] = t /\ \A g \in Flow \ {f} : src'[g] = src[g]
  BY <1>0 DEF SourceStep, TypeInv
<1>2. /\ t.highest \in Nat /\ t.highest <= Size[f]
      /\ \A q \in Nat : q \in 1..t.highest <=> q \in 1..src[f].highest \/ q \in out
      /\ out \subseteq Nat
      /\ \A q \in out : q \in src[f].rtx \cup Back(p) \/ q \notin 1..src[f].highest
  <2>1. s.rtx = src[f].rtx \cup Back(p)
    BY DEF SourceStep
  <2> QED
    BY <1>0, <2>1, SourceStepFacts
<1>3. \A g, q : DataPacket(g, q) \in Data(f, out) <=> g = f /\ q \in out
  BY PacketFacts DEF Data
<1>4. \A x \in Data(f, out) : x.kind = "data"
  BY PacketFacts DEF Data
<1>5. \A g, q : DataPacket(g, q) \in net' <=> DataPacket(g, q) \in net \/ (g = f /\ q \in out)
  <2>1. \A g, q : DataPacket(g, q) # p
    BY <1>1, PacketFacts
  <2> QED
    BY <1>1, <1>3, <2>1
<1>6. \A g, q : BouncedPacket(g, q) \in net' <=> BouncedPacket(g, q) \in net /\ BouncedPacket(g, q) # p
  BY <1>1, <1>4, PacketFacts
<1>7. \A g, q : Nacks(g, q)' = Nacks(g, q) \ {p}
  BY <1>1, <1>4 DEF Nacks
<1> HIDE DEF Nacks
<1>8. ASSUME NEW g \in Flow, NEW q \in Nat
      PROVE  /\ Copies(g, q)' = B(q \in 1..src'[g].highest)
             /\ \A a, b \in Nacks(g, q)' : a = b
  <2>1. /\ Copies(g, q) = B(q \in 1..src[g].highest)
        /\ \A a, b \in Nacks(g, q) : a = b
    BY <1>0 DEF OnePlace
  <2>2. \A a, b \in Nacks(g, q)' : a = b
    BY <1>7, <2>1
  <2> DEFINE a1 == q \in src[g].rtx
             a2 == q \in sink[g].received
             a3 == DataPacket(g, q) \in net
             a4 == BouncedPacket(g, q) \in net
             a5 == Nacks(g, q) # {}
             a6 == DataPacket(g, q) \in Range(queue.low)
             a7 == DataPacket(g, q) \in Range(queue.high)
             c1 == q \in src'[g].rtx
             c3 == DataPacket(g, q) \in net'
             c4 == BouncedPacket(g, q) \in net'
             c5 == Nacks(g, q)' # {}
             h  == q \in 1..src[g].highest
             ch == q \in 1..src'[g].highest
             o  == g = f /\ q \in out
             b  == g = f /\ q \in Back(p)
  <2>3. B(a1) + B(a2) + B(a3) + B(a4) + B(a5) + B(a6) + B(a7) = B(h)
    BY <2>1 DEF Copies
  <2>4. c3 <=> a3 \/ o
    BY <1>5
  <2>5. /\ c4 <=> a4 /\ ~(b /\ p.kind = "bounced")
        /\ b /\ p.kind = "bounced" => a4
    <3>1. BouncedPacket(g, q) = p <=> b /\ p.kind = "bounced"
      BY <1>1, MessageFacts, PacketFacts DEF Back
    <3> QED
      BY <1>1, <1>6, <3>1
  <2>6. /\ c5 <=> a5 /\ ~(b /\ p.kind = "nack")
        /\ b /\ p.kind = "nack" => a5
    <3>1. p \in Nacks(g, q) <=> b /\ p.kind = "nack"
      BY <1>1 DEF Nacks, Back
    <3>2. CASE p \in Nacks(g, q)
      <4>1. Nacks(g, q) = {p}
        BY <2>1, <3>2
      <4> QED
        BY <1>7, <3>1, <4>1
    <3>3. CASE p \notin Nacks(g, q)
      BY <1>7, <3>1, <3>3
    <3> QED
      BY <3>2, <3>3
  <2>7. b => p.kind = "bounced" \/ p.kind = "nack"
    BY DEF Back
  <2>8. c1 <=> (a1 \/ b) /\ ~o
    BY <1>1
  <2>9. ch <=> h \/ o
    BY <1>1, <1>2
  <2>10. o => a1 \/ b \/ ~h
    BY <1>2
  <2>11. Copies(g, q)' = B(c1) + B(a2) + B(c3) + B(c4) + B(c5) + B(a6) + B(a7)
    BY <1>1 DEF Copies
  <2>12. p.kind = "bounced" => p.kind # "nack"
    OBVIOUS
  <2> HIDE DEF a1, a2, a3, a4, a5, a6, a7, c1, c3, c4, c5, h, ch, o, b
  <2>13. B(c1) + B(a2) + B(c3) + B(c4) + B(c5) + B(a6) + B(a7) = B(ch)
    BY <2>3, <2>4, <2>5, <2>6, <2>7, <2>8, <2>9, <2>10, <2>12 DEF B
  <2> QED
    BY <2>2, <2>11, <2>13 DEF ch
<1>9. \A g \in Flow : src'[g].highest <= Size[g]
  BY <1>0, <1>1, <1>2 DEF OnePlace
<1> QED
  BY <1>8, <1>9 DEF OnePlace

LEMMA SourceStepKeeps ==
  ASSUME IInv, NEW p, NEW f \in Flow, NEW s, NEW out, NEW t,
         SourceStep(p, f, s, out, t)
  PROVE  TypeInv' /\ ServiceInv' /\ Apart' /\ Fresh' /\ f \in started
<1>0. TypeInv /\ OnePlace /\ Apart /\ Fresh /\ ServiceInv
  BY DEF IInv
<1>1. /\ p \in net /\ p \in Messages /\ p.flow = f /\ p.kind \in {"ack", "nack", "pull", "bounced"}
      /\ src' = [src EXCEPT ![f] = t] /\ net' = (net \ {p}) \cup Data(f, out)
      /\ sink' = sink /\ queue' = queue /\ pacer' = pacer /\ started' = started
      /\ t.rtx = (src[f].rtx \cup Back(p)) \ out
      /\ t \in Sources
      /\ src'[f] = t /\ \A g \in Flow \ {f} : src'[g] = src[g]
  BY <1>0 DEF SourceStep, TypeInv
<1>2. /\ out \subseteq Nat
      /\ \A q \in out : q \in src[f].rtx \cup Back(p) \/ q \notin 1..src[f].highest
  <2>1. s.rtx = src[f].rtx \cup Back(p)
    BY DEF SourceStep
  <2> QED
    BY <1>0, <2>1, SourceStepFacts
<1>3. Data(f, out) \subseteq DataPackets /\ \A x \in Data(f, out) : x.flow = f
  BY <1>2, PacketFacts DEF Data
<1>4. f \in started
  BY <1>0, <1>1 DEF Fresh
<1>5. TypeInv'
  <2>1. src' \in [Flow -> Sources]
    BY <1>0, <1>1 DEF TypeInv
  <2>2. net' \subseteq Messages
    BY <1>0, <1>1, <1>3 DEF TypeInv, Messages
  <2> QED
    BY <1>0, <1>1, <2>1, <2>2 DEF TypeInv
<1>6. ServiceInv'
  BY <1>0, <1>1 DEF ServiceInv
<1>7. Apart'
  <2>1. ASSUME NEW q \in out
        PROVE  DataPacket(f, q) \notin Range(queue.low) /\ DataPacket(f, q) \notin Range(queue.high)
    <3>1. Copies(f, q) = B(q \in 1..src[f].highest) /\ q \in Nat
      BY <1>0, <1>2 DEF OnePlace
    <3>2. CASE q \notin 1..src[f].highest
      BY <1>0, <3>1, <3>2, PlaceFacts
    <3>3. CASE q \in src[f].rtx
      BY <3>1, <3>3 DEF Copies, B
    <3>4. CASE q \in Back(p)
      <4>1. BouncedPacket(f, q) \in net \/ Nacks(f, q) # {}
        BY <1>1, <3>4, MessageFacts DEF Back, Nacks
      <4> QED
        BY <3>1, <4>1 DEF Copies, B
    <3> QED
      BY <1>2, <3>2, <3>3, <3>4
  <2>2. net' \cap (Range(queue.low) \cup Range(queue.high)) = {}
    BY <1>0, <1>1, <2>1 DEF Apart, Data
  <2> QED
    BY <1>0, <1>1, <2>2 DEF Apart
<1>8. Fresh'
  BY <1>0, <1>1, <1>3, <1>4 DEF Fresh
<1> QED
  BY <1>4, <1>5, <1>6, <1>7, <1>8
(* An acknowledgement of everything ends the flow.                         *)
LEMMA SourceStepEnding ==
  ASSUME IInv, NEW p, NEW f \in Flow, NEW s, NEW out, NEW t,
         SourceStep(p, f, s, out, t),
         t.done = src[f].done + B(p \in LastAcks(f))
  PROVE  Ending'
<1>1. /\ src' = [src EXCEPT ![f] = t] /\ net' = (net \ {p}) \cup Data(f, out)
      /\ sink' = sink /\ p \in net
      /\ src'[f] = t /\ \A g \in Flow \ {f} : src'[g] = src[g]
  BY DEF SourceStep, IInv, TypeInv
<1>2. \A x \in Data(f, out) : x.kind = "data"
  BY PacketFacts DEF Data
<1>3. \A g : LastAcks(g)' = LastAcks(g) \ {p}
  BY <1>1, <1>2 DEF LastAcks
<1>4. \A g \in Flow \ {f} : p \notin LastAcks(g)
  BY DEF SourceStep, LastAcks
<1>5. \A g \in Flow : src[g].done \in Nat
  BY DEF IInv, TypeInv, Sources
<1> SUFFICES ASSUME NEW g \in Flow
             PROVE  /\ LastAcks(g)' # {} \/ src'[g].done # 0 => 1..Size[g] \subseteq sink[g].received
                    /\ LastAcks(g)' # {} => src'[g].done = 0
                    /\ src'[g].done <= 1
                    /\ \A a, b \in LastAcks(g)' : a = b
  BY <1>1 DEF Ending
<1> HIDE DEF LastAcks
<1>6. /\ LastAcks(g) # {} \/ src[g].done # 0 => 1..Size[g] \subseteq sink[g].received
      /\ LastAcks(g) # {} => src[g].done = 0
      /\ src[g].done <= 1
      /\ \A a, b \in LastAcks(g) : a = b
  BY DEF IInv, Ending
<1>7. CASE g # f
  BY <1>1, <1>3, <1>4, <1>6, <1>7
<1>8. CASE g = f /\ p \in LastAcks(f)
  <2>1. LastAcks(g)' = {}
    BY <1>3, <1>6, <1>8
  <2>2. src'[g].done = 1
    BY <1>1, <1>6, <1>8 DEF B
  <2>3. 1..Size[g] \subseteq sink[g].received
    BY <1>6, <1>8
  <2> QED
    BY <2>1, <2>2, <2>3
<1>9. CASE g = f /\ p \notin LastAcks(f)
  <2>1. LastAcks(g)' = LastAcks(g)
    BY <1>3, <1>9
  <2>2. src'[g].done = src[g].done
    BY <1>1, <1>5, <1>9 DEF B
  <2> QED
    BY <1>6, <2>1, <2>2
<1> QED
  BY <1>7, <1>8, <1>9

(* The source spends no pull the sink has not sent.                        *)
LEMMA SourceStepPulls ==
  ASSUME IInv, NEW p, NEW f \in Flow, NEW s, NEW out, NEW t,
         SourceStep(p, f, s, out, t),
         t.lastPull <= t.maxPull, t.maxPull <= sink[f].pullNo
  PROVE  PullsTrue'
<1>1. /\ src' = [src EXCEPT ![f] = t] /\ net' = (net \ {p}) \cup Data(f, out)
      /\ sink' = sink /\ pacer' = pacer
      /\ src'[f] = t /\ \A g \in Flow \ {f} : src'[g] = src[g]
  BY DEF SourceStep, IInv, TypeInv
<1>2. \A x \in Data(f, out) : x.kind = "data"
  BY PacketFacts DEF Data
<1>3. \A x \in net' : x.kind \in {"ack", "nack", "pull"} => x \in net
  BY <1>1, <1>2
<1> QED
  BY <1>1, <1>3 DEF IInv, PullsTrue

LEMMA DataCount ==
  ASSUME NEW f, NEW out, IsFiniteSet(out)
  PROVE  IsFiniteSet(Data(f, out)) /\ Cardinality(Data(f, out)) <= Cardinality(out)
<1> DEFINE m == [q \in out |-> DataPacket(f, q)]
<1>1. m \in Surjection(out, Data(f, out))
  BY DEF Surjection, Data
<1> QED
  BY <1>1, FS_Surjection

LEMMA UnionCount ==
  ASSUME NEW K, NEW D, IsFiniteSet(K), IsFiniteSet(D), NEW L \in SUBSET (K \cup D)
  PROVE  /\ IsFiniteSet(L) /\ Cardinality(L) \in Nat
         /\ Cardinality(L) <= Cardinality(K) + Cardinality(D)
         /\ Cardinality(K) \in Nat /\ Cardinality(D) \in Nat
<1>1. /\ IsFiniteSet(K \cup D)
      /\ Cardinality(K \cup D) = Cardinality(K) + Cardinality(D) - Cardinality(K \cap D)
  BY FS_Union
<1>2. IsFiniteSet(K \cap D)
  BY FS_Intersection
<1>3. Cardinality(K \cap D) \in Nat /\ Cardinality(K) \in Nat /\ Cardinality(D) \in Nat
  BY <1>2, FS_CardinalityType
<1>4. IsFiniteSet(L) /\ Cardinality(L) <= Cardinality(K \cup D)
  BY <1>1, FS_Subset
<1>5. Cardinality(L) \in Nat
  BY <1>4, FS_CardinalityType
<1> QED
  BY <1>1, <1>3, <1>4, <1>5

(* What a source sends is paid for, by a pull or by the header that came   *)
(* back.                                                                   *)
LEMMA SourceStepBudget ==
  ASSUME IInv, NEW p, NEW f \in Flow, NEW s, NEW out, NEW t,
         SourceStep(p, f, s, out, t),
         \/ t.lastPull = src[f].lastPull + Cardinality(out)
         \/ /\ p.kind = "bounced" /\ Cardinality(out) <= 1
            /\ t.lastPull = src[f].lastPull
  PROVE  Budget'
<1>0. TypeInv /\ OnePlace /\ Budget
  BY DEF IInv
<1>1. /\ src' = [src EXCEPT ![f] = t] /\ net' = (net \ {p}) \cup Data(f, out)
      /\ sink' = sink /\ queue' = queue /\ p \in net /\ p.flow = f
      /\ src'[f] = t /\ \A g \in Flow \ {f} : src'[g] = src[g]
  BY <1>0 DEF SourceStep, TypeInv
<1>2. Queued' = Queued
  BY <1>1 DEF Queued
<1>3. IsFiniteSet(out) /\ Cardinality(out) \in Nat
  BY <1>0, SourceStepFacts
<1>4. IsFiniteSet(Data(f, out)) /\ Cardinality(Data(f, out)) <= Cardinality(out)
  BY <1>3, DataCount
<1>5. \A x \in Data(f, out) : x.kind = "data" /\ x.flow = f
  BY PacketFacts DEF Data
<1> DEFINE K(g) == OfFlow(net \cup Queued, g, Kinds)
           L(g) == OfFlow(net' \cup Queued, g, Kinds)
<1> SUFFICES ASSUME NEW g \in Flow
             PROVE  /\ IsFiniteSet(L(g))
                    /\ Cardinality(L(g)) + (sink[g].pullNo - src'[g].lastPull)
                         <= Min({Window, Size[g]})
  BY <1>1, <1>2 DEF Budget
<1>6. /\ IsFiniteSet(K(g))
      /\ Cardinality(K(g)) + (sink[g].pullNo - src[g].lastPull) <= Min({Window, Size[g]})
      /\ Min({Window, Size[g]}) \in Nat /\ sink[g].pullNo \in Nat /\ src[g].lastPull \in Nat
  BY <1>0, MinOfWindow DEF Budget, TypeInv, Sources, Sinks
<1>7. CASE g # f
  <2>1. L(g) = K(g) \/ L(g) \in SUBSET K(g)
    BY <1>1, <1>5, <1>7 DEF OfFlow
  <2>2. L(g) \in SUBSET K(g) /\ src'[g] = src[g]
    BY <1>1, <1>7, <2>1
  <2> HIDE DEF K, L
  <2>3. /\ IsFiniteSet(L(g)) /\ Cardinality(L(g)) <= Cardinality(K(g))
        /\ Cardinality(L(g)) \in Nat /\ Cardinality(K(g)) \in Nat
    BY <1>6, <2>2, FS_Subset, FS_CardinalityType
  <2> QED
    BY <1>6, <2>2, <2>3
<1>8. CASE g = f
  <2>1. L(f) \in SUBSET ((K(f) \ {p}) \cup Data(f, out))
    <3>1. p \notin Queued
      BY <1>0, <1>1, QueuedFacts DEF IInv, Apart, TypeInv
    <3>2. net' \cup Queued \subseteq ((net \cup Queued) \ {p}) \cup Data(f, out)
      BY <1>1, <3>1
    <3> QED
      BY <3>2 DEF OfFlow
  <2>2. p.kind = "bounced" => p \in K(f)
    BY <1>1 DEF OfFlow, Kinds
  <2> HIDE DEF K, L
  <2>3. /\ IsFiniteSet(K(f) \ {p})
        /\ Cardinality(K(f) \ {p}) = IF p \in K(f) THEN Cardinality(K(f)) - 1 ELSE Cardinality(K(f))
    BY <1>6, <1>8, FS_RemoveElement
  <2>4. /\ IsFiniteSet(L(f)) /\ Cardinality(L(f)) \in Nat
        /\ Cardinality(L(f)) <= Cardinality(K(f) \ {p}) + Cardinality(Data(f, out))
        /\ Cardinality(K(f) \ {p}) \in Nat /\ Cardinality(Data(f, out)) \in Nat
    BY <1>4, <2>1, <2>3, UnionCount
  <2>5. Cardinality(K(f)) \in Nat
    BY <1>6, <1>8, FS_CardinalityType
  <2>6. /\ Cardinality(L(f)) <= Cardinality(K(f)) + Cardinality(out)
        /\ p.kind = "bounced" => Cardinality(L(f)) <= Cardinality(K(f)) - 1 + Cardinality(out)
    BY <1>3, <1>4, <2>2, <2>3, <2>4, <2>5
  <2>7. src'[f] = t
    BY <1>1
  <2> QED
    BY <1>3, <1>6, <1>8, <2>4, <2>5, <2>6, <2>7
<1> QED
  BY <1>7, <1>8
LEMMA SourceStepInv ==
  ASSUME IInv, NEW p, NEW f \in Flow, NEW s, NEW out, NEW t,
         SourceStep(p, f, s, out, t),
         t.done = src[f].done + B(p \in LastAcks(f)),
         t.lastPull <= t.maxPull, t.maxPull <= sink[f].pullNo,
         \/ t.lastPull = src[f].lastPull + Cardinality(out)
         \/ /\ p.kind = "bounced" /\ Cardinality(out) <= 1
            /\ t.lastPull = src[f].lastPull
  PROVE  IInv'
<1>1. OnePlace'
  BY SourceStepPlaces
<1>2. TypeInv' /\ ServiceInv' /\ Apart' /\ Fresh'
  BY SourceStepKeeps
<1>3. Ending'
  BY SourceStepEnding
<1>4. PullsTrue'
  BY SourceStepPulls
<1>5. Budget'
  BY SourceStepBudget
<1> QED
  BY <1>1, <1>2, <1>3, <1>4, <1>5 DEF IInv

(* What Handled does with an answer, as a step of the source.              *)
Noted(p, f, s) ==
  /\ p \in net /\ p.flow = f /\ p.kind \in {"ack", "nack", "pull", "bounced"}
  /\ s \in Sources
  /\ s.highest = src[f].highest /\ s.rtx = src[f].rtx \cup Back(p)
  /\ s.lastPull = src[f].lastPull /\ s.maxPull = src[f].maxPull /\ s.done = src[f].done

LEMMA NotedFacts ==
  ASSUME IInv, NEW p, NEW f \in Flow, NEW s, Noted(p, f, s)
  PROVE  /\ s.rtx \subseteq 1..s.highest /\ s.highest \in Nat /\ s.highest <= Size[f]
         /\ Size[f] \in Nat
<1>1. p \in Messages /\ TypeInv /\ OnePlace
  BY DEF Noted, IInv, TypeInv
<1>2. \A q \in Back(p) : q \in 1..src[f].highest
  <2> SUFFICES ASSUME NEW q \in Back(p) PROVE q \in 1..src[f].highest
    OBVIOUS
  <2>1. q = p.seq /\ p.kind \in {"nack", "bounced"} /\ p \in net /\ p.flow = f
    BY DEF Back, Noted
  <2>2. q \in Nat
    BY <1>1, <2>1, MessageFacts
  <2>3. BouncedPacket(f, q) \in net \/ Nacks(f, q) # {}
    BY <1>1, <2>1, MessageFacts DEF Nacks
  <2> QED
    BY <1>1, <2>2, <2>3, PlaceFacts
<1> QED
  BY <1>1, <1>2, SourceBounds DEF Noted

LEMMA QuietStep ==
  ASSUME IInv, NEW p, NEW f \in Flow, NEW s, Noted(p, f, s),
         NEW t \in Sources, t.rtx = s.rtx, t.highest = s.highest,
         Handled(p, NoPackets(t))
  PROVE  SourceStep(p, f, s, {}, t) /\ Cardinality({}) = 0
<1>1. NoPackets(t).s = t /\ NoPackets(t).out = {}
  BY DEF NoPackets
<1>2. /\ src' = [src EXCEPT ![f] = t] /\ net' = (net \ {p}) \cup {}
      /\ UNCHANGED <<sink, queue, pacer, started>>
  BY <1>1 DEF Handled, Noted
<1>3. Data(f, {}) = {}
  BY DEF Data
<1>4. FirstOf(f, s, {})
  BY DEF FirstOf
<1>5. t.highest = Max({} \cup {s.highest})
  <2>1. s.highest \in Nat /\ {} \cup {s.highest} = {s.highest, s.highest}
    BY NotedFacts
  <2>2. Max({s.highest, s.highest}) = s.highest
    BY <2>1, MaxOfTwo
  <2> QED
    BY <2>1, <2>2
<1>6. t.rtx = s.rtx \ {}
  OBVIOUS
<1> QED
  BY <1>2, <1>3, <1>4, <1>5, <1>6, FS_EmptySet DEF SourceStep, Noted

LEMMA PullPacketsStep ==
  ASSUME IInv, NEW p, NEW f \in Flow, NEW s, Noted(p, f, s), NEW n \in Nat,
         Handled(p, PullPackets(f, s, n))
  PROVE  \E out, t :
            /\ SourceStep(p, f, s, out, t)
            /\ t.done = s.done /\ t.maxPull = Max({s.maxPull, n})
            /\ t.lastPull = s.lastPull + Cardinality(out)
            /\ t.lastPull <= t.maxPull
<1> DEFINE max == Max({s.maxPull, n})
           out == Outgoing(f, s, max - s.lastPull)
           t == [Sent(s, out) EXCEPT !.maxPull = max, !.lastPull = @ + Cardinality(out)]
<1>1. /\ s \in Sources /\ s.maxPull \in Nat /\ s.lastPull \in Nat
      /\ s.lastPull <= s.maxPull
  BY DEF Noted, Sources, IInv, PullsTrue
<1>2. max \in Nat /\ max >= s.maxPull
  BY <1>1, MaxOfTwo
<1>3. /\ s.rtx \subseteq 1..s.highest /\ s.highest \in Nat /\ s.highest <= Size[f]
  BY NotedFacts
<1>4. PullPackets(f, s, n) = [s |-> t, out |-> Data(f, out)]
  BY DEF PullPackets
<1> HIDE DEF max
<1>5. FirstOf(f, s, out) /\ Cardinality(out) <= max - s.lastPull
  <2>1. max - s.lastPull \in Int /\ max - s.lastPull >= 0
    BY <1>1, <1>2
  <2> QED
    BY <1>3, <2>1, OutgoingFacts
<1> HIDE DEF out
<1> DEFINE h == Max(out \cup {s.highest})
<1>6. h \in Nat /\ Cardinality(out) \in Nat
  BY <1>3, <1>5, FirstOfFacts
<1>7. /\ t.rtx = s.rtx \ out /\ t.highest = h /\ t.maxPull = max
      /\ t.lastPull = s.lastPull + Cardinality(out) /\ t.done = s.done
      /\ t \in Sources
  <2> HIDE DEF h
  <2>1. Sent(s, out) = [s EXCEPT !.rtx = s.rtx \ out, !.highest = h]
    BY DEF Sent, h
  <2>2. /\ Sent(s, out) \in Sources /\ Sent(s, out).rtx = s.rtx \ out
        /\ Sent(s, out).highest = h /\ Sent(s, out).done = s.done
        /\ Sent(s, out).lastPull = s.lastPull
    BY <1>1, <1>6, <2>1 DEF Sources
  <2> DEFINE u == Sent(s, out)
  <2>3. t = [u EXCEPT !.maxPull = max, !.lastPull = u.lastPull + Cardinality(out)]
    OBVIOUS
  <2> HIDE DEF u
  <2>4. u \in Sources
    BY <2>2 DEF u
  <2>5. /\ t.rtx = u.rtx /\ t.highest = u.highest /\ t.maxPull = max
        /\ t.lastPull = u.lastPull + Cardinality(out) /\ t.done = u.done
        /\ t \in Sources
    <3> HIDE DEF t
    <3>1. u.lastPull + Cardinality(out) \in Nat
      BY <1>6, <2>4 DEF Sources
    <3> QED
      BY <1>2, <2>3, <2>4, <3>1 DEF Sources
  <2> QED
    BY <2>2, <2>5 DEF u
<1> HIDE DEF t
<1>8. /\ src' = [src EXCEPT ![f] = t] /\ net' = (net \ {p}) \cup Data(f, out)
      /\ UNCHANGED <<sink, queue, pacer, started>>
  BY <1>4 DEF Handled, Noted
<1>9. SourceStep(p, f, s, out, t)
  BY <1>5, <1>7, <1>8 DEF SourceStep, Noted
<1>10. t.lastPull <= t.maxPull
  BY <1>1, <1>2, <1>5, <1>6, <1>7
<1> QED
  BY <1>7, <1>9, <1>10 DEF max
LEMMA AnswerFacts ==
  ASSUME IInv, NEW p \in net
  PROVE  /\ p.flow \in Flow /\ src[p.flow] \in Sources /\ src[p.flow].rtx \subseteq Nat
         /\ p.kind \in {"ack", "nack", "pull"} =>
               p.pullNo \in Nat /\ p.pullNo <= sink[p.flow].pullNo
         /\ src[p.flow].maxPull \in Nat /\ src[p.flow].lastPull \in Nat
         /\ src[p.flow].lastPull <= src[p.flow].maxPull
         /\ src[p.flow].maxPull <= sink[p.flow].pullNo
         /\ p.kind \in {"nack", "bounced"} => p.seq \in Nat
         /\ sink[p.flow].pullNo \in Nat
<1>1. p \in Messages
  BY DEF IInv, TypeInv
<1>2. p.flow \in Flow
  BY <1>1, MessageFacts
<1>3. src[p.flow] \in Sources /\ sink[p.flow] \in Sinks
  BY <1>2 DEF IInv, TypeInv
<1> QED
  BY <1>1, <1>2, <1>3, MessageFacts DEF IInv, PullsTrue, Sources, Sinks

LEMMA ReceiveAckInv ==
  ASSUME IInv, NEW p \in net, ReceiveAck(p)
  PROVE  IInv'
<1> DEFINE f == p.flow
           s == [src[f] EXCEPT !.pullWindow = @ + IF p.pull THEN 0 ELSE 1,
                               !.firstWindow = @ - 1,
                               !.acks = @ + 1, !.answers = @ + 1]
<1>1. p.kind = "ack" /\ f \in Flow /\ src[f] \in Sources
  BY AnswerFacts DEF ReceiveAck
<1>2. Noted(p, f, s)
  <2>1. /\ s \in Sources /\ s.highest = src[f].highest /\ s.rtx = src[f].rtx
        /\ s.lastPull = src[f].lastPull /\ s.maxPull = src[f].maxPull /\ s.done = src[f].done
    <3> DEFINE r == src[f]
               w == r.pullWindow + IF p.pull THEN 0 ELSE 1
    <3>1. /\ r \in Sources /\ w \in Int /\ r.firstWindow - 1 \in Int
          /\ r.acks + 1 \in Nat /\ r.answers + 1 \in Nat /\ r.rtx \in SUBSET Nat
      BY <1>1 DEF Sources
    <3>2. s = [r EXCEPT !.pullWindow = w, !.firstWindow = r.firstWindow - 1,
                        !.acks = r.acks + 1, !.answers = r.answers + 1]
      OBVIOUS
    <3> HIDE DEF s, r, w
    <3>3. /\ s \in Sources /\ s.highest = r.highest /\ s.rtx = r.rtx
          /\ s.lastPull = r.lastPull /\ s.maxPull = r.maxPull /\ s.done = r.done
      BY <3>1, <3>2 DEF Sources
    <3> QED
      BY <3>3 DEF r
  <2>2. Back(p) = {}
    BY <1>1 DEF Back
  <2> HIDE DEF s, f
  <2> QED
    BY <1>1, <2>1, <2>2 DEF Noted, f
<1>3. Handled(p, IF p.cum >= Size[f] THEN NoPackets([s EXCEPT !.done = @ + 1])
                 ELSE IF p.pull THEN PullPackets(f, s, p.pullNo)
                 ELSE NoPackets(s))
  BY DEF ReceiveAck
<1>4. p \in LastAcks(f) <=> p.cum >= Size[f]
  BY <1>1 DEF LastAcks
<1> HIDE DEF s
<1>5. s \in Sources /\ s.done = src[f].done /\ s.lastPull = src[f].lastPull
      /\ s.maxPull = src[f].maxPull
  BY <1>2 DEF Noted
<1>6. CASE p.cum >= Size[f]
  <2> DEFINE t == [s EXCEPT !.done = s.done + 1]
  <2>1. /\ t \in Sources /\ t.rtx = s.rtx /\ t.highest = s.highest /\ t.done = s.done + 1
        /\ t.lastPull = s.lastPull /\ t.maxPull = s.maxPull
    BY <1>5 DEF Sources
  <2>2. Handled(p, NoPackets(t))
    BY <1>3, <1>6
  <2> HIDE DEF t
  <2>3. SourceStep(p, f, s, {}, t) /\ Cardinality({}) = 0
    BY <1>1, <1>2, <2>1, <2>2, QuietStep
  <2>4. t.done = src[f].done + B(p \in LastAcks(f))
    BY <1>4, <1>5, <1>6, <2>1 DEF B
  <2>5. t.lastPull <= t.maxPull /\ t.maxPull <= sink[f].pullNo
        /\ t.lastPull = src[f].lastPull + Cardinality({})
    BY <1>5, <2>1, <2>3, AnswerFacts
  <2> QED
    BY <1>1, <2>3, <2>4, <2>5, SourceStepInv
<1>7. CASE ~(p.cum >= Size[f]) /\ p.pull
  <2>1. Handled(p, PullPackets(f, s, p.pullNo))
    BY <1>3, <1>7
  <2>2. p.pullNo \in Nat /\ p.pullNo <= sink[f].pullNo /\ s.maxPull <= sink[f].pullNo
        /\ s.maxPull \in Nat
    BY <1>1, <1>5, AnswerFacts
  <2>3. PICK out, t :
            /\ SourceStep(p, f, s, out, t)
            /\ t.done = s.done /\ t.maxPull = Max({s.maxPull, p.pullNo})
            /\ t.lastPull = s.lastPull + Cardinality(out)
            /\ t.lastPull <= t.maxPull
    BY <1>1, <1>2, <2>1, <2>2, PullPacketsStep
  <2>4. t.maxPull <= sink[f].pullNo
    BY <2>2, <2>3, MaxOfTwo
  <2>5. t.done = src[f].done + B(p \in LastAcks(f))
    BY <1>4, <1>5, <1>7, <2>3 DEF B, Sources
  <2> QED
    BY <1>1, <1>5, <2>3, <2>4, <2>5, SourceStepInv
<1>8. CASE ~(p.cum >= Size[f]) /\ ~p.pull
  <2>1. Handled(p, NoPackets(s))
    BY <1>3, <1>8
  <2>2. SourceStep(p, f, s, {}, s) /\ Cardinality({}) = 0
    BY <1>1, <1>2, <1>5, <2>1, QuietStep
  <2>3. s.done = src[f].done + B(p \in LastAcks(f))
    BY <1>4, <1>5, <1>8 DEF B, Sources
  <2>4. s.lastPull <= s.maxPull /\ s.maxPull <= sink[f].pullNo
        /\ s.lastPull = src[f].lastPull + Cardinality({})
    BY <1>5, <2>2, AnswerFacts
  <2> QED
    BY <1>1, <2>2, <2>3, <2>4, SourceStepInv
<1> QED
  BY <1>6, <1>7, <1>8

(* What remains of an answer that ends no flow: nothing is sent, or pulled.*)
LEMMA QuietInv ==
  ASSUME IInv, NEW p \in net, NEW f \in Flow, NEW s, Noted(p, f, s), p.kind # "ack",
         Handled(p, NoPackets(s))
  PROVE  IInv'
<1>1. s \in Sources /\ s.done = src[f].done /\ s.lastPull = src[f].lastPull
      /\ s.maxPull = src[f].maxPull /\ p.flow = f
  BY DEF Noted
<1>2. SourceStep(p, f, s, {}, s) /\ Cardinality({}) = 0
  BY <1>1, QuietStep
<1>3. s.done = src[f].done + B(p \in LastAcks(f))
  BY <1>1 DEF B, LastAcks, Sources
<1>4. s.lastPull <= s.maxPull /\ s.maxPull <= sink[f].pullNo
      /\ s.lastPull = src[f].lastPull + Cardinality({})
  BY <1>1, <1>2, AnswerFacts
<1> QED
  BY <1>2, <1>3, <1>4, SourceStepInv

LEMMA PulledInv ==
  ASSUME IInv, NEW p \in net, NEW f \in Flow, NEW s, Noted(p, f, s),
         p.kind \in {"nack", "pull"},
         Handled(p, PullPackets(f, s, p.pullNo))
  PROVE  IInv'
<1>1. s \in Sources /\ s.done = src[f].done /\ s.lastPull = src[f].lastPull
      /\ s.maxPull = src[f].maxPull /\ p.flow = f
  BY DEF Noted
<1>2. p.pullNo \in Nat /\ p.pullNo <= sink[f].pullNo /\ s.maxPull <= sink[f].pullNo
      /\ s.maxPull \in Nat
  BY <1>1, AnswerFacts
<1>3. PICK out, t :
          /\ SourceStep(p, f, s, out, t)
          /\ t.done = s.done /\ t.maxPull = Max({s.maxPull, p.pullNo})
          /\ t.lastPull = s.lastPull + Cardinality(out)
          /\ t.lastPull <= t.maxPull
  BY <1>2, PullPacketsStep
<1>4. t.maxPull <= sink[f].pullNo
  BY <1>2, <1>3, MaxOfTwo
<1>5. t.done = src[f].done + B(p \in LastAcks(f))
  BY <1>1, <1>3 DEF B, LastAcks, Sources
<1> QED
  BY <1>1, <1>3, <1>4, <1>5, SourceStepInv

LEMMA ReceiveNackInv ==
  ASSUME IInv, NEW p \in net, ReceiveNack(p)
  PROVE  IInv'
<1> DEFINE f == p.flow
           s == [src[f] EXCEPT !.pullWindow = @ + 1, !.firstWindow = @ - 1,
                               !.answers = @ + 1, !.rtx = @ \cup {p.seq}]
<1>1. p.kind = "nack" /\ f \in Flow /\ src[f] \in Sources /\ p.seq \in Nat
  BY AnswerFacts DEF ReceiveNack
<1>2. Noted(p, f, s)
  <2>1. /\ s \in Sources /\ s.highest = src[f].highest /\ s.rtx = src[f].rtx \cup {p.seq}
        /\ s.lastPull = src[f].lastPull /\ s.maxPull = src[f].maxPull /\ s.done = src[f].done
    <3> DEFINE r == src[f]
               x == r.rtx \cup {p.seq}
    <3>1. /\ r \in Sources /\ r.pullWindow + 1 \in Int /\ r.firstWindow - 1 \in Int
          /\ r.answers + 1 \in Nat /\ x \in SUBSET Nat
      BY <1>1 DEF Sources
    <3>2. s = [r EXCEPT !.pullWindow = r.pullWindow + 1, !.firstWindow = r.firstWindow - 1,
                        !.rtx = x, !.answers = r.answers + 1]
      OBVIOUS
    <3> HIDE DEF s, r, x
    <3>3. /\ s \in Sources /\ s.highest = r.highest /\ s.rtx = x
          /\ s.lastPull = r.lastPull /\ s.maxPull = r.maxPull /\ s.done = r.done
      BY <3>1, <3>2 DEF Sources
    <3> QED
      BY <3>3 DEF r, x
  <2>2. Back(p) = {p.seq}
    BY <1>1 DEF Back
  <2> HIDE DEF s, f
  <2> QED
    BY <1>1, <2>1, <2>2 DEF Noted, f
<1>3. Handled(p, IF p.pull \/ s.lastPull < s.maxPull
                 THEN PullPackets(f, s, p.pullNo) ELSE NoPackets(s))
  BY DEF ReceiveNack
<1> HIDE DEF s
<1>4. Handled(p, PullPackets(f, s, p.pullNo)) \/ Handled(p, NoPackets(s))
  BY <1>3
<1> QED
  BY <1>1, <1>2, <1>4, QuietInv, PulledInv

LEMMA ReceivePullInv ==
  ASSUME IInv, NEW p \in net, ReceivePull(p)
  PROVE  IInv'
<1> DEFINE f == p.flow
           s == [src[f] EXCEPT !.pullWindow = @ - 1]
<1>1. p.kind = "pull" /\ f \in Flow /\ src[f] \in Sources
  BY AnswerFacts DEF ReceivePull
<1>2. Noted(p, f, s)
  <2>1. /\ s \in Sources /\ s.highest = src[f].highest /\ s.rtx = src[f].rtx
        /\ s.lastPull = src[f].lastPull /\ s.maxPull = src[f].maxPull /\ s.done = src[f].done
    BY <1>1 DEF Sources
  <2>2. Back(p) = {}
    BY <1>1 DEF Back
  <2> HIDE DEF s, f
  <2> QED
    BY <1>1, <2>1, <2>2 DEF Noted, f
<1>3. Handled(p, PullPackets(f, s, p.pullNo))
  BY DEF ReceivePull
<1> HIDE DEF s
<1> QED
  BY <1>1, <1>2, <1>3, PulledInv

(* A header that came back takes at most one packet's place.               *)
LEMMA ReceiveBounceInv ==
  ASSUME IInv, NEW p \in net, ReceiveBounce(p)
  PROVE  IInv'
<1> DEFINE f == p.flow
           s == [src[f] EXCEPT !.firstWindow = @ - 1, !.rtx = @ \cup {p.seq},
                               !.answers = @ + 1]
           out == Outgoing(f, s, 1)
           t == Sent(s, out)
<1>1. p.kind = "bounced" /\ f \in Flow /\ src[f] \in Sources /\ p.seq \in Nat
  BY AnswerFacts DEF ReceiveBounce
<1>2. Noted(p, f, s)
  <2>1. /\ s \in Sources /\ s.highest = src[f].highest /\ s.rtx = src[f].rtx \cup {p.seq}
        /\ s.lastPull = src[f].lastPull /\ s.maxPull = src[f].maxPull /\ s.done = src[f].done
    <3> DEFINE r == src[f]
               x == r.rtx \cup {p.seq}
    <3>1. /\ r \in Sources /\ r.firstWindow - 1 \in Int
          /\ r.answers + 1 \in Nat /\ x \in SUBSET Nat
      BY <1>1 DEF Sources
    <3>2. s = [r EXCEPT !.firstWindow = r.firstWindow - 1,
                        !.rtx = x, !.answers = r.answers + 1]
      OBVIOUS
    <3> HIDE DEF s, r, x
    <3>3. /\ s \in Sources /\ s.highest = r.highest /\ s.rtx = x
          /\ s.lastPull = r.lastPull /\ s.maxPull = r.maxPull /\ s.done = r.done
      BY <3>1, <3>2 DEF Sources
    <3> QED
      BY <3>3 DEF r, x
  <2>2. Back(p) = {p.seq}
    BY <1>1 DEF Back
  <2> HIDE DEF s, f
  <2> QED
    BY <1>1, <2>1, <2>2 DEF Noted, f
<1>3. Handled(p, NoPackets(s)) \/ Handled(p, [s |-> t, out |-> Data(f, out)])
  BY DEF ReceiveBounce
<1> HIDE DEF s, out
<1>4. CASE Handled(p, NoPackets(s))
  BY <1>1, <1>2, <1>4, QuietInv
<1>5. CASE Handled(p, [s |-> t, out |-> Data(f, out)])
  <2>1. /\ s.rtx \subseteq 1..s.highest /\ s.highest \in Nat /\ s.highest <= Size[f]
    BY <1>1, <1>2, NotedFacts
  <2>2. FirstOf(f, s, out) /\ Cardinality(out) <= 1
    BY <1>1, <2>1, OutgoingFacts DEF out
  <2> DEFINE h == Max(out \cup {s.highest})
  <2>3. h \in Nat
    BY <1>1, <2>1, <2>2, FirstOfFacts
  <2> HIDE DEF h
  <2>4. /\ t \in Sources /\ t.rtx = s.rtx \ out /\ t.highest = h
        /\ t.lastPull = s.lastPull /\ t.maxPull = s.maxPull /\ t.done = s.done
    <3>1. t = [s EXCEPT !.rtx = s.rtx \ out, !.highest = h]
      BY DEF Sent, h
    <3> HIDE DEF t
    <3>2. s \in Sources
      BY <1>2 DEF Noted
    <3> QED
      BY <2>3, <3>1, <3>2 DEF Sources
  <2> HIDE DEF t
  <2>5. /\ src' = [src EXCEPT ![f] = t] /\ net' = (net \ {p}) \cup Data(f, out)
        /\ UNCHANGED <<sink, queue, pacer, started>>
    BY <1>5 DEF Handled
  <2>6. SourceStep(p, f, s, out, t)
    BY <1>2, <2>2, <2>4, <2>5 DEF SourceStep, Noted, h
  <2>7. /\ s.lastPull = src[f].lastPull /\ s.maxPull = src[f].maxPull /\ s.done = src[f].done
    BY <1>2 DEF Noted
  <2>8. t.done = src[f].done + B(p \in LastAcks(f))
    BY <1>1, <2>4, <2>7 DEF B, LastAcks, Sources
  <2>9. t.lastPull <= t.maxPull /\ t.maxPull <= sink[f].pullNo
    BY <2>4, <2>7, AnswerFacts
  <2> QED
    BY <1>1, <2>2, <2>4, <2>6, <2>7, <2>8, <2>9, SourceStepInv
<1> QED
  BY <1>3, <1>4, <1>5
-----------------------------------------------------------------------------
(* The first window of a flow, of packets or of requests: there was nothing*)
(* of it anywhere.                                                         *)
LEMMA FreshFacts ==
  ASSUME IInv, NEW f \in Flow, f \notin started
  PROVE  /\ \A x \in net \cup Range(queue.low) \cup Range(queue.high) : x.flow # f
         /\ src[f].highest = 0 /\ src[f].rtx = {} /\ sink[f].received = {}
         /\ src[f].lastPull = 0 /\ sink[f].pullNo = 0 /\ src[f] \in Sources
<1>1. TypeInv /\ OnePlace
  BY DEF IInv
<1>2. src[f].rtx = {} /\ sink[f].received = {} /\ src[f].highest = 0
  <2>1. src[f].highest = 0
    BY DEF IInv, Fresh
  <2>2. src[f].rtx \subseteq 1..0 /\ sink[f].received \subseteq 1..0
    BY <1>1, <2>1, SourceBounds
  <2> QED
    BY <2>1, <2>2
<1> QED
  BY <1>1, <1>2 DEF IInv, Fresh, TypeInv

LEMMA FirstWindowBudget ==
  ASSUME IInv, NEW f \in Flow, f \notin started, NEW D, IsFiniteSet(D),
         Cardinality(D) <= Min({Window, Size[f]}),
         \A x \in D : x.flow = f,
         net' = net \cup D, UNCHANGED <<sink, queue>>,
         \A g \in Flow : src'[g].lastPull = src[g].lastPull
  PROVE  Budget'
<1>1. Queued' = Queued
  BY DEF Queued
<1> DEFINE K(g) == OfFlow(net \cup Queued, g, Kinds)
           L(g) == OfFlow(net' \cup Queued, g, Kinds)
<1> SUFFICES ASSUME NEW g \in Flow
             PROVE  /\ IsFiniteSet(L(g))
                    /\ Cardinality(L(g)) + (sink[g].pullNo - src'[g].lastPull)
                         <= Min({Window, Size[g]})
  BY <1>1 DEF Budget
<1>2. CASE g # f
  <2>1. L(g) = K(g)
    BY <1>2 DEF OfFlow
  <2> QED
    BY <2>1 DEF IInv, Budget
<1>3. CASE g = f
  <2>1. Queued = Range(queue.low) \cup Range(queue.high)
    BY QueuedFacts DEF IInv, TypeInv
  <2>2. L(f) \in SUBSET D
    BY <2>1, FreshFacts DEF OfFlow
  <2> HIDE DEF L
  <2>3. IsFiniteSet(L(f)) /\ Cardinality(L(f)) <= Cardinality(D)
        /\ Cardinality(L(f)) \in Nat /\ Cardinality(D) \in Nat
    BY <2>2, FS_Subset, FS_CardinalityType
  <2>4. sink[f].pullNo = 0 /\ src'[f].lastPull = 0
    BY FreshFacts
  <2>5. Min({Window, Size[f]}) \in Nat
    BY MinOfWindow
  <2> QED
    BY <1>3, <2>3, <2>4, <2>5
<1> QED
  BY <1>2, <1>3

LEMMA IntervalCount ==
  ASSUME NEW m \in Nat
  PROVE  IsFiniteSet(1..m) /\ Cardinality(1..m) = m
<1>1. IsFiniteSet(1..m) /\ Cardinality(1..m) = IF 1 > m THEN 0 ELSE m - 1 + 1
  BY FS_Interval
<1> QED
  BY <1>1

Request(f, i) == [kind |-> "rts", flow |-> f, grant |-> i]

LEMMA StartWithRequests ==
  ASSUME IInv, NEW f \in Flow, f \notin started, NEW m \in Nat, m <= Min({Window, Size[f]}),
         net' = net \cup {Request(f, i) : i \in 1..m},
         started' = started \cup {f}, UNCHANGED <<src, sink, pacer, queue>>
  PROVE  IInv'
<1> DEFINE D == {Request(f, i) : i \in 1..m}
<1>0. TypeInv /\ OnePlace /\ Apart /\ Fresh /\ Ending /\ PullsTrue
  BY DEF IInv
<1>1. \A x \in D : x.kind = "rts" /\ x.flow = f /\ x \in Requests
  BY DEF Request, Requests
<1>2. IsFiniteSet(D) /\ Cardinality(D) <= m
  <2> DEFINE b == [i \in 1..m |-> Request(f, i)]
  <2>1. b \in Surjection(1..m, D)
    BY DEF Surjection
  <2>2. IsFiniteSet(1..m) /\ Cardinality(1..m) = m
    BY IntervalCount
  <2> HIDE DEF b, D
  <2>3. IsFiniteSet(D) /\ Cardinality(D) <= Cardinality(1..m)
    BY <2>1, <2>2, FS_Surjection
  <2> QED
    BY <2>2, <2>3
<1>3. net' = net \cup D
  OBVIOUS
<1> HIDE DEF D
<1>4. TypeInv' /\ ServiceInv'
  <2>1. net' \subseteq Messages
    BY <1>0, <1>1, <1>3 DEF TypeInv, Messages
  <2> QED
    BY <1>0, <2>1 DEF IInv, TypeInv, ServiceInv
<1>5. Apart'
  <2>1. D \cap (Range(queue.low) \cup Range(queue.high)) = {}
    BY <1>1, FreshFacts
  <2> QED
    BY <1>0, <1>3, <2>1 DEF Apart
<1>6. OnePlace'
  <2>1. \A g, q : /\ DataPacket(g, q) \in net' <=> DataPacket(g, q) \in net
                  /\ BouncedPacket(g, q) \in net' <=> BouncedPacket(g, q) \in net
    BY <1>1, <1>3, PacketFacts
  <2>2. \A g, q : Nacks(g, q)' = Nacks(g, q)
    BY <1>1, <1>3 DEF Nacks
  <2> HIDE DEF Nacks
  <2>3. ASSUME NEW g, NEW q PROVE Copies(g, q)' = Copies(g, q)
    <3>1. /\ src'[g] = src[g] /\ sink'[g] = sink[g]
          /\ queue'.low = queue.low /\ queue'.high = queue.high
      OBVIOUS
    <3>2. Nacks(g, q)' = Nacks(g, q)
      BY <2>2
    <3> QED
      BY <2>1, <3>1, <3>2 DEF Copies
  <2> QED
    BY <1>0, <2>2, <2>3 DEF OnePlace
<1>7. Fresh'
  BY <1>0, <1>1, <1>3 DEF Fresh
<1>8. Ending'
  <2>1. \A g : LastAcks(g)' = LastAcks(g)
    BY <1>1, <1>3 DEF LastAcks
  <2> QED
    BY <1>0, <2>1 DEF Ending
<1>9. PullsTrue'
  <2>1. \A x \in net' : x.kind \in {"ack", "nack", "pull"} => x \in net
    BY <1>1, <1>3
  <2> QED
    BY <1>0, <2>1 DEF PullsTrue
<1>10. Budget'
  <2>1. Min({Window, Size[f]}) \in Nat
    BY MinOfWindow
  <2>2. Cardinality(D) \in Nat
    BY <1>2, FS_CardinalityType
  <2>3. Cardinality(D) <= Min({Window, Size[f]})
    BY <1>2, <2>1, <2>2
  <2>4. \A g \in Flow : src'[g].lastPull = src[g].lastPull
    OBVIOUS
  <2> QED
    BY <1>1, <1>2, <1>3, <2>3, <2>4, FirstWindowBudget
<1> QED
  BY <1>4, <1>5, <1>6, <1>7, <1>8, <1>9, <1>10 DEF IInv

LEMMA StartWithData ==
  ASSUME IInv, NEW f \in Flow, f \notin started, NEW m \in Nat, m <= Min({Window, Size[f]}),
         NEW t \in Sources, t.rtx = {}, t.highest = m,
         t.lastPull = src[f].lastPull, t.maxPull = src[f].maxPull, t.done = src[f].done,
         src' = [src EXCEPT ![f] = t],
         net' = net \cup Data(f, 1..m),
         started' = started \cup {f}, UNCHANGED <<sink, pacer, queue>>
  PROVE  IInv'
<1> DEFINE D == Data(f, 1..m)
<1>0. TypeInv /\ OnePlace /\ Apart /\ Fresh /\ Ending /\ PullsTrue
  BY DEF IInv
<1>1. \A x \in D : x.kind = "data" /\ x.flow = f /\ x \in DataPackets
  BY PacketFacts DEF Data
<1>2. IsFiniteSet(D) /\ Cardinality(D) <= m
  <2>1. IsFiniteSet(1..m) /\ Cardinality(1..m) = m
    BY IntervalCount
  <2> HIDE DEF D
  <2> QED
    BY <2>1, DataCount DEF D
<1>3. net' = net \cup D
  OBVIOUS
<1>4. \A g, q : DataPacket(g, q) \in D <=> g = f /\ q \in 1..m
  BY PacketFacts DEF Data
<1> HIDE DEF D
<1>5. src'[f] = t /\ \A g \in Flow \ {f} : src'[g] = src[g]
  BY <1>0 DEF TypeInv
<1>6. t.highest <= Size[f] /\ \A q \in Nat : q \in 1..t.highest <=> q \in 1..m
  <2>1. Min({Window, Size[f]}) \in Nat /\ Min({Window, Size[f]}) <= Size[f] /\ Size[f] \in Nat
    BY MinOfWindow, FlowConstants
  <2> QED
    BY <2>1
<1>7. TypeInv' /\ ServiceInv'
  <2>1. net' \subseteq Messages /\ src' \in [Flow -> Sources]
    BY <1>0, <1>1, <1>3 DEF TypeInv, Messages
  <2> QED
    BY <1>0, <2>1 DEF IInv, TypeInv, ServiceInv
<1>8. Apart'
  <2>1. D \cap (Range(queue.low) \cup Range(queue.high)) = {}
    BY <1>1, FreshFacts
  <2> QED
    BY <1>0, <1>3, <2>1 DEF Apart
<1>9. OnePlace'
  <2>1. \A g, q : /\ DataPacket(g, q) \in net' <=> DataPacket(g, q) \in net \/ (g = f /\ q \in 1..m)
                  /\ BouncedPacket(g, q) \in net' <=> BouncedPacket(g, q) \in net
    BY <1>1, <1>3, <1>4, PacketFacts
  <2>2. \A g, q : Nacks(g, q)' = Nacks(g, q)
    BY <1>1, <1>3 DEF Nacks
  <2>3. ASSUME NEW g \in Flow, g # f, NEW q PROVE Copies(g, q)' = Copies(g, q)
    <3>1. /\ src'[g] = src[g] /\ sink'[g] = sink[g]
          /\ queue'.low = queue.low /\ queue'.high = queue.high
      BY <1>5, <2>3
    <3>2. Nacks(g, q)' = Nacks(g, q)
      BY <2>2
    <3>3. /\ DataPacket(g, q) \in net' <=> DataPacket(g, q) \in net
          /\ BouncedPacket(g, q) \in net' <=> BouncedPacket(g, q) \in net
      BY <2>1, <2>3
    <3> HIDE DEF Nacks
    <3> QED
      BY <3>1, <3>2, <3>3 DEF Copies
  <2>4. ASSUME NEW q \in Nat PROVE Copies(f, q)' = B(q \in 1..t.highest)
    <3>1. /\ q \notin src[f].rtx /\ q \notin sink[f].received /\ DataPacket(f, q) \notin net
          /\ BouncedPacket(f, q) \notin net /\ Nacks(f, q) = {}
          /\ DataPacket(f, q) \notin Range(queue.low) /\ DataPacket(f, q) \notin Range(queue.high)
      BY FreshFacts, PacketFacts DEF Nacks
    <3>2. DataPacket(f, q) \in net' <=> q \in 1..t.highest
      BY <1>6, <2>1, <3>1
    <3>3. q \notin src'[f].rtx
      BY <1>5
    <3>4. /\ sink'[f] = sink[f] /\ queue'.low = queue.low /\ queue'.high = queue.high
          /\ BouncedPacket(f, q) \notin net' /\ Nacks(f, q)' = {}
      BY <2>1, <2>2, <3>1
    <3> HIDE DEF Nacks
    <3> QED
      BY <3>1, <3>2, <3>3, <3>4 DEF Copies, B
  <2>5. ASSUME NEW g \in Flow
        PROVE  /\ src'[g].highest <= Size[g]
               /\ \A q \in Nat : /\ Copies(g, q)' = B(q \in 1..src'[g].highest)
                                 /\ \A a, b \in Nacks(g, q)' : a = b
    <3>1. \A q \in Nat : \A a, b \in Nacks(g, q)' : a = b
      BY <1>0, <2>2 DEF OnePlace
    <3>2. CASE g = f
      BY <1>5, <1>6, <2>4, <3>1, <3>2
    <3>3. CASE g # f
      BY <1>0, <1>5, <2>3, <3>1, <3>3 DEF OnePlace
    <3> QED
      BY <3>2, <3>3
  <2> QED
    BY <2>5 DEF OnePlace
<1>10. Fresh'
  BY <1>0, <1>1, <1>3, <1>5 DEF Fresh
<1>11. Ending'
  <2>1. \A g : LastAcks(g)' = LastAcks(g)
    BY <1>1, <1>3 DEF LastAcks
  <2>2. \A g \in Flow : src'[g].done = src[g].done
    BY <1>5
  <2> QED
    BY <1>0, <2>1, <2>2 DEF Ending
<1>12. PullsTrue'
  <2>1. \A x \in net' : x.kind \in {"ack", "nack", "pull"} => x \in net
    BY <1>1, <1>3
  <2>2. \A g \in Flow : src'[g].lastPull = src[g].lastPull /\ src'[g].maxPull = src[g].maxPull
    BY <1>5
  <2> QED
    BY <1>0, <2>1, <2>2 DEF PullsTrue
<1>13. Budget'
  <2>1. \A g \in Flow : src'[g].lastPull = src[g].lastPull
    BY <1>5
  <2>2. Min({Window, Size[f]}) \in Nat
    BY MinOfWindow
  <2>3. Cardinality(D) \in Nat
    BY <1>2, FS_CardinalityType
  <2>4. Cardinality(D) <= Min({Window, Size[f]})
    BY <1>2, <2>2, <2>3
  <2> QED
    BY <1>1, <1>2, <1>3, <2>1, <2>4, FirstWindowBudget
<1> QED
  BY <1>7, <1>8, <1>9, <1>10, <1>11, <1>12, <1>13 DEF IInv

LEMMA StartFlowInv ==
  ASSUME IInv, NEW f \in Flow, StartFlow(f)
  PROVE  IInv'
<1> DEFINE m == Min({Window, Size[f]})
<1>1. m \in Nat /\ m > 0
  BY MinOfWindow
<1>2. f \notin started /\ started' = started \cup {f} /\ UNCHANGED <<sink, pacer, queue>>
  BY DEF StartFlow
<1>3. CASE f \in RtsFlow
  <2>1. net' = net \cup {Request(f, i) : i \in 1..m} /\ src' = src
    BY <1>3 DEF StartFlow, Request
  <2>2. m <= Min({Window, Size[f]})
    BY <1>1
  <2> HIDE DEF m
  <2> QED
    BY <1>1, <1>2, <2>1, <2>2, StartWithRequests
<1>4. CASE f \notin RtsFlow
  <2> DEFINE out == 1..m
             t == [Sent(src[f], out) EXCEPT !.firstWindow = Max(out)]
             h == Max(out \cup {src[f].highest})
  <2>1. net' = net \cup Data(f, out) /\ src' = [src EXCEPT ![f] = t]
    BY <1>4 DEF StartFlow
  <2>2. src[f] \in Sources /\ src[f].rtx = {} /\ src[f].highest = 0
    BY <1>2, FreshFacts
  <2> HIDE DEF m
  <2>3. out \in SUBSET (0..m) /\ out # {} /\ out \cup {0} \in SUBSET (0..m)
    BY <1>1
  <2>4. Max(out) \in Int /\ h \in Nat /\ h = m
    <3>1. Max(out) \in out /\ Max(out \cup {0}) \in out \cup {0}
      BY <1>1, <2>3, MaxFacts
    <3>2. \A x \in out \cup {0} : Max(out \cup {0}) >= x
      BY <1>1, <2>3, MaxFacts
    <3>3. m \in out
      BY <1>1
    <3>4. h = Max(out \cup {0})
      BY <2>2
    <3>5. \A x \in out : x \in 1..m
      OBVIOUS
    <3> DEFINE k == Max(out \cup {0})
               l == Max(out)
    <3>6. l \in out /\ k \in out \cup {0} /\ k >= m
      BY <3>1, <3>2, <3>3
    <3> HIDE DEF k, l, h, out
    <3>7. l \in Int /\ k \in Nat /\ k = m
      BY <1>1, <3>5, <3>6
    <3> QED
      BY <3>4, <3>7 DEF k, l
  <2> DEFINE u == Sent(src[f], out)
  <2>5. u = [src[f] EXCEPT !.rtx = src[f].rtx \ out, !.highest = h]
    BY DEF Sent
  <2> DEFINE v == Max(out)
  <2>6. t = [u EXCEPT !.firstWindow = v]
    OBVIOUS
  <2> HIDE DEF t, u, v, h, out
  <2>7. v \in Int /\ h \in Nat /\ h = m
    BY <2>4 DEF v
  <2>8. /\ u \in Sources /\ u.rtx = {} /\ u.highest = h /\ u.lastPull = src[f].lastPull
        /\ u.maxPull = src[f].maxPull /\ u.done = src[f].done
    BY <2>2, <2>5, <2>7 DEF Sources
  <2>9. /\ t \in Sources /\ t.rtx = {} /\ t.highest = h /\ t.lastPull = src[f].lastPull
        /\ t.maxPull = src[f].maxPull /\ t.done = src[f].done
    BY <2>6, <2>7, <2>8 DEF Sources
  <2>10. net' = net \cup Data(f, 1..m) /\ t.highest = m
    BY <2>1, <2>7, <2>9 DEF out
  <2>11. m <= Min({Window, Size[f]})
    BY <1>1 DEF m
  <2> QED
    BY <1>1, <1>2, <2>1, <2>9, <2>10, <2>11, StartWithData
<1> QED
  BY <1>3, <1>4
-----------------------------------------------------------------------------
(* A packet p comes to the queue; h is the header that is made, if any.    *)
Low == Range(queue.low)
High == Range(queue.high)

Moved(p, h) ==
  /\ p \in net /\ p \in DataPackets \cup Requests
  /\ h \in {p} \cup Low /\ h \in DataPackets \cup Requests
  /\ GoodQueue(queue)'
  /\ \/ /\ p.kind = "data" /\ h = p
        /\ Low' = Low \cup {p} /\ High' = High /\ net' = net \ {p}
     \/ /\ Low' = (Low \cup {p}) \ {h} /\ High' = High \cup {h} /\ net' = net \ {p}
     \/ /\ Low' = (Low \cup {p}) \ {h} /\ High' = High /\ h.kind = "data"
        /\ net' = (net \ {p}) \cup {BouncedPacket(h.flow, h.seq)}
  /\ UNCHANGED <<src, sink, pacer, started>>

LEMMA QueueFacts ==
  ASSUME IInv
  PROVE  /\ GoodQueue(queue) /\ Low \subseteq DataPackets /\ High \subseteq DataPackets \cup Requests
         /\ Queued = Low \cup High /\ net \subseteq Messages
         /\ net \cap (Low \cup High) = {} /\ Low \cap High = {}
BY QueuedFacts DEF IInv, TypeInv, ServiceInv, Apart, GoodQueue, Low, High

LEMMA QueuePacketFacts ==
  ASSUME NEW p \in DataPackets \cup Requests
  PROVE  /\ p.flow \in Flow /\ p.kind \in {"data", "rts"} /\ p \in Messages
         /\ p.kind = "data" => p = DataPacket(p.flow, p.seq) /\ p.seq \in Nat /\ p \in DataPackets
         /\ p.kind = "rts" => p \in Requests
<1>1. p \in Messages
  BY DEF Messages
<1>2. CASE p \in DataPackets
  BY <1>1, <1>2, MessageFacts DEF DataPackets
<1>3. CASE p \in Requests
  BY <1>1, <1>3, MessageFacts DEF Requests
<1> QED
  BY <1>2, <1>3

LEMMA QueueReceivesMoves ==
  ASSUME IInv, NEW p \in net, QueueReceives(p)
  PROVE  \E h : Moved(p, h)
<1>1. p \in DataPackets \cup Requests
  BY QueueFacts, MessageFacts DEF QueueReceives
<1>2. PICK r \in ReceivePacket(queue, p) :
         /\ \A b \in r.bounced : b.kind = "data"
         /\ queue' = r.queue
         /\ net' = (net \ {p}) \cup {[b EXCEPT !.kind = "bounced"] : b \in r.bounced}
  BY DEF QueueReceives
<1>3. GoodQueue(queue) /\ p \notin Range(queue.low) /\ p \notin Range(queue.high)
  BY QueueFacts DEF Low, High
<1>4. GoodQueue(r.queue) /\ Arrives(queue, p, r)
  BY <1>1, <1>3, ReceivePacketFacts
<1>5. GoodQueue(queue)' /\ Range(r.queue.low) = Low' /\ Range(r.queue.high) = High'
  BY <1>2, <1>4 DEF GoodQueue, Low, High
<1>6. PICK h \in {p} \cup Low :
         LET low == (Low \cup (IF p.kind = "data" THEN {p} ELSE {})) \ {h}
         IN  \/ /\ p.kind = "data" /\ h = p
                /\ Low' = Low \cup {p} /\ High' = High /\ r.bounced = {}
             \/ /\ Low' = low /\ High' = High \cup {h} /\ r.bounced = {}
                /\ p.kind = "data" \/ h = p
             \/ /\ Low' = low /\ High' = High /\ r.bounced = {h}
                /\ p.kind = "data" \/ h = p
  BY <1>4, <1>5 DEF Arrives, Low, High
<1>7. h \in DataPackets \cup Requests
  BY <1>1, <1>6, QueueFacts
<1>8. p.kind = "data" \/ h = p
      => (Low \cup (IF p.kind = "data" THEN {p} ELSE {})) \ {h} = (Low \cup {p}) \ {h}
  BY <1>3 DEF Low
<1>9. UNCHANGED <<src, sink, pacer, started>>
  BY DEF QueueReceives
<1>10. CASE r.bounced = {}
  <2>1. net' = net \ {p}
    BY <1>2, <1>10
  <2> QED
    BY <1>1, <1>5, <1>6, <1>7, <1>8, <1>9, <1>10, <2>1 DEF Moved
<1>11. CASE r.bounced = {h}
  <2>1. h.kind = "data"
    BY <1>2, <1>11
  <2>2. [h EXCEPT !.kind = "bounced"] = BouncedPacket(h.flow, h.seq)
    <3>1. h \in DataPackets
      BY <1>7, <2>1, QueuePacketFacts
    <3> QED
      BY <3>1 DEF DataPackets, BouncedPacket
  <2>3. net' = (net \ {p}) \cup {BouncedPacket(h.flow, h.seq)}
    BY <1>2, <1>11, <2>2
  <2>4. Low' = (Low \cup {p}) \ {h} /\ High' = High
    BY <1>6, <1>8, <1>11
  <2> QED
    BY <1>1, <1>5, <1>6, <1>7, <1>9, <2>1, <2>3, <2>4 DEF Moved
<1> QED
  BY <1>6, <1>10, <1>11

LEMMA MovedFacts ==
  ASSUME IInv, NEW p, NEW h, Moved(p, h)
  PROVE  /\ p \in net /\ p.flow \in started /\ p \notin Low \cup High
         /\ h.flow \in Flow /\ h.flow \in started /\ h.kind \in {"data", "rts"}
         /\ h \in {p} \cup Low
         /\ h.kind = "data" => h = DataPacket(h.flow, h.seq) /\ h.seq \in Nat
         /\ \/ net' \cup Low' \cup High' = net \cup Low \cup High /\ net' = net \ {p}
            \/ /\ h.kind = "data" /\ h \in net \cup Low \cup High
               /\ net' = (net \ {p}) \cup {BouncedPacket(h.flow, h.seq)}
               /\ net' \cup Low' \cup High'
                    = ((net \cup Low \cup High) \ {h}) \cup {BouncedPacket(h.flow, h.seq)}
<1>1. /\ p \in net /\ p \in DataPackets \cup Requests
      /\ h \in {p} \cup Low /\ h \in DataPackets \cup Requests
  BY DEF Moved
<1>2. p \notin Low \cup High /\ p.flow \in started /\ h.flow \in started
  <2>1. p \notin Low \cup High
    BY <1>1, QueueFacts
  <2>2. p \in net \cup Range(queue.low) /\ h \in net \cup Range(queue.low)
    BY <1>1 DEF Low
  <2> QED
    BY <2>1, <2>2 DEF IInv, Fresh
<1>3. /\ h.flow \in Flow /\ h.kind \in {"data", "rts"}
      /\ h.kind = "data" => h = DataPacket(h.flow, h.seq) /\ h.seq \in Nat
  BY <1>1, QueuePacketFacts
<1>4. h \notin High
  BY <1>1, <1>2, QueueFacts
<1>5. \A f, q : BouncedPacket(f, q).kind = "bounced"
  BY PacketFacts
<1> DEFINE b == BouncedPacket(h.flow, h.seq)
           A == net \cup Low \cup High
           A1 == net' \cup Low' \cup High'
<1>6. b # h
  BY <1>3, <1>5
<1> HIDE DEF b
<1>7. \/ A1 = A /\ net' = net \ {p}
      \/ h.kind = "data" /\ net' = (net \ {p}) \cup {b} /\ A1 = (A \ {h}) \cup {b}
  <2>1. CASE h = p /\ Low' = Low \cup {p} /\ High' = High /\ net' = net \ {p}
    BY <1>1, <2>1
  <2>2. CASE Low' = (Low \cup {p}) \ {h} /\ High' = High \cup {h} /\ net' = net \ {p}
    BY <1>1, <2>2
  <2>3. CASE /\ Low' = (Low \cup {p}) \ {h} /\ High' = High /\ h.kind = "data"
             /\ net' = (net \ {p}) \cup {b}
    <3>1. h \notin net \ {p}
      BY <1>1, QueueFacts
    <3> QED
      BY <1>1, <1>4, <2>3, <3>1
  <2> QED
    BY <2>1, <2>2, <2>3 DEF Moved, b
<1>8. h \in A
  BY <1>1
<1> QED
  BY <1>1, <1>2, <1>3, <1>7, <1>8 DEF b

LEMMA MovedKeeps ==
  ASSUME IInv, NEW p, NEW h, Moved(p, h)
  PROVE  TypeInv' /\ ServiceInv' /\ Apart' /\ Fresh' /\ Ending' /\ PullsTrue'
<1> DEFINE b == BouncedPacket(h.flow, h.seq)
<1>0. TypeInv /\ Fresh /\ Ending /\ PullsTrue
  BY DEF IInv
<1>1. UNCHANGED <<src, sink, pacer, started>> /\ GoodQueue(queue)'
  BY DEF Moved
<1>2. \A x \in net' : x \in net \/ (h.kind = "data" /\ x = b)
  BY DEF Moved
<1>3. h.kind = "data" => b \in BouncedPackets /\ b.kind = "bounced" /\ b.flow = h.flow
  BY MovedFacts, PacketFacts
<1>4. h.flow \in started
  BY MovedFacts
<1> HIDE DEF b
<1>5. TypeInv' /\ ServiceInv'
  <2>1. net' \subseteq Messages
    BY <1>0, <1>2, <1>3 DEF TypeInv, Messages
  <2> QED
    BY <1>0, <1>1, <2>1 DEF TypeInv, ServiceInv, GoodQueue
<1>6. Apart'
  <2>1. net' \cap (Low' \cup High') = {}
    <3>1. \A x \in Low' \cup High' : x.kind \in {"data", "rts"}
      <4>1. Low' \cup High' \subseteq Low \cup High \cup {p, h}
        BY DEF Moved
      <4>2. \A x \in Low \cup High \cup {p, h} : x \in DataPackets \cup Requests
        BY QueueFacts DEF Moved
      <4> QED
        BY <4>1, <4>2, QueuePacketFacts
    <3>2. \A x \in net \ {p} : x \notin Low' \cup High'
      <4>1. Low' \cup High' \subseteq Low \cup High \cup {p}
        BY DEF Moved
      <4>2. \A x \in net : x \notin Low \cup High
        BY QueueFacts
      <4> QED
        BY <4>1, <4>2
    <3>3. \A x \in net' : x \in net \ {p} \/ x.kind = "bounced"
      <4>1. net' = net \ {p} \/ (h.kind = "data" /\ net' = (net \ {p}) \cup {b})
        BY DEF Moved, b
      <4> QED
        BY <1>3, <4>1
    <3> QED
      BY <3>1, <3>2, <3>3
  <2> QED
    BY <1>1, <2>1 DEF Apart, GoodQueue, Low, High
<1>7. Fresh'
  <2>1. \A x \in net \cup Low \cup High : x.flow \in started
    BY <1>0 DEF Fresh, Low, High
  <2>2. net' \cup Low' \cup High' \subseteq net \cup Low \cup High \cup {b}
        /\ (b \in net' => b \in net \/ h.kind = "data")
        /\ (b \in Low' \cup High' => b \in net \cup Low \cup High)
    BY <1>2, MovedFacts DEF b, Moved
  <2>3. \A x \in net' \cup Low' \cup High' : x.flow \in started
    BY <1>3, <1>4, <2>1, <2>2
  <2> QED
    BY <1>0, <1>1, <2>3 DEF Fresh, Low, High
<1>8. Ending'
  <2>1. p.kind # "ack"
    BY QueuePacketFacts DEF Moved
  <2>2. net' = net \ {p} \/ (h.kind = "data" /\ net' = (net \ {p}) \cup {b})
    BY DEF Moved, b
  <2>3. \A g : LastAcks(g)' = LastAcks(g)
    BY <1>3, <2>1, <2>2 DEF LastAcks
  <2> QED
    BY <1>0, <1>1, <2>3 DEF Ending
<1>9. PullsTrue'
  <2>1. \A x \in net' : x.kind \in {"ack", "nack", "pull"} => x \in net
    BY <1>2, <1>3
  <2> QED
    BY <1>0, <1>1, <2>1 DEF PullsTrue
<1> QED
  BY <1>5, <1>6, <1>7, <1>8, <1>9

(* A packet moves from one place to another.                               *)
LEMMA MovedPlaces ==
  ASSUME IInv, NEW p, NEW h, Moved(p, h)
  PROVE  OnePlace'
<1>0. TypeInv /\ OnePlace
  BY DEF IInv
<1> SUFFICES ASSUME NEW g \in Flow
             PROVE  /\ src[g].highest <= Size[g]
                    /\ \A q \in Nat : /\ Copies(g, q)' = B(q \in 1..src[g].highest)
                                      /\ \A a, b \in Nacks(g, q)' : a = b
  BY DEF OnePlace, Moved
<1>1. src[g].highest <= Size[g]
  BY <1>0 DEF OnePlace
<1> SUFFICES ASSUME NEW q \in Nat
             PROVE  /\ Copies(g, q)' = Copies(g, q)
                    /\ Nacks(g, q)' = Nacks(g, q)
  BY <1>0, <1>1 DEF OnePlace
<1> DEFINE d == DataPacket(g, q)
           b == BouncedPacket(g, q)
           c == BouncedPacket(h.flow, h.seq)
<1>2. d.kind = "data" /\ b.kind = "bounced" /\ c.kind = "bounced" /\ d # b
  BY PacketFacts
<1>3. h.kind = "data" => (b = c <=> d = h)
  BY MovedFacts, PacketFacts
<1>4. /\ p.kind \in {"data", "rts"}
      /\ net' = net \ {p} \/ (h.kind = "data" /\ net' = (net \ {p}) \cup {c})
  <2>1. p.kind \in {"data", "rts"}
    BY QueuePacketFacts DEF Moved
  <2>2. net' = net \ {p} \/ (h.kind = "data" /\ net' = (net \ {p}) \cup {c})
    BY DEF Moved
  <2> QED
    BY <2>1, <2>2
<1>5. Nacks(g, q)' = Nacks(g, q)
  BY <1>2, <1>4 DEF Nacks
<1>6. /\ src'[g] = src[g] /\ sink'[g] = sink[g]
      /\ p \in net /\ p \notin Low /\ p \notin High /\ h \in {p} \cup Low
      /\ (d = h => h.kind = "data")
  BY <1>2, MovedFacts DEF Moved
<1>7. \/ /\ h = p
         /\ Low' = Low \cup {p} /\ High' = High /\ net' = net \ {p}
      \/ /\ Low' = (Low \cup {p}) \ {h} /\ High' = High \cup {h} /\ net' = net \ {p}
      \/ /\ Low' = (Low \cup {p}) \ {h} /\ High' = High /\ h.kind = "data"
         /\ net' = (net \ {p}) \cup {c}
  BY DEF Moved
<1>8. Copies(g, q) \in {0, 1}
  BY <1>0 DEF OnePlace, B
<1> DEFINE N == Nacks(g, q)
<1>9. Copies(g, q) = B(q \in src[g].rtx) + B(q \in sink[g].received)
                     + B(d \in net) + B(b \in net) + B(N # {})
                     + B(d \in Low) + B(d \in High)
  BY DEF Copies, Low, High
<1>10. Copies(g, q)' = B(q \in src[g].rtx) + B(q \in sink[g].received)
                     + B(d \in net') + B(b \in net') + B(N # {})
                     + B(d \in Low') + B(d \in High')
  <2> HIDE DEF N
  <2>1. Nacks(g, q)' = N
    BY <1>5 DEF N
  <2> QED
    BY <1>6, <2>1 DEF Copies, Low, High
<1> DEFINE u == B(q \in src[g].rtx) + B(q \in sink[g].received) + B(N # {})
           n0 == B(d \in net)     n1 == B(d \in net')
           b0 == B(b \in net)     b1 == B(b \in net')
           l0 == B(d \in Low)     l1 == B(d \in Low')
           h0 == B(d \in High)    h1 == B(d \in High')
<1>14. /\ u \in Nat
       /\ n0 \in Nat /\ b0 \in Nat /\ l0 \in Nat /\ h0 \in Nat
       /\ n1 \in Nat /\ b1 \in Nat /\ l1 \in Nat /\ h1 \in Nat
  BY DEF B
<1>15. /\ Copies(g, q) = u + n0 + b0 + l0 + h0
       /\ Copies(g, q)' = u + n1 + b1 + l1 + h1
  <2>1. \A r, s, w \in {0, 1} : \A v1, v2, v3, v4 \in Nat :
           r + s + v1 + v2 + w + v3 + v4 = r + s + w + v1 + v2 + v3 + v4
    OBVIOUS
  <2>2. /\ B(q \in src[g].rtx) \in {0, 1} /\ B(q \in sink[g].received) \in {0, 1}
        /\ B(N # {}) \in {0, 1}
    BY DEF B
  <2> HIDE DEF n0, b0, l0, h0, n1, b1, l1, h1, N
  <2>3. Copies(g, q) = B(q \in src[g].rtx) + B(q \in sink[g].received)
                       + n0 + b0 + B(N # {}) + l0 + h0
    BY <1>9 DEF n0, b0, l0, h0
  <2>4. Copies(g, q)' = B(q \in src[g].rtx) + B(q \in sink[g].received)
                       + n1 + b1 + B(N # {}) + l1 + h1
    BY <1>10 DEF n1, b1, l1, h1
  <2> QED
    BY <1>14, <2>1, <2>2, <2>3, <2>4
<1> HIDE DEF d, b, c, N, u
<1>11. d # p /\ d # h => /\ (d \in net') = (d \in net) /\ (b \in net') = (b \in net)
                         /\ (d \in Low') = (d \in Low) /\ (d \in High') = (d \in High)
  BY <1>2, <1>3, <1>4, <1>7
<1>12. CASE d # p /\ d # h
  <2>1. n1 = n0 /\ b1 = b0 /\ l1 = l0 /\ h1 = h0
    BY <1>11, <1>12 DEF B
  <2> HIDE DEF n0, b0, l0, h0, n1, b1, l1, h1
  <2> QED
    BY <1>5, <1>15, <2>1
<1>13. CASE d = p \/ d = h
  <2>1. \/ n0 = 1 /\ l0 = 0
        \/ n0 = 0 /\ l0 = 1
    <3>1. d \in net => d \notin Low
      BY QueueFacts
    <3>2. CASE d \in net
      <4>1. d \notin Low
        BY <3>1, <3>2
      <4> QED
        BY <3>2, <4>1 DEF B
    <3>3. CASE d \notin net
      <4>1. d \in Low
        BY <1>6, <1>13, <3>3
      <4> QED
        BY <3>3, <4>1 DEF B
    <3> QED
      BY <3>2, <3>3
  <2>2. b0 = 0 /\ h0 = 0 /\ u = 0 /\ Copies(g, q) = 1
    <3> HIDE DEF n0, b0, l0, h0, n1, b1, l1, h1
    <3> QED
      BY <1>8, <1>14, <1>15, <2>1
  <2>3. b \notin net /\ d \notin High
    BY <2>2 DEF B
  <2>4. n1 + b1 + l1 + h1 = 1
    <3>0. d \in net => d \notin Low
      BY <2>1 DEF B
    <3>1. CASE h = p /\ Low' = Low \cup {p} /\ High' = High /\ net' = net \ {p}
      <4>1. d \notin net' /\ d \in Low' /\ d \notin High' /\ b \notin net'
        BY <1>13, <2>3, <3>1
      <4> QED
        BY <4>1 DEF B
    <3>2. CASE Low' = (Low \cup {p}) \ {h} /\ High' = High \cup {h} /\ net' = net \ {p}
      <4>1. b \notin net'
        BY <2>3, <3>2
      <4>2. CASE d = h
        <5>1. d \notin net' /\ d \notin Low' /\ d \in High'
          BY <1>6, <3>0, <3>2, <4>2
        <5> QED
          BY <4>1, <5>1 DEF B
      <4>3. CASE d # h
        <5>1. d = p /\ d \notin net' /\ d \in Low' /\ d \notin High'
          BY <1>13, <2>3, <3>2, <4>3
        <5> QED
          BY <4>1, <5>1 DEF B
      <4> QED
        BY <4>2, <4>3
    <3>3. CASE /\ Low' = (Low \cup {p}) \ {h} /\ High' = High /\ h.kind = "data"
               /\ net' = (net \ {p}) \cup {c}
      <4>1. CASE d = h
        <5>1. d \notin net' /\ d \notin Low' /\ d \notin High' /\ b \in net'
          BY <1>2, <1>3, <1>6, <2>3, <3>0, <3>3, <4>1
        <5> QED
          BY <5>1 DEF B
      <4>2. CASE d # h
        <5>1. d = p /\ d \notin net' /\ d \in Low' /\ d \notin High' /\ b \notin net'
          BY <1>2, <1>3, <1>13, <2>3, <3>3, <4>2
        <5> QED
          BY <5>1 DEF B
      <4> QED
        BY <4>1, <4>2
    <3> QED
      BY <1>7, <3>1, <3>2, <3>3
  <2> HIDE DEF n0, b0, l0, h0, n1, b1, l1, h1
  <2> QED
    BY <1>5, <1>14, <1>15, <2>2, <2>4
<1> QED
  BY <1>5, <1>12, <1>13 DEF N

(* One element is exchanged for another, or leaves.                        *)
LEMMA ExchangeCount ==
  ASSUME NEW K, IsFiniteSet(K), NEW x \in K, NEW y, NEW L \in SUBSET ((K \ {x}) \cup {y})
  PROVE  /\ IsFiniteSet(L) /\ Cardinality(L) \in Nat /\ Cardinality(K) \in Nat
         /\ Cardinality(L) <= Cardinality(K)
<1>1. /\ IsFiniteSet(K \ {x}) /\ Cardinality(K \ {x}) = Cardinality(K) - 1
  BY FS_RemoveElement
<1>2. IsFiniteSet({y}) /\ Cardinality({y}) = 1
  BY FS_Singleton
<1>3. /\ IsFiniteSet(L) /\ Cardinality(L) \in Nat /\ Cardinality(K \ {x}) \in Nat
      /\ Cardinality(L) <= Cardinality(K \ {x}) + Cardinality({y})
  BY <1>1, <1>2, UnionCount
<1>4. Cardinality(K) \in Nat
  BY FS_CardinalityType
<1> QED
  BY <1>1, <1>2, <1>3, <1>4

LEMMA MovedBudget ==
  ASSUME IInv, NEW p, NEW h, Moved(p, h)
  PROVE  Budget'
<1> DEFINE b == BouncedPacket(h.flow, h.seq)
           A == net \cup Low \cup High
           A1 == net' \cup Low' \cup High'
           K(g) == OfFlow(A, g, Kinds)
           L(g) == OfFlow(A1, g, Kinds)
<1>1. net \cup Queued = A /\ net' \cup Queued' = A1
  <2>1. Queued = Low \cup High
    BY QueueFacts
  <2>2. queue' \in Queues
    BY DEF Moved, GoodQueue
  <2>3. Queued' = Low' \cup High'
    <3>1. queue'.low \in Seq(DataPackets) /\ queue'.high \in Seq(DataPackets \cup Requests)
      BY <2>2 DEF Queues
    <3>2. queue'.low \in Seq(DataPackets \cup Requests)
      BY <3>1
    <3>3. Range(queue'.low \o queue'.high) = Range(queue'.low) \cup Range(queue'.high)
      BY <3>1, <3>2, RangeConcatenation
    <3> QED
      BY <3>3 DEF Queued, Low, High
  <2> QED
    BY <2>1, <2>3
<1>2. src' = src /\ sink' = sink
  BY DEF Moved
<1> SUFFICES ASSUME NEW g \in Flow
             PROVE  /\ IsFiniteSet(L(g))
                    /\ Cardinality(L(g)) + (sink[g].pullNo - src[g].lastPull)
                         <= Min({Window, Size[g]})
  BY <1>1, <1>2 DEF Budget
<1>3. /\ IsFiniteSet(K(g))
      /\ Cardinality(K(g)) + (sink[g].pullNo - src[g].lastPull) <= Min({Window, Size[g]})
      /\ Min({Window, Size[g]}) \in Nat /\ sink[g].pullNo \in Nat /\ src[g].lastPull \in Nat
  BY <1>1, MinOfWindow DEF IInv, Budget, TypeInv, Sources, Sinks
<1>4. \/ A1 = A
      \/ h.kind = "data" /\ h \in A /\ A1 = (A \ {h}) \cup {b}
  BY MovedFacts
<1>5. b.kind = "bounced" /\ b.flow = h.flow
  BY PacketFacts
<1> HIDE DEF A, A1, b
<1>6. CASE A1 = A
  <2>1. L(g) = K(g)
    BY <1>6
  <2> QED
    BY <1>3, <2>1
<1>7. CASE h.kind = "data" /\ h \in A /\ A1 = (A \ {h}) \cup {b}
  <2>1. CASE h.flow = g
    <3>1. h \in K(g) /\ L(g) \in SUBSET ((K(g) \ {h}) \cup {b})
      BY <1>7, <2>1 DEF OfFlow, Kinds
    <3> HIDE DEF K, L
    <3>2. /\ IsFiniteSet(L(g)) /\ Cardinality(L(g)) \in Nat /\ Cardinality(K(g)) \in Nat
          /\ Cardinality(L(g)) <= Cardinality(K(g))
      BY <1>3, <3>1, ExchangeCount
    <3> QED
      BY <1>3, <3>2
  <2>2. CASE h.flow # g
    <3>1. L(g) = K(g)
      BY <1>5, <1>7, <2>2 DEF OfFlow
    <3> QED
      BY <1>3, <3>1
  <2> QED
    BY <2>1, <2>2
<1> QED
  BY <1>4, <1>6, <1>7

LEMMA QueueReceivesInv ==
  ASSUME IInv, NEW p \in net, QueueReceives(p)
  PROVE  IInv'
<1>1. PICK h : Moved(p, h)
  BY QueueReceivesMoves
<1> QED
  BY <1>1, MovedKeeps, MovedPlaces, MovedBudget DEF IInv
-----------------------------------------------------------------------------
(* The pulls that wait in the pacer.                                       *)
Waiting(p, f) == IF f \in Flows(p) THEN Range(p.map[f]) ELSE {}

(* The pacer p1 has at most the pulls of p and a pull n of f.              *)
PulledBy(p, f, n, p1) ==
  /\ p1 \in Pacers(p1.pulls) /\ WellFormed(p1.pulls, Flow, Nat)
  /\ Backlogged(p1.pulls) \subseteq Backlogged(p.pulls) \cup {f}
  /\ Waiting(p1.pulls, f) \subseteq Waiting(p.pulls, f) \cup {n}
  /\ \A g \in Flow \ {f} : Waiting(p1.pulls, g) \subseteq Waiting(p.pulls, g)

LEMMA EnqueueWaiting ==
  ASSUME NEW p, WellFormed(p, Flow, Nat), NEW f \in Flow, NEW n \in Nat
  PROVE  /\ WellFormed(Enqueue(p, f, n), Flow, Nat)
         /\ Backlogged(Enqueue(p, f, n)) \subseteq Backlogged(p) \cup {f}
         /\ Waiting(Enqueue(p, f, n), f) \subseteq Waiting(p, f) \cup {n}
         /\ \A g \in Flow \ {f} : Waiting(Enqueue(p, f, n), g) \subseteq Waiting(p, g)
<1> DEFINE e == Enqueue(p, f, n)
           s == IF f \in Flows(p) THEN p.map[f] ELSE <<>>
<1>1. /\ WellFormed(e, Flow, Nat) /\ Flows(e) = Flows(p) \cup {f}
      /\ Backlogged(e) = Backlogged(p) \cup {f}
      /\ e.map[f] = Append(s, n)
      /\ \A g \in Flows(p) \ {f} : e.map[g] = p.map[g]
  BY SameQueue, Fair!EnqueueFacts DEF WellFormed
<1>2. s \in Seq(Nat) /\ Range(s) = Waiting(p, f)
  <2>1. CASE f \in Flows(p)
    BY <2>1, SameQueue, Fair!FairTyping DEF WellFormed, Fair!WellFormed, Waiting
  <2>2. CASE f \notin Flows(p)
    <3>1. s = <<>> /\ Waiting(p, f) = {}
      BY <2>2 DEF Waiting
    <3>2. Range(<<>>) = {}
      BY DEF Range
    <3>3. <<>> \in Seq(Nat)
      OBVIOUS
    <3> HIDE DEF s
    <3> QED
      BY <3>1, <3>2, <3>3
  <2> QED
    BY <2>1, <2>2
<1> HIDE DEF e, s
<1>3. Range(Append(s, n)) = Range(s) \cup {n}
  BY <1>2, AppendRange
<1>4. Waiting(e, f) = Waiting(p, f) \cup {n}
  BY <1>1, <1>2, <1>3 DEF Waiting
<1>5. \A g \in Flow \ {f} : Waiting(e, g) = Waiting(p, g)
  BY <1>1 DEF Waiting
<1> QED
  BY <1>1, <1>4, <1>5 DEF e

LEMMA FlushWaiting ==
  ASSUME NEW p, WellFormed(p, Flow, Nat), NEW f \in Flow
  PROVE  /\ WellFormed(FlushFlow(p, f), Flow, Nat)
         /\ Backlogged(FlushFlow(p, f)) \subseteq Backlogged(p)
         /\ \A g \in Flow : Waiting(FlushFlow(p, f), g) \subseteq Waiting(p, g)
<1>0. Flow \in SUBSET (Nat \ {0})
  BY FlowConstants
<1> DEFINE e == FlushFlow(p, f)
<1>1. /\ WellFormed(e, Flow, Nat) /\ Flows(e) = Flows(p) \ {f}
      /\ Backlogged(e) = Backlogged(p) \ {f}
      /\ \A g \in Flows(p) \ {f} : e.map[g] = p.map[g]
  <2>1. Fair!FlowAssumption /\ Fair!WellFormed(p, Flow, Nat)
    BY SameQueue DEF WellFormed
  <2>2. /\ Fair!WellFormed(Fair!FlushFlow(p, f), Flow, Nat)
        /\ Fair!Flows(Fair!FlushFlow(p, f)) = Fair!Flows(p) \ {f}
        /\ Fair!Backlogged(Fair!FlushFlow(p, f)) = Fair!Backlogged(p) \ {f}
        /\ \A g \in Fair!Flows(p) \ {f} : Fair!FlushFlow(p, f).map[g] = p.map[g]
    BY <1>0, <2>1, SameQueue, Fair!FlushFacts
  <2> QED
    BY <2>2, SameQueue DEF WellFormed
<1> HIDE DEF e
<1>2. \A g \in Flow : Waiting(e, g) \subseteq Waiting(p, g)
  BY <1>1 DEF Waiting
<1> QED
  BY <1>1, <1>2 DEF e

LEMMA DequeueWaiting ==
  ASSUME NEW p, WellFormed(p, Flow, Nat), Backlogged(p) # {}
  PROVE  /\ WellFormed(Dequeue(p), Flow, Nat)
         /\ Dequeue(p).pull_count = p.pull_count - 1
         /\ Backlogged(Dequeue(p)) \subseteq Backlogged(p)
         /\ \A g \in Flow : Waiting(Dequeue(p), g) \subseteq Waiting(p, g)
         /\ Turn(p) \in Flow /\ Turn(p) \in Backlogged(p)
         /\ Served(p) \in Nat /\ Served(p) \in Waiting(p, Turn(p))
<1>0. Flow \in SUBSET (Nat \ {0}) /\ p \in Fair!Fair(Flow, Nat)
  BY FlowConstants DEF WellFormed, Fair!WellFormed
<1> DEFINE e == Dequeue(p)
           t == Turn(p)
<1>1. /\ WellFormed(e, Flow, Nat) /\ Flows(e) = Flows(p)
      /\ Dequeue(p).pull_count = p.pull_count - 1
      /\ Backlogged(e) \subseteq Backlogged(p)
      /\ e.map[t] = Tail(p.map[t])
      /\ \A g \in Flows(p) \ {t} : e.map[g] = p.map[g]
      /\ Served(p) \in Nat
  <2>1. Fair!FlowAssumption /\ Fair!WellFormed(p, Flow, Nat) /\ Fair!Backlogged(p) # {}
    BY SameQueue DEF WellFormed
  <2>2. /\ Fair!WellFormed(Fair!Dequeue(p), Flow, Nat)
        /\ Fair!Flows(Fair!Dequeue(p)) = Fair!Flows(p)
        /\ Fair!Dequeue(p).pull_count = p.pull_count - 1
        /\ Fair!Backlogged(Fair!Dequeue(p)) \subseteq Fair!Backlogged(p)
        /\ Fair!Dequeue(p).map[Fair!Turn(p)] = Tail(p.map[Fair!Turn(p)])
        /\ \A g \in Fair!Flows(p) \ {Fair!Turn(p)} : Fair!Dequeue(p).map[g] = p.map[g]
        /\ Fair!Served(p) \in Nat
    BY <1>0, <2>1, Fair!DequeueFacts
  <2> QED
    BY <2>2, SameQueue DEF WellFormed
<1>2. t \in Backlogged(p)
  BY <1>0, SameQueue, Fair!TurnFacts DEF WellFormed
<1>3. t \in Flows(p) /\ p.map[t] # <<>> /\ p.map[t] \in Seq(Nat) /\ t \in Flow
  BY <1>0, <1>2, SameQueue, Fair!FairTyping DEF Backlogged
<1>4. Served(p) = Head(p.map[t])
  BY DEF Served
<1> HIDE DEF e, t
<1>5. Head(p.map[t]) \in Range(p.map[t]) /\ Range(Tail(p.map[t])) \subseteq Range(p.map[t])
  <2> DEFINE s == p.map[t]
  <2>1. s \in Seq(Nat) /\ s # <<>>
    BY <1>3
  <2> HIDE DEF s
  <2>2. /\ Len(s) \in Nat /\ Len(s) >= 1 /\ DOMAIN s = 1..Len(s)
        /\ DOMAIN Tail(s) = 1..(Len(s) - 1) /\ Head(s) = s[1]
        /\ \A i \in 1..(Len(s) - 1) : Tail(s)[i] = s[i + 1]
    BY <2>1, HeadTailProperties
  <2>3. 1 \in DOMAIN s /\ \A i \in 1..(Len(s) - 1) : i + 1 \in DOMAIN s
    BY <2>2
  <2>4. Head(s) \in Range(s) /\ Range(Tail(s)) \subseteq Range(s)
    BY <2>2, <2>3 DEF Range
  <2> QED
    BY <2>4 DEF s
<1>6. \A g \in Flow : Waiting(e, g) \subseteq Waiting(p, g)
  <2>1. Waiting(e, t) \subseteq Waiting(p, t)
    BY <1>1, <1>3, <1>5 DEF Waiting
  <2>2. \A g \in Flow \ {t} : Waiting(e, g) = Waiting(p, g)
    BY <1>1 DEF Waiting
  <2> QED
    BY <2>1, <2>2
<1>7. Served(p) \in Waiting(p, t)
  BY <1>3, <1>4, <1>5 DEF Waiting
<1> QED
  BY <1>1, <1>2, <1>3, <1>6, <1>7 DEF e, t

LEMMA EnqueuePulled ==
  ASSUME NEW p, p \in Pacers(p.pulls), WellFormed(p.pulls, Flow, Nat), NEW f \in Flow, NEW n \in Nat,
         NEW d \in Nat, NEW l \in Nat
  PROVE  PulledBy(p, f, n, [p EXCEPT !.pulls = Enqueue(p.pulls, f, n), !.due = d, !.later = l])
<1> DEFINE e == Enqueue(p.pulls, f, n)
           p1 == [p EXCEPT !.pulls = e, !.due = d, !.later = l]
<1>1. /\ WellFormed(e, Flow, Nat)
      /\ Backlogged(e) \subseteq Backlogged(p.pulls) \cup {f}
      /\ Waiting(e, f) \subseteq Waiting(p.pulls, f) \cup {n}
      /\ \A g \in Flow \ {f} : Waiting(e, g) \subseteq Waiting(p.pulls, g)
  BY EnqueueWaiting
<1> SUFFICES PulledBy(p, f, n, p1)
  OBVIOUS
<1> HIDE DEF e
<1>2. p1.pulls = e /\ p1 \in Pacers(e)
  BY DEF Pacers
<1> HIDE DEF p1
<1> QED
  BY <1>1, <1>2 DEF PulledBy

LEMMA PacedPulled ==
  ASSUME TypeInv, NEW f \in Flow, NEW n \in Nat
  PROVE  PulledBy(pacer, f, n, Paced(f, n))
<1>0. /\ pacer \in Pacers(pacer.pulls) /\ WellFormed(pacer.pulls, Flow, Nat)
      /\ pacer.due \in Nat /\ pacer.later \in Nat
  BY DEF TypeInv, Pacers
<1>1. CASE PullsAlong
  <2> DEFINE p1 == [pacer EXCEPT !.recent = TRUE]
  <2>1. Paced(f, n) = p1
    BY <1>1 DEF Paced
  <2>2. p1.pulls = pacer.pulls /\ p1 \in Pacers(pacer.pulls)
    BY <1>0 DEF Pacers
  <2> HIDE DEF p1
  <2> QED
    BY <1>0, <2>1, <2>2 DEF PulledBy
<1>2. CASE ~PullsAlong
  <2> DEFINE d == pacer.due
             l == pacer.later + IF pacer.pulls.pull_count = 0 THEN 1 ELSE 0
             p1 == [pacer EXCEPT !.pulls = Enqueue(pacer.pulls, f, n), !.due = d, !.later = l]
  <2>1. Paced(f, n) = [pacer EXCEPT !.pulls = Enqueue(pacer.pulls, f, n), !.later = l]
    BY <1>2 DEF Paced
  <2>2. l \in Nat /\ d \in Nat
    BY <1>0
  <2>3. d = pacer.due
    OBVIOUS
  <2> HIDE DEF l, d
  <2>4. Paced(f, n) = p1
    BY <1>0, <2>1, <2>3 DEF Pacers
  <2>5. PulledBy(pacer, f, n, p1)
    BY <1>0, <2>2, EnqueuePulled
  <2> QED
    BY <2>4, <2>5
<1> QED
  BY <1>1, <1>2

LEMMA EnqueuePullPulled ==
  ASSUME TypeInv, NEW f \in Flow, NEW n \in Nat
  PROVE  PulledBy(pacer, f, n, EnqueuePull(f, n))
<1>0. /\ pacer \in Pacers(pacer.pulls) /\ WellFormed(pacer.pulls, Flow, Nat)
      /\ pacer.due \in Nat /\ pacer.later \in Nat
  BY DEF TypeInv, Pacers
<1> DEFINE none == pacer.pulls.pull_count = 0
           d == pacer.due + IF none /\ ~pacer.recent THEN 1 ELSE 0
           l == pacer.later + IF none /\ pacer.recent THEN 1 ELSE 0
<1>1. EnqueuePull(f, n) = [pacer EXCEPT !.pulls = Enqueue(pacer.pulls, f, n), !.due = d, !.later = l]
  BY DEF EnqueuePull
<1>2. d \in Nat /\ l \in Nat
  BY <1>0
<1> SUFFICES PulledBy(pacer, f, n, [pacer EXCEPT !.pulls = Enqueue(pacer.pulls, f, n),
                                                 !.due = d, !.later = l])
  BY <1>1
<1> HIDE DEF d, l
<1> QED
  BY <1>0, <1>2, EnqueuePulled

LEMMA FlushPulled ==
  ASSUME NEW p, NEW f \in Flow, NEW n \in Nat, NEW p1, PulledBy(p, f, n, p1)
  PROVE  PulledBy(p, f, n, [p1 EXCEPT !.pulls = FlushFlow(p1.pulls, f)])
<1> DEFINE e == FlushFlow(p1.pulls, f)
           p2 == [p1 EXCEPT !.pulls = e]
<1>0. /\ p1 \in Pacers(p1.pulls) /\ WellFormed(p1.pulls, Flow, Nat)
      /\ Backlogged(p1.pulls) \subseteq Backlogged(p.pulls) \cup {f}
      /\ Waiting(p1.pulls, f) \subseteq Waiting(p.pulls, f) \cup {n}
      /\ \A g \in Flow \ {f} : Waiting(p1.pulls, g) \subseteq Waiting(p.pulls, g)
  BY DEF PulledBy
<1>1. /\ WellFormed(e, Flow, Nat) /\ Backlogged(e) \subseteq Backlogged(p1.pulls)
      /\ \A g \in Flow : Waiting(e, g) \subseteq Waiting(p1.pulls, g)
  BY <1>0, FlushWaiting
<1> SUFFICES PulledBy(p, f, n, p2)
  OBVIOUS
<1> HIDE DEF e
<1>2. p2.pulls = e /\ p2 \in Pacers(e)
  BY <1>0 DEF Pacers
<1> HIDE DEF p2
<1>3. \A g \in Flow \ {f} : Waiting(e, g) \subseteq Waiting(p.pulls, g)
  BY <1>0, <1>1
<1>4. Waiting(e, f) \subseteq Waiting(p.pulls, f) \cup {n}
  BY <1>0, <1>1
<1>5. Backlogged(e) \subseteq Backlogged(p.pulls) \cup {f}
  BY <1>0, <1>1
<1> QED
  BY <1>1, <1>2, <1>3, <1>4, <1>5 DEF PulledBy

(* The cumulative acknowledgement: all that is received up to it.          *)
LEMMA CumulativeFacts ==
  ASSUME NEW N \in Nat, NEW R \in SUBSET (1..N)
  PROVE  /\ CumulativeAck(R) \in Nat
         /\ CumulativeAck(R) >= N => 1..N \subseteq R
<1> DEFINE S == {0} \cup {n \in R : 1..n \subseteq R}
           m == Max(S)
<1>0. \A n \in R : n \in 0..N /\ n \in Nat /\ n <= N
  OBVIOUS
<1>1. S \in SUBSET (0..N) /\ S # {}
  <2>1. \A x \in S : x = 0 \/ x \in R
    OBVIOUS
  <2>2. 0 \in S /\ 0 \in 0..N
    OBVIOUS
  <2> HIDE DEF S
  <2> QED
    BY <1>0, <2>1, <2>2
<1>2. m \in S
  BY <1>1, MaxFacts
<1>3. m = 0 \/ (m \in R /\ 1..m \subseteq R)
  BY <1>2
<1>4. CumulativeAck(R) = m
  BY DEF CumulativeAck
<1> HIDE DEF m, S
<1>5. m \in Nat /\ m <= N
  <2>1. CASE m = 0
    BY <2>1
  <2>2. CASE m \in R
    BY <1>0, <2>2
  <2> QED
    BY <1>3, <2>1, <2>2
<1>6. m >= N => 1..N \subseteq R
  <2> SUFFICES ASSUME m >= N PROVE 1..N \subseteq R
    OBVIOUS
  <2>1. m = N
    BY <1>5
  <2> QED
    BY <1>3, <2>1
<1> QED
  BY <1>4, <1>5, <1>6
-----------------------------------------------------------------------------
(* A packet p of flow f leaves the queue and reaches its sink, which counts*)
(* one more pull, receives got, and puts the answers new on the network.   *)
Delivered(p, f, got, new) ==
  /\ p \in Low \cup High /\ p \in DataPackets \cup Requests /\ p.flow = f
  /\ GoodQueue(queue)' /\ Low' = Low \ {p} /\ High' = High \ {p}
  /\ sink' = [sink EXCEPT ![f] = [pullNo   |-> sink[f].pullNo + 1,
                                  received |-> sink[f].received \cup got]]
  /\ PulledBy(pacer, f, sink[f].pullNo + 1, pacer')
  /\ net' = net \cup new
  /\ UNCHANGED <<src, started>>

AnswerOf(a, kind, p) ==
  /\ a \in Answers /\ a.kind = kind /\ a.flow = p.flow /\ a.seq = p.seq
  /\ a.pullNo <= sink[p.flow].pullNo + 1

ServeStep(p, f) ==
  \/ p.kind = "rts" /\ Delivered(p, f, {}, {})
  \/ \E a : p.kind = "data" /\ AnswerOf(a, "nack", p) /\ Delivered(p, f, {}, {a})
  \/ \E a : /\ p.kind = "data" /\ AnswerOf(a, "ack", p) /\ Delivered(p, f, {p.seq}, {a})
            /\ a.cum >= Size[f] => 1..Size[f] \subseteq sink[f].received \cup {p.seq}

LEMMA AnswerIs ==
  ASSUME IInv, NEW p, p \in Low \cup High, p \in DataPackets, NEW kind \in {"ack", "nack"},
         NEW R \in SUBSET (1..Size[p.flow]),
         Answer(kind, p, [pullNo |-> sink[p.flow].pullNo + 1, received |-> R])
  PROVE  /\ sink' = [sink EXCEPT ![p.flow] = [pullNo   |-> sink[p.flow].pullNo + 1,
                                              received |-> R]]
         /\ PulledBy(pacer, p.flow, sink[p.flow].pullNo + 1, pacer')
         /\ \E a : /\ AnswerOf(a, kind, p) /\ net' = net \cup {a}
                   /\ a.cum >= Size[p.flow] => 1..Size[p.flow] \subseteq R
<1> DEFINE f == p.flow
           n == sink[f].pullNo + 1
           k == [pullNo |-> n, received |-> R]
           cum == CumulativeAck(R)
           paced == Paced(f, n)
           a == [kind |-> kind, flow |-> f, seq |-> p.seq, cum |-> cum,
                 pull |-> PullsAlong, pullNo |-> IF PullsAlong THEN n ELSE 0]
<1>0. f \in Flow /\ p.seq \in Nat /\ Size[f] \in Nat /\ sink[f].pullNo \in Nat /\ TypeInv
  <2>1. f \in Flow /\ p.seq \in Nat
    BY DEF DataPackets
  <2> QED
    BY <2>1, FlowConstants DEF IInv, TypeInv, Sinks
<1>1. n \in Nat /\ k.received = R /\ k.pullNo = n
  BY <1>0
<1>2. cum \in Nat /\ (cum >= Size[f] => 1..Size[f] \subseteq R)
  BY <1>0, CumulativeFacts
<1>3. /\ sink' = [sink EXCEPT ![f] = k] /\ net' = net \cup {a}
      /\ pacer' = IF kind = "ack" /\ cum = Size[f]
                  THEN [paced EXCEPT !.pulls = FlushFlow(paced.pulls, f)] ELSE paced
  BY DEF Answer
<1>4. PulledBy(pacer, f, n, paced)
  BY <1>0, <1>1, PacedPulled
<1> HIDE DEF paced
<1>5. PulledBy(pacer, f, n, [paced EXCEPT !.pulls = FlushFlow(paced.pulls, f)])
  BY <1>0, <1>1, <1>4, FlushPulled
<1>6. PulledBy(pacer, f, n, pacer')
  BY <1>3, <1>4, <1>5
<1>7. AnswerOf(a, kind, p) /\ a.cum = cum
  <2> HIDE DEF cum
  <2>1. PullsAlong \in BOOLEAN
    BY DEF PullsAlong
  <2> QED
    BY <1>0, <1>1, <1>2, <2>1 DEF AnswerOf, Answers
<1> HIDE DEF a, cum
<1> QED
  BY <1>2, <1>3, <1>6, <1>7

LEMMA QueueServesStep ==
  ASSUME IInv, QueueServes
  PROVE  \E p : ServeStep(p, p.flow) /\ p.flow \in Flow
<1> DEFINE p == InService(queue)
           f == p.flow
           n == sink[f].pullNo + 1
<1>0. GoodQueue(queue) /\ Serving(queue) /\ queue' = CompleteService(queue)
      /\ UNCHANGED <<src, started>>
  BY QueueFacts DEF QueueServes
<1>1. /\ GoodQueue(CompleteService(queue))
      /\ \/ /\ queue.serv = "low" /\ p \in Low /\ p \in DataPackets
            /\ Range(CompleteService(queue).low) = Low \ {p}
            /\ Range(CompleteService(queue).high) = High
         \/ /\ queue.serv = "high" /\ p \in High /\ p \in DataPackets \cup Requests
            /\ Range(CompleteService(queue).low) = Low
            /\ Range(CompleteService(queue).high) = High \ {p}
  BY <1>0, CompleteServiceFacts DEF Low, High
<1>2. \/ queue.serv = "low" /\ ReceiveData(p)
      \/ queue.serv = "high" /\ p.kind = "data" /\ ReceiveHeader(p)
      \/ p.kind = "rts" /\ ReceiveRts(p)
  BY DEF QueueServes
<1> HIDE DEF p
<1>3. Low \cap High = {}
  BY QueueFacts
<1>4. /\ p \in Low \cup High /\ p \in DataPackets \cup Requests
      /\ GoodQueue(queue)' /\ Low' = Low \ {p} /\ High' = High \ {p}
  BY <1>0, <1>1, <1>3 DEF GoodQueue, Low, High
<1>5. f \in Flow /\ sink[f] \in Sinks /\ sink[f].received \subseteq 1..Size[f]
      /\ sink[f].pullNo \in Nat
  <2>1. f \in Flow
    BY <1>4, QueuePacketFacts
  <2>2. /\ src[f].highest \in Nat /\ src[f].highest <= Size[f] /\ Size[f] \in Nat \ {0}
        /\ sink[f].received \subseteq 1..src[f].highest /\ sink[f] \in Sinks
    BY <2>1, SourceBounds DEF IInv
  <2>3. \A i \in 1..src[f].highest : i \in 1..Size[f]
    BY <2>2
  <2> QED
    BY <2>1, <2>2, <2>3 DEF Sinks
<1>6. sink[f] = [pullNo |-> sink[f].pullNo, received |-> sink[f].received]
  BY <1>5 DEF Sinks
<1>7. ASSUME p.kind = "data", p \in DataPackets PROVE p.seq \in 1..Size[f]
  <2>1. p = DataPacket(f, p.seq) /\ p.seq \in Nat
    BY <1>7 DEF DataPackets, DataPacket
  <2>2. DataPacket(f, p.seq) \in Range(queue.low) \/ DataPacket(f, p.seq) \in Range(queue.high)
    BY <1>4, <2>1 DEF Low, High
  <2>3. p.seq \in 1..src[f].highest /\ src[f].highest \in Nat /\ src[f].highest <= Size[f]
    BY <1>5, <2>1, <2>2, PlaceFacts DEF IInv
  <2>4. Size[f] \in Nat
    BY <1>5, FlowConstants
  <2> QED
    BY <2>1, <2>3, <2>4
<1>8. CASE queue.serv = "low" /\ ReceiveData(p)
  <2> DEFINE R == sink[f].received \cup {p.seq}
  <2>1. p \in DataPackets /\ p.kind = "data"
    BY <1>1, <1>8 DEF DataPackets
  <2>2. R \in SUBSET (1..Size[f])
    BY <1>5, <1>7, <2>1
  <2>3. Answer("ack", p, [pullNo |-> sink[f].pullNo + 1, received |-> R])
    BY <1>8 DEF ReceiveData
  <2> HIDE DEF R
  <2>4. /\ sink' = [sink EXCEPT ![f] = [pullNo |-> sink[f].pullNo + 1, received |-> R]]
        /\ PulledBy(pacer, f, sink[f].pullNo + 1, pacer')
        /\ \E a : /\ AnswerOf(a, "ack", p) /\ net' = net \cup {a}
                  /\ a.cum >= Size[f] => 1..Size[f] \subseteq R
    BY <1>4, <2>1, <2>2, <2>3, AnswerIs
  <2>5. PICK a : /\ AnswerOf(a, "ack", p) /\ net' = net \cup {a}
                 /\ a.cum >= Size[f] => 1..Size[f] \subseteq R
    BY <2>4
  <2>6. Delivered(p, f, {p.seq}, {a})
    BY <1>0, <1>4, <2>4, <2>5 DEF Delivered, R
  <2>7. ServeStep(p, f)
    BY <2>1, <2>5, <2>6 DEF ServeStep, R
  <2> QED
    BY <1>5, <2>7
<1>9. CASE queue.serv = "high" /\ p.kind = "data" /\ ReceiveHeader(p)
  <2> DEFINE R == sink[f].received
  <2>1. p \in DataPackets /\ p.kind = "data"
    BY <1>4, <1>9, QueuePacketFacts
  <2>2. R \in SUBSET (1..Size[f])
    BY <1>5
  <2>3. Answer("nack", p, [pullNo |-> sink[f].pullNo + 1, received |-> R])
    <3>1. Answer("nack", p, [sink[f] EXCEPT !.pullNo = @ + 1])
      BY <1>9 DEF ReceiveHeader
    <3>2. [sink[f] EXCEPT !.pullNo = @ + 1] = [pullNo |-> sink[f].pullNo + 1, received |-> R]
      BY <1>6
    <3> QED
      BY <3>1, <3>2
  <2> HIDE DEF R
  <2>4. /\ sink' = [sink EXCEPT ![f] = [pullNo |-> sink[f].pullNo + 1, received |-> R]]
        /\ PulledBy(pacer, f, sink[f].pullNo + 1, pacer')
        /\ \E a : /\ AnswerOf(a, "nack", p) /\ net' = net \cup {a}
                  /\ a.cum >= Size[f] => 1..Size[f] \subseteq R
    BY <1>4, <2>1, <2>2, <2>3, AnswerIs
  <2>5. PICK a : AnswerOf(a, "nack", p) /\ net' = net \cup {a}
    BY <2>4
  <2>6. R = sink[f].received \cup {}
    BY DEF R
  <2>7. Delivered(p, f, {}, {a})
    BY <1>0, <1>4, <2>4, <2>5, <2>6 DEF Delivered
  <2>8. ServeStep(p, f)
    BY <2>1, <2>5, <2>7 DEF ServeStep
  <2> QED
    BY <1>5, <2>8
<1>10. CASE p.kind = "rts" /\ ReceiveRts(p)
  <2>1. /\ sink' = [sink EXCEPT ![f].pullNo = @ + 1]
        /\ pacer' = EnqueuePull(f, n) /\ net' = net \cup {}
    BY <1>10 DEF ReceiveRts
  <2>2. [sink EXCEPT ![f].pullNo = @ + 1]
        = [sink EXCEPT ![f] = [pullNo |-> n, received |-> sink[f].received \cup {}]]
    <3>1. [sink EXCEPT ![f].pullNo = @ + 1]
          = [sink EXCEPT ![f] = [sink[f] EXCEPT !.pullNo = sink[f].pullNo + 1]]
      OBVIOUS
    <3>2. [sink[f] EXCEPT !.pullNo = sink[f].pullNo + 1]
          = [pullNo |-> n, received |-> sink[f].received]
      BY <1>6
    <3>3. sink[f].received \cup {} = sink[f].received
      OBVIOUS
    <3> QED
      BY <3>1, <3>2, <3>3
  <2>3. PulledBy(pacer, f, n, EnqueuePull(f, n))
    BY <1>5, EnqueuePullPulled DEF IInv
  <2>4. Delivered(p, f, {}, {})
    BY <1>0, <1>4, <2>1, <2>2, <2>3 DEF Delivered
  <2>5. ServeStep(p, f)
    BY <1>10, <2>4 DEF ServeStep
  <2> QED
    BY <1>5, <2>5
<1> QED
  BY <1>2, <1>8, <1>9, <1>10

(* What the network gains is an answer or nothing.                         *)
LEMMA ServeFacts ==
  ASSUME IInv, NEW p, NEW f \in Flow, ServeStep(p, f)
  PROVE  /\ p \in Low \cup High /\ p.flow = f /\ p.kind \in {"data", "rts"}
         /\ p \notin net /\ f \in started
         /\ p.kind = "data" => p = DataPacket(f, p.seq) /\ p.seq \in Nat
         /\ GoodQueue(queue)' /\ Low' = Low \ {p} /\ High' = High \ {p}
         /\ sink' \in [Flow -> Sinks] /\ sink'[f].pullNo = sink[f].pullNo + 1
         /\ \A g \in Flow \ {f} : sink'[g] = sink[g]
         /\ PulledBy(pacer, f, sink[f].pullNo + 1, pacer')
         /\ net \subseteq net'
         /\ \A x \in net' \ net : /\ x \in Answers /\ x.flow = f /\ x.kind \in {"ack", "nack"}
                                  /\ x.pullNo <= sink[f].pullNo + 1
         /\ UNCHANGED <<src, started>>
<1>1. /\ sink \in [Flow -> Sinks] /\ sink[f].pullNo \in Nat /\ sink[f].received \subseteq Nat
  BY DEF IInv, TypeInv, Sinks
<1>2. PICK got, new :
         /\ Delivered(p, f, got, new) /\ (got = {} \/ (got = {p.seq} /\ p.kind = "data"))
         /\ \A x \in new : /\ x \in Answers /\ x.flow = f /\ x.kind \in {"ack", "nack"}
                           /\ x.pullNo <= sink[f].pullNo + 1
  <2>1. CASE p.kind = "rts" /\ Delivered(p, f, {}, {})
    BY <2>1
  <2>2. CASE \E a : p.kind = "data" /\ AnswerOf(a, "nack", p) /\ Delivered(p, f, {}, {a})
    <3>1. PICK a : AnswerOf(a, "nack", p) /\ Delivered(p, f, {}, {a})
      BY <2>2
    <3>2. /\ a \in Answers /\ a.flow = f /\ a.kind \in {"ack", "nack"}
          /\ a.pullNo <= sink[f].pullNo + 1
      BY <3>1 DEF AnswerOf, Delivered
    <3> QED
      BY <3>1, <3>2
  <2>3. CASE \E a : /\ p.kind = "data" /\ AnswerOf(a, "ack", p)
                    /\ Delivered(p, f, {p.seq}, {a})
    <3>1. PICK a : AnswerOf(a, "ack", p) /\ Delivered(p, f, {p.seq}, {a})
      BY <2>3
    <3>2. /\ a \in Answers /\ a.flow = f /\ a.kind \in {"ack", "nack"}
          /\ a.pullNo <= sink[f].pullNo + 1
      BY <3>1 DEF AnswerOf, Delivered
    <3> QED
      BY <2>3, <3>1, <3>2
  <2> QED
    BY <2>1, <2>2, <2>3 DEF ServeStep
<1>3. /\ p \in Low \cup High /\ p \in DataPackets \cup Requests /\ p.flow = f
      /\ GoodQueue(queue)' /\ Low' = Low \ {p} /\ High' = High \ {p}
      /\ PulledBy(pacer, f, sink[f].pullNo + 1, pacer')
      /\ net' = net \cup new
      /\ UNCHANGED <<src, started>>
  BY <1>2 DEF Delivered
<1>4. /\ p.kind \in {"data", "rts"}
      /\ p.kind = "data" => p = DataPacket(f, p.seq) /\ p.seq \in Nat
  BY <1>3, QueuePacketFacts
<1>5. p \notin net /\ f \in started
  BY <1>3, QueueFacts DEF IInv, Fresh, Low, High
<1> DEFINE k == [pullNo |-> sink[f].pullNo + 1, received |-> sink[f].received \cup got]
<1>6. k \in Sinks /\ k.pullNo = sink[f].pullNo + 1
  BY <1>1, <1>2, <1>4 DEF Sinks
<1>7. sink' = [sink EXCEPT ![f] = k]
  BY <1>2 DEF Delivered
<1> HIDE DEF k
<1>8. /\ sink' \in [Flow -> Sinks] /\ sink'[f] = k
      /\ \A g \in Flow \ {f} : sink'[g] = sink[g]
  BY <1>1, <1>6, <1>7
<1> QED
  BY <1>2, <1>3, <1>4, <1>5, <1>6, <1>8

LEMMA ServeKeeps ==
  ASSUME IInv, NEW p, NEW f \in Flow, ServeStep(p, f)
  PROVE  TypeInv' /\ ServiceInv' /\ Apart' /\ Fresh'
<1>0. TypeInv /\ Fresh
  BY DEF IInv
<1>1. /\ p \in Low \cup High /\ f \in started
      /\ GoodQueue(queue)' /\ Low' = Low \ {p} /\ High' = High \ {p}
      /\ sink' \in [Flow -> Sinks] /\ \A g \in Flow \ {f} : sink'[g] = sink[g]
      /\ net \subseteq net' /\ UNCHANGED <<src, started>>
  BY ServeFacts
<1>2. \A x \in net' \ net : x \in Answers /\ x.flow = f /\ x.kind \in {"ack", "nack"}
  BY ServeFacts
<1>3. /\ pacer' \in Pacers(pacer'.pulls) /\ WellFormed(pacer'.pulls, Flow, Nat)
      /\ Backlogged(pacer'.pulls) \subseteq Backlogged(pacer.pulls) \cup {f}
  <2>1. PulledBy(pacer, f, sink[f].pullNo + 1, pacer')
    BY ServeFacts
  <2> QED
    BY <2>1 DEF PulledBy
<1>4. TypeInv' /\ ServiceInv'
  <2>1. net' \subseteq Messages
    BY <1>0, <1>1, <1>2 DEF TypeInv, Messages
  <2> QED
    BY <1>0, <1>1, <1>3, <2>1 DEF TypeInv, ServiceInv, GoodQueue
<1>5. Apart'
  <2>1. \A x \in Low \cup High : x.kind \in {"data", "rts"} /\ x \notin net
    BY QueueFacts, QueuePacketFacts
  <2>2. net' \cap (Low' \cup High') = {}
    BY <1>1, <1>2, <2>1
  <2> QED
    BY <1>1, <2>2 DEF Apart, GoodQueue, Low, High
<1>6. Fresh'
  <2>1. \A x \in net' \cup Low' \cup High' : x.flow \in started
    <3>1. \A x \in net \cup Low \cup High : x.flow \in started
      BY <1>0 DEF Fresh, Low, High
    <3> QED
      BY <1>1, <1>2, <3>1
  <2>2. Backlogged(pacer'.pulls) \subseteq started
    BY <1>0, <1>1, <1>3 DEF Fresh
  <2>3. \A g \in Flow \ started :
           src[g].highest = 0 /\ src[g].lastPull = 0 /\ sink'[g].pullNo = 0
    BY <1>0, <1>1 DEF Fresh
  <2> QED
    BY <1>1, <2>1, <2>2, <2>3 DEF Fresh, Low, High
<1> QED
  BY <1>4, <1>5, <1>6

LEMMA ServePulls ==
  ASSUME IInv, NEW p, NEW f \in Flow, ServeStep(p, f)
  PROVE  PullsTrue'
<1>0. PullsTrue
  BY DEF IInv
<1>1. /\ sink'[f].pullNo = sink[f].pullNo + 1 /\ \A g \in Flow \ {f} : sink'[g] = sink[g]
      /\ net \subseteq net' /\ src' = src
  BY ServeFacts
<1>2. \A x \in net' \ net : /\ x \in Answers /\ x.flow = f
                            /\ x.pullNo <= sink[f].pullNo + 1
  BY ServeFacts
<1>3. PulledBy(pacer, f, sink[f].pullNo + 1, pacer')
  BY ServeFacts
<1> SUFFICES ASSUME NEW g \in Flow
             PROVE  /\ src[g].lastPull <= src[g].maxPull /\ src[g].maxPull <= sink'[g].pullNo
                    /\ \A x \in net' : x.flow = g /\ x.kind \in {"ack", "nack", "pull"} =>
                          x.pullNo <= sink'[g].pullNo
                    /\ g \in Flows(pacer'.pulls) =>
                          \A i \in DOMAIN pacer'.pulls.map[g] :
                             pacer'.pulls.map[g][i] <= sink'[g].pullNo
  BY <1>1 DEF PullsTrue
<1>4. /\ sink[g].pullNo \in Nat /\ sink'[g].pullNo \in Nat /\ sink[g].pullNo <= sink'[g].pullNo
      /\ src[g].lastPull \in Nat /\ src[g].maxPull \in Nat
      /\ (g = f => sink'[g].pullNo = sink[f].pullNo + 1)
  <2>1. \A e \in Flow : sink[e].pullNo \in Nat
    BY DEF IInv, TypeInv, Sinks
  <2>2. src[g].lastPull \in Nat /\ src[g].maxPull \in Nat
    BY DEF IInv, TypeInv, Sources
  <2> QED
    BY <1>1, <2>1, <2>2
<1>5. src[g].lastPull <= src[g].maxPull /\ src[g].maxPull <= sink'[g].pullNo
  BY <1>0, <1>4 DEF PullsTrue
<1>6. ASSUME NEW x \in net', x.flow = g, x.kind \in {"ack", "nack", "pull"}
      PROVE  x.pullNo <= sink'[g].pullNo
  <2>1. CASE x \in net
    <3>1. x.pullNo <= sink[g].pullNo
      BY <1>0, <1>6, <2>1 DEF PullsTrue
    <3>2. x.pullNo \in Nat
      BY <1>6, <2>1, MessageFacts DEF IInv, TypeInv
    <3> QED
      BY <1>4, <3>1, <3>2
  <2>2. CASE x \notin net
    BY <1>2, <1>4, <1>6, <2>2
  <2> QED
    BY <2>1, <2>2
<1>7. ASSUME g \in Flows(pacer'.pulls), NEW i \in DOMAIN pacer'.pulls.map[g]
      PROVE  pacer'.pulls.map[g][i] <= sink'[g].pullNo
  <2> DEFINE v == pacer'.pulls.map[g][i]
  <2>1. v \in Waiting(pacer'.pulls, g)
    BY <1>7 DEF Waiting, Range
  <2>2. /\ Waiting(pacer'.pulls, f) \subseteq Waiting(pacer.pulls, f) \cup {sink[f].pullNo + 1}
        /\ \A e \in Flow \ {f} : Waiting(pacer'.pulls, e) \subseteq Waiting(pacer.pulls, e)
    BY <1>3 DEF PulledBy
  <2> HIDE DEF v
  <2>3. \/ v \in Waiting(pacer.pulls, g)
        \/ g = f /\ v = sink[f].pullNo + 1
    BY <2>1, <2>2
  <2>4. ASSUME v \in Waiting(pacer.pulls, g) PROVE v \in Nat /\ v <= sink[g].pullNo
    <3>1. g \in Flows(pacer.pulls) /\ v \in Range(pacer.pulls.map[g])
      BY <2>4 DEF Waiting
    <3>2. pacer.pulls.map[g] \in Seq(Nat)
      BY <3>1, SameQueue, Fair!FairTyping DEF IInv, TypeInv, WellFormed, Fair!WellFormed
    <3>3. PICK j \in DOMAIN pacer.pulls.map[g] : v = pacer.pulls.map[g][j]
      BY <3>1 DEF Range
    <3>4. v <= sink[g].pullNo
      BY <1>0, <3>1, <3>3 DEF PullsTrue
    <3>5. v \in Nat
      BY <3>2, <3>3
    <3> QED
      BY <3>4, <3>5
  <2>5. v <= sink'[g].pullNo
    BY <1>4, <2>3, <2>4
  <2> QED
    BY <2>5 DEF v
<1> QED
  BY <1>5, <1>6, <1>7

LEMMA ServeBudget ==
  ASSUME IInv, NEW p, NEW f \in Flow, ServeStep(p, f)
  PROVE  Budget'
<1> DEFINE A == net \cup Low \cup High
           A1 == net' \cup Low' \cup High'
           K(g) == OfFlow(A, g, Kinds)
           L(g) == OfFlow(A1, g, Kinds)
<1>0. /\ p \in Low \cup High /\ p.flow = f /\ p.kind \in {"data", "rts"} /\ p \notin net
      /\ GoodQueue(queue)' /\ Low' = Low \ {p} /\ High' = High \ {p}
      /\ sink'[f].pullNo = sink[f].pullNo + 1 /\ \A g \in Flow \ {f} : sink'[g] = sink[g]
      /\ net \subseteq net' /\ src' = src
  BY ServeFacts
<1>1. net \cup Queued = A /\ net' \cup Queued' = A1
  <2>1. Queued = Low \cup High
    BY QueueFacts
  <2>2. queue' \in Queues
    BY <1>0 DEF GoodQueue
  <2>3. queue'.low \in Seq(DataPackets) /\ queue'.high \in Seq(DataPackets \cup Requests)
    BY <2>2 DEF Queues
  <2>4. queue'.low \in Seq(DataPackets \cup Requests)
    BY <2>3
  <2>5. Range(queue'.low \o queue'.high) = Range(queue'.low) \cup Range(queue'.high)
    BY <2>3, <2>4, RangeConcatenation
  <2>6. Queued' = Low' \cup High'
    BY <2>5 DEF Queued, Low, High
  <2> QED
    BY <2>1, <2>6
<1>2. \A x \in net' \ net : x.kind \in {"ack", "nack"}
  BY ServeFacts
<1> SUFFICES ASSUME NEW g \in Flow
             PROVE  /\ IsFiniteSet(L(g))
                    /\ Cardinality(L(g)) + (sink'[g].pullNo - src[g].lastPull)
                         <= Min({Window, Size[g]})
  BY <1>0, <1>1 DEF Budget
<1>3. /\ IsFiniteSet(K(g))
      /\ Cardinality(K(g)) + (sink[g].pullNo - src[g].lastPull) <= Min({Window, Size[g]})
      /\ Min({Window, Size[g]}) \in Nat /\ sink[g].pullNo \in Nat /\ src[g].lastPull \in Nat
  BY <1>1, MinOfWindow DEF IInv, Budget, TypeInv, Sources, Sinks
<1>4. L(g) = K(g) \ {p}
  BY <1>0, <1>2 DEF OfFlow, Kinds
<1>5. p \in K(g) <=> g = f
  BY <1>0 DEF OfFlow, Kinds
<1> HIDE DEF K, L
<1>6. /\ IsFiniteSet(L(g)) /\ Cardinality(K(g)) \in Nat /\ Cardinality(L(g)) \in Nat
      /\ Cardinality(L(g)) = IF p \in K(g) THEN Cardinality(K(g)) - 1 ELSE Cardinality(K(g))
  BY <1>3, <1>4, FS_RemoveElement, FS_CardinalityType
<1>7. sink'[g].pullNo = sink[g].pullNo + (IF g = f THEN 1 ELSE 0)
  BY <1>0, <1>3
<1> QED
  BY <1>3, <1>5, <1>6, <1>7

(* One packet in the queue: the queue has its one copy.                    *)
LEMMA QueuedOnce ==
  ASSUME IInv, NEW f \in Flow, NEW q \in Nat, DataPacket(f, q) \in Low \cup High
  PROVE  /\ q \in 1..src[f].highest /\ q \in 1..Size[f]
         /\ q \notin src[f].rtx /\ q \notin sink[f].received
         /\ DataPacket(f, q) \notin net /\ BouncedPacket(f, q) \notin net
         /\ Nacks(f, q) = {}
<1> DEFINE d == DataPacket(f, q)
           b == BouncedPacket(f, q)
           N == Nacks(f, q)
<1>0. TypeInv /\ OnePlace
  BY DEF IInv
<1>1. d \in Range(queue.low) \/ d \in Range(queue.high)
  BY DEF Low, High
<1>2. /\ src[f].highest \in Nat /\ src[f].highest <= Size[f] /\ q \in 1..src[f].highest
      /\ Copies(f, q) = B(q \in 1..src[f].highest)
  BY <1>0, <1>1, PlaceFacts
<1>3. B(q \in src[f].rtx) + B(q \in sink[f].received)
      + B(d \in net) + B(b \in net) + B(N # {})
      + B(d \in Range(queue.low)) + B(d \in Range(queue.high)) = 1
  BY <1>2 DEF Copies, B
<1> HIDE DEF d, b, N
<1>4. /\ q \notin src[f].rtx /\ q \notin sink[f].received
      /\ d \notin net /\ b \notin net /\ N = {}
  BY <1>1, <1>3 DEF B
<1>5. q \in 1..Size[f]
  BY <1>2, FlowConstants
<1> QED
  BY <1>2, <1>4, <1>5 DEF d, b, N

LEMMA ServePlaces ==
  ASSUME IInv, NEW p, NEW f \in Flow, ServeStep(p, f)
  PROVE  OnePlace'
<1>0. TypeInv /\ OnePlace
  BY DEF IInv
<1>1. /\ p \in Low \cup High /\ p.flow = f
      /\ Low' = Low \ {p} /\ High' = High \ {p} /\ net \subseteq net'
      /\ \A g \in Flow \ {f} : sink'[g] = sink[g]
      /\ src' = src
  BY ServeFacts
<1>2. p.kind = "data" => p = DataPacket(f, p.seq) /\ p.seq \in Nat
  BY ServeFacts
<1>3. \A x \in net' \ net : x.flow = f /\ x.kind \in {"ack", "nack"}
  BY ServeFacts
<1> SUFFICES ASSUME NEW g \in Flow, NEW q \in Nat
             PROVE  /\ Copies(g, q)' = B(q \in 1..src[g].highest)
                    /\ \A a, b \in Nacks(g, q)' : a = b
  BY <1>0, <1>1 DEF OnePlace
<1> DEFINE d == DataPacket(g, q)
           b == BouncedPacket(g, q)
           N == Nacks(g, q)
           N1 == Nacks(g, q)'
<1>4. /\ Copies(g, q) = B(q \in 1..src[g].highest)
      /\ \A x, y \in N : x = y
  BY <1>0 DEF OnePlace
<1>5. d.kind = "data" /\ b.kind = "bounced"
  BY PacketFacts
<1>6. (d \in net') = (d \in net) /\ (b \in net') = (b \in net)
  BY <1>1, <1>3, <1>5
<1>7. Copies(g, q) = B(q \in src[g].rtx) + B(q \in sink[g].received)
                     + B(d \in net) + B(b \in net) + B(N # {})
                     + B(d \in Low) + B(d \in High)
  BY DEF Copies, Low, High
<1>8. Copies(g, q)' = B(q \in src[g].rtx) + B(q \in sink'[g].received)
                     + B(d \in net) + B(b \in net) + B(N1 # {})
                     + B(d \in Low') + B(d \in High')
  <2> HIDE DEF N1
  <2>1. src'[g] = src[g]
    BY <1>1
  <2> QED
    BY <1>6, <2>1 DEF Copies, Low, High, N1
<1>9. CASE d # p
  <2>1. (d \in Low') = (d \in Low) /\ (d \in High') = (d \in High)
    BY <1>1, <1>9
  <2>2. (q \in sink'[g].received) = (q \in sink[g].received) /\ N1 = N
    <3>1. CASE g # f
      BY <1>1, <1>3, <3>1 DEF Nacks
    <3>2. CASE g = f
      <4>1. sink'[f].received \subseteq sink[f].received \cup (IF p.kind = "data" THEN {p.seq} ELSE {})
            /\ sink[f].received \subseteq sink'[f].received
        BY <1>0 DEF ServeStep, Delivered, TypeInv
      <4>2. \A x \in net' \ net : p.kind = "data" /\ x.seq = p.seq
        BY DEF ServeStep, Delivered, AnswerOf
      <4>3. p.kind = "data" => p.seq # q
        BY <1>2, <1>9, <3>2
      <4>4. N1 = N
        BY <1>1, <4>2, <4>3 DEF Nacks
      <4>5. (q \in sink'[f].received) = (q \in sink[f].received)
        BY <4>1, <4>3
      <4> QED
        BY <3>2, <4>4, <4>5
    <3> QED
      BY <3>1, <3>2
  <2> HIDE DEF N, N1, d, b
  <2>3. Copies(g, q)' = Copies(g, q)
    BY <1>7, <1>8, <2>1, <2>2
  <2>4. \A x, y \in N1 : x = y
    BY <1>4, <2>2
  <2> QED
    BY <1>4, <2>3, <2>4 DEF N1
<1>10. CASE d = p
  <2>1. g = f /\ q = p.seq /\ p.kind = "data"
    BY <1>1, <1>10, PacketFacts
  <2>2. /\ q \in 1..src[g].highest
        /\ q \notin src[g].rtx /\ q \notin sink[g].received
        /\ d \notin net /\ b \notin net /\ N = {}
    BY <1>1, <1>10, QueuedOnce
  <2>3. d \notin Low' /\ d \notin High'
    BY <1>1, <1>10
  <2>4. B(q \in sink'[g].received) + B(N1 # {}) = 1 /\ \A x, y \in N1 : x = y
    <3>1. CASE \E a : AnswerOf(a, "nack", p) /\ Delivered(p, f, {}, {a})
      <4>1. PICK a : AnswerOf(a, "nack", p) /\ Delivered(p, f, {}, {a})
        BY <3>1
      <4>2. N1 = {a}
        BY <2>1, <2>2, <4>1 DEF AnswerOf, Delivered, Nacks
      <4>3. sink'[g].received = sink[g].received
        BY <1>0, <2>1, <4>1 DEF Delivered, TypeInv
      <4> HIDE DEF N1
      <4> QED
        BY <2>2, <4>2, <4>3 DEF B
    <3>2. CASE \E a : AnswerOf(a, "ack", p) /\ Delivered(p, f, {p.seq}, {a})
      <4>1. PICK a : AnswerOf(a, "ack", p) /\ Delivered(p, f, {p.seq}, {a})
        BY <3>2
      <4>2. N1 = {}
        BY <2>1, <2>2, <4>1 DEF AnswerOf, Delivered, Nacks
      <4>3. q \in sink'[g].received
        BY <1>0, <2>1, <4>1 DEF Delivered, TypeInv
      <4> HIDE DEF N1
      <4> QED
        BY <4>2, <4>3 DEF B
    <3> QED
      BY <2>1, <3>1, <3>2 DEF ServeStep
  <2> HIDE DEF N, N1, d, b
  <2>5. Copies(g, q)' = 1
    BY <1>8, <2>2, <2>3, <2>4 DEF B
  <2>6. B(q \in 1..src[g].highest) = 1
    BY <2>2 DEF B
  <2> QED
    BY <2>4, <2>5, <2>6 DEF N1
<1> QED
  BY <1>9, <1>10

LEMMA ServeEnding ==
  ASSUME IInv, NEW p, NEW f \in Flow, ServeStep(p, f)
  PROVE  Ending'
<1>0. TypeInv /\ Ending
  BY DEF IInv
<1>1. /\ \A g \in Flow \ {f} : sink'[g] = sink[g]
      /\ src' = src /\ p.flow = f /\ p \in Low \cup High
      /\ p.kind = "data" => p = DataPacket(f, p.seq) /\ p.seq \in Nat
  BY ServeFacts
<1> SUFFICES ASSUME NEW g \in Flow
             PROVE  /\ LastAcks(g)' # {} \/ src[g].done # 0 => 1..Size[g] \subseteq sink'[g].received
                    /\ LastAcks(g)' # {} => src[g].done = 0
                    /\ src[g].done <= 1
                    /\ \A a, b \in LastAcks(g)' : a = b
  BY <1>1 DEF Ending
<1>2. /\ LastAcks(g) # {} \/ src[g].done # 0 => 1..Size[g] \subseteq sink[g].received
      /\ LastAcks(g) # {} => src[g].done = 0
      /\ src[g].done <= 1
      /\ \A a, b \in LastAcks(g) : a = b
  BY <1>0 DEF Ending
<1>3. CASE g # f
  <2>1. LastAcks(g)' = LastAcks(g)
    <3>1. net \subseteq net' /\ \A x \in net' \ net : x.flow = f
      BY ServeFacts
    <3> QED
      BY <1>3, <3>1 DEF LastAcks
  <2> HIDE DEF LastAcks
  <2> QED
    BY <1>1, <1>2, <1>3, <2>1
<1>4. CASE g = f /\ (\E new : Delivered(p, f, {}, new) /\ \A x \in new : x.kind = "nack")
  <2>1. PICK new : Delivered(p, f, {}, new) /\ \A x \in new : x.kind = "nack"
    BY <1>4
  <2>2. LastAcks(g)' = LastAcks(g)
    BY <2>1 DEF LastAcks, Delivered
  <2>3. sink'[f].received = sink[f].received
    BY <1>0, <2>1 DEF Delivered, TypeInv
  <2> HIDE DEF LastAcks
  <2> QED
    BY <1>2, <1>4, <2>2, <2>3
<1>5. CASE /\ g = f
           /\ \E a : /\ p.kind = "data" /\ AnswerOf(a, "ack", p) /\ Delivered(p, f, {p.seq}, {a})
                     /\ a.cum >= Size[f] => 1..Size[f] \subseteq sink[f].received \cup {p.seq}
  <2>1. PICK a : /\ p.kind = "data" /\ Delivered(p, f, {p.seq}, {a})
                 /\ a.cum >= Size[f] => 1..Size[f] \subseteq sink[f].received \cup {p.seq}
    BY <1>5
  <2>2. p.seq \in 1..Size[f] /\ p.seq \notin sink[f].received
    BY <1>1, <2>1, QueuedOnce
  <2>3. LastAcks(f) = {} /\ src[f].done = 0
    <3> HIDE DEF LastAcks
    <3> QED
      BY <1>2, <1>5, <2>2
  <2>4. LastAcks(f)' \subseteq {a} /\ (LastAcks(f)' # {} => a.cum >= Size[f])
    BY <2>1, <2>3 DEF LastAcks, Delivered
  <2>5. sink'[f].received = sink[f].received \cup {p.seq}
    BY <1>0, <2>1 DEF Delivered, TypeInv
  <2> HIDE DEF LastAcks
  <2> QED
    BY <1>5, <2>1, <2>3, <2>4, <2>5
<1>6. \/ \E new : Delivered(p, f, {}, new) /\ \A x \in new : x.kind = "nack"
      \/ \E a : /\ p.kind = "data" /\ AnswerOf(a, "ack", p) /\ Delivered(p, f, {p.seq}, {a})
                /\ a.cum >= Size[f] => 1..Size[f] \subseteq sink[f].received \cup {p.seq}
  <2>1. CASE p.kind = "rts" /\ Delivered(p, f, {}, {})
    BY <2>1
  <2>2. CASE \E a : p.kind = "data" /\ AnswerOf(a, "nack", p) /\ Delivered(p, f, {}, {a})
    <3>1. PICK a : AnswerOf(a, "nack", p) /\ Delivered(p, f, {}, {a})
      BY <2>2
    <3>2. \A x \in {a} : x.kind = "nack"
      BY <3>1 DEF AnswerOf
    <3> QED
      BY <3>1, <3>2
  <2> QED
    BY <2>1, <2>2 DEF ServeStep
<1> QED
  BY <1>3, <1>4, <1>5, <1>6

LEMMA QueueServesInv ==
  ASSUME IInv, QueueServes
  PROVE  IInv'
<1>1. PICK p : ServeStep(p, p.flow) /\ p.flow \in Flow
  BY QueueServesStep
<1>2. TypeInv' /\ ServiceInv' /\ Apart' /\ Fresh'
  BY <1>1, ServeKeeps
<1> QED
  BY <1>1, <1>2, ServePulls, ServeBudget, ServePlaces, ServeEnding DEF IInv
-----------------------------------------------------------------------------
(* The pacer: pulls leave it for the network.                              *)
LEMMA PacerStep ==
  ASSUME IInv, pacer' \in Pacers(pacer'.pulls), WellFormed(pacer'.pulls, Flow, Nat),
         Backlogged(pacer'.pulls) \subseteq Backlogged(pacer.pulls),
         \A g \in Flow : Waiting(pacer'.pulls, g) \subseteq Waiting(pacer.pulls, g),
         NEW D \in SUBSET Pulls, net' = net \cup D,
         \A x \in D : x.flow \in started /\ x.pullNo <= sink[x.flow].pullNo,
         UNCHANGED <<src, sink, queue, started>>
  PROVE  IInv'
<1>0. TypeInv /\ OnePlace /\ Apart /\ Fresh /\ Ending /\ PullsTrue /\ Budget
  BY DEF IInv
<1>1. \A x \in D : x.kind = "pull"
  BY DEF Pulls
<1>2. TypeInv' /\ ServiceInv'
  <2>1. net' \subseteq Messages
    BY <1>0 DEF TypeInv, Messages
  <2> QED
    BY <1>0, <2>1 DEF IInv, TypeInv, ServiceInv
<1>3. Apart'
  <2>1. \A x \in Low \cup High : x.kind \in {"data", "rts"}
    BY QueueFacts, QueuePacketFacts
  <2>2. D \cap (Range(queue.low) \cup Range(queue.high)) = {}
    BY <1>1, <2>1 DEF Low, High
  <2> QED
    BY <1>0, <2>2 DEF Apart
<1>4. OnePlace'
  <2>1. \A g, q : /\ DataPacket(g, q) \in net' <=> DataPacket(g, q) \in net
                  /\ BouncedPacket(g, q) \in net' <=> BouncedPacket(g, q) \in net
    BY <1>1, PacketFacts
  <2>2. \A g, q : Nacks(g, q)' = Nacks(g, q)
    BY <1>1 DEF Nacks
  <2> HIDE DEF Nacks
  <2>3. ASSUME NEW g, NEW q PROVE Copies(g, q)' = Copies(g, q)
    <3>1. /\ src'[g] = src[g] /\ sink'[g] = sink[g]
          /\ queue'.low = queue.low /\ queue'.high = queue.high
      OBVIOUS
    <3>2. Nacks(g, q)' = Nacks(g, q)
      BY <2>2
    <3> QED
      BY <2>1, <3>1, <3>2 DEF Copies
  <2> QED
    BY <1>0, <2>2, <2>3 DEF OnePlace
<1>5. Fresh'
  BY <1>0 DEF Fresh
<1>6. Ending'
  <2>1. \A g : LastAcks(g)' = LastAcks(g)
    BY <1>1 DEF LastAcks
  <2> QED
    BY <1>0, <2>1 DEF Ending
<1>7. PullsTrue'
  <2> SUFFICES ASSUME NEW g \in Flow
               PROVE  /\ src[g].lastPull <= src[g].maxPull /\ src[g].maxPull <= sink[g].pullNo
                      /\ \A x \in net' : x.flow = g /\ x.kind \in {"ack", "nack", "pull"} =>
                            x.pullNo <= sink[g].pullNo
                      /\ g \in Flows(pacer'.pulls) =>
                            \A i \in DOMAIN pacer'.pulls.map[g] :
                               pacer'.pulls.map[g][i] <= sink[g].pullNo
    BY DEF PullsTrue
  <2>1. \A v \in Waiting(pacer.pulls, g) : v <= sink[g].pullNo
    BY <1>0 DEF PullsTrue, Waiting, Range
  <2>2. g \in Flows(pacer'.pulls) =>
          \A i \in DOMAIN pacer'.pulls.map[g] :
             pacer'.pulls.map[g][i] \in Waiting(pacer'.pulls, g)
    BY DEF Waiting, Range
  <2> QED
    BY <1>0, <2>1, <2>2 DEF PullsTrue
<1>8. Budget'
  <2>1. Queued' = Queued
    BY DEF Queued
  <2>2. \A g : OfFlow(net' \cup Queued, g, Kinds) = OfFlow(net \cup Queued, g, Kinds)
    BY <1>1 DEF OfFlow, Kinds
  <2> QED
    BY <1>0, <2>1, <2>2 DEF Budget
<1> QED
  BY <1>2, <1>3, <1>4, <1>5, <1>6, <1>7, <1>8 DEF IInv

LEMMA PacerClockInv ==
  ASSUME IInv, PacerClock
  PROVE  IInv'
<1>0. /\ pacer \in Pacers(pacer.pulls) /\ WellFormed(pacer.pulls, Flow, Nat)
      /\ pacer.later \in Nat
  BY DEF IInv, TypeInv, Pacers
<1> DEFINE l == pacer.later
           p1 == [pacer EXCEPT !.recent = FALSE, !.due = l, !.later = 0]
<1>1. pacer' = p1 /\ UNCHANGED <<src, sink, queue, net, started>>
  BY DEF PacerClock
<1> HIDE DEF l
<1>2. p1.pulls = pacer.pulls /\ p1 \in Pacers(pacer.pulls)
  BY <1>0 DEF Pacers, l
<1> HIDE DEF p1
<1>3. net' = net \cup {} /\ {} \in SUBSET Pulls
  BY <1>1
<1> QED
  BY <1>0, <1>1, <1>2, <1>3, PacerStep

LEMMA PacerEventInv ==
  ASSUME IInv, PacerEvent
  PROVE  IInv'
<1>0. /\ pacer \in Pacers(pacer.pulls) /\ WellFormed(pacer.pulls, Flow, Nat)
      /\ pacer.later \in Nat /\ pacer.due \in Nat /\ pacer.due - 1 \in Nat
      /\ UNCHANGED <<src, sink, queue, started>>
  BY DEF IInv, TypeInv, Pacers, PacerEvent
<1> DEFINE p == pacer.pulls
           e == Dequeue(p)
           d == pacer.due - 1
           l == pacer.later + IF e.pull_count > 0 THEN 1 ELSE 0
<1>1. CASE p.pull_count = 0
  <2> DEFINE p1 == [pacer EXCEPT !.due = d]
  <2>1. pacer' = p1 /\ net' = net
    BY <1>1 DEF PacerEvent
  <2>2. d \in Nat
    BY <1>0
  <2> HIDE DEF d
  <2>3. p1.pulls = pacer.pulls /\ p1 \in Pacers(pacer.pulls)
    BY <1>0, <2>2 DEF Pacers
  <2> HIDE DEF p1
  <2>4. net' = net \cup {} /\ {} \in SUBSET Pulls
    BY <2>1
  <2> QED
    BY <1>0, <2>1, <2>3, <2>4, PacerStep
<1>2. CASE p.pull_count # 0
  <2> DEFINE p1 == [pulls |-> e, recent |-> TRUE, due |-> d, later |-> l]
             x == [kind |-> "pull", flow |-> Turn(p), pullNo |-> Served(p)]
  <2>1. pacer' = p1 /\ net' = net \cup {x}
    BY <1>2 DEF PacerEvent
  <2>2. Backlogged(p) # {}
    <3>1. p.pull_count \in Nat /\ (p.pull_count > 0 <=> Backlogged(p) # {})
      BY <1>0, SameQueue, Fair!CountedIsBacklogged DEF WellFormed
    <3> QED
      BY <1>2, <3>1
  <2>3. /\ WellFormed(e, Flow, Nat) /\ Backlogged(e) \subseteq Backlogged(p)
        /\ \A g \in Flow : Waiting(e, g) \subseteq Waiting(p, g)
        /\ Turn(p) \in Flow /\ Turn(p) \in Backlogged(p)
        /\ Served(p) \in Nat /\ Served(p) \in Waiting(p, Turn(p))
    BY <1>0, <2>2, DequeueWaiting
  <2>4. d \in Nat /\ l \in Nat
    BY <1>0
  <2> HIDE DEF d, l, e
  <2>5. p1.pulls = e /\ p1 \in Pacers(e)
    BY <2>4 DEF Pacers
  <2> HIDE DEF p1
  <2>6. x \in Pulls /\ x.flow = Turn(p) /\ x.pullNo = Served(p)
    BY <2>3 DEF Pulls
  <2>7. Turn(p) \in started
    BY <2>3 DEF IInv, Fresh
  <2>8. Served(p) <= sink[Turn(p)].pullNo
    BY <2>3 DEF IInv, PullsTrue, Waiting, Range
  <2> HIDE DEF x
  <2>9. {x} \in SUBSET Pulls /\ \A y \in {x} : y.flow \in started /\ y.pullNo <= sink[y.flow].pullNo
    BY <2>6, <2>7, <2>8
  <2> QED
    BY <1>0, <2>1, <2>3, <2>5, <2>9, PacerStep
<1> QED
  BY <1>1, <1>2
-----------------------------------------------------------------------------
(* The invariant, one step per action.                                     *)
LEMMA NextKeepsInv ==
  ASSUME IInv, [Next]_vars
  PROVE  IInv'
<1>1. CASE \E f \in Flow : StartFlow(f)
  BY <1>1, StartFlowInv
<1>2. CASE \E p \in net : SourceEvent(p)
  BY <1>2, ReceiveAckInv, ReceiveNackInv, ReceivePullInv, ReceiveBounceInv DEF SourceEvent
<1>3. CASE \E p \in net : QueueReceives(p)
  BY <1>3, QueueReceivesInv
<1>4. CASE QueueServes
  BY <1>4, QueueServesInv
<1>5. CASE PacerClock
  BY <1>5, PacerClockInv
<1>6. CASE PacerEvent
  BY <1>6, PacerEventInv
<1>7. CASE UNCHANGED vars
  <2>1. UNCHANGED <<src, sink, pacer, queue, net, started>>
    BY <1>7 DEF vars
  <2>2. TypeInv' /\ ServiceInv' /\ Apart' /\ Fresh'
    BY <2>1 DEF IInv, TypeInv, ServiceInv, Apart, Fresh
  <2>3. OnePlace'
    BY <2>1 DEF IInv, OnePlace, Copies, Nacks
  <2>4. Ending' /\ PullsTrue'
    BY <2>1 DEF IInv, Ending, LastAcks, PullsTrue
  <2>5. Budget'
    BY <2>1 DEF IInv, Budget, Queued
  <2> QED
    BY <2>2, <2>3, <2>4, <2>5 DEF IInv
<1> QED
  BY <1>1, <1>2, <1>3, <1>4, <1>5, <1>6, <1>7 DEF Next

(* NDP keeps the inductive invariant whatever the order its packets and    *)
(* answers arrive in, however often the queue trims or returns them.       *)
THEOREM InvCorrect == Spec => []IInv
<1>1. Init => IInv
  BY InitIInv
<1>2. IInv /\ [Next]_vars => IInv'
  BY NextKeepsInv
<1> QED
  BY <1>1, <1>2, PTL DEF Spec

(* The packets and requests under way and the pulls not yet used are never *)
(* more than the window, whatever order the pulls come in.                 *)
THEOREM WindowKeptCorrect == Spec => []WindowKept
<1>1. IInv => WindowKept
  BY DEF IInv, Budget, WindowKept, Kinds
<1> QED
  BY <1>1, InvCorrect, PTL

(* Counting what is one thing or nothing.                                  *)
LEMMA OneOrNone ==
  ASSUME NEW T, \A x, y \in T : x = y
  PROVE  Cardinality(T) = B(T # {})
<1>1. CASE T = {}
  BY <1>1, FS_EmptySet DEF B
<1>2. CASE T # {}
  <2>1. PICK x : x \in T
    BY <1>2
  <2>2. T = {x}
    BY <2>1
  <2> QED
    BY <1>2, <2>2, FS_Singleton DEF B
<1> QED
  BY <1>1, <1>2

LEMMA PlacesInQueue ==
  ASSUME NEW s, Injective(s), NEW d
  PROVE  Cardinality({i \in DOMAIN s : s[i] = d}) = B(d \in Range(s))
<1> DEFINE T == {i \in DOMAIN s : s[i] = d}
<1>1. \A i, j \in T : i = j
  BY DEF Injective
<1>2. Cardinality(T) = B(T # {})
  BY <1>1, OneOrNone
<1>3. T # {} <=> d \in Range(s)
  BY DEF Range
<1> QED
  BY <1>2, <1>3

LEMMA PlacesOnNetwork ==
  ASSUME IInv, NEW f \in Flow, NEW q \in Nat
  PROVE  Cardinality({p \in OfFlow(net, f, {"data", "bounced", "nack"}) : p.seq = q})
         = B(DataPacket(f, q) \in net) + B(BouncedPacket(f, q) \in net) + B(Nacks(f, q) # {})
<1> DEFINE T == {p \in OfFlow(net, f, {"data", "bounced", "nack"}) : p.seq = q}
           d == DataPacket(f, q)
           b == BouncedPacket(f, q)
           N == Nacks(f, q)
<1>1. /\ B(q \in src[f].rtx) + B(q \in sink[f].received)
         + B(d \in net) + B(b \in net) + B(N # {})
         + B(d \in Range(queue.low)) + B(d \in Range(queue.high)) \in {0, 1}
      /\ \A x, y \in N : x = y
  <2>1. Copies(f, q) = B(q \in 1..src[f].highest) /\ \A x, y \in N : x = y
    BY DEF IInv, OnePlace
  <2>2. B(q \in 1..src[f].highest) \in {0, 1}
    BY DEF B
  <2> QED
    BY <2>1, <2>2 DEF Copies
<1>2. \A x : x \in T <=> \/ x = d /\ d \in net
                         \/ x = b /\ b \in net
                         \/ x \in N
  <2>1. ASSUME NEW x \in T PROVE (x = d /\ d \in net) \/ (x = b /\ b \in net) \/ x \in N
    <3>1. x \in net /\ x \in Messages /\ x.flow = f /\ x.seq = q
          /\ x.kind \in {"data", "bounced", "nack"}
      BY DEF OfFlow, IInv, TypeInv
    <3>2. x.kind = "data" => x = d
      BY <3>1, MessageFacts
    <3>3. x.kind = "bounced" => x = b
      BY <3>1, MessageFacts
    <3>4. x.kind = "nack" => x \in N
      BY <3>1 DEF Nacks
    <3> QED
      BY <3>1, <3>2, <3>3, <3>4
  <2>2. ASSUME NEW x, (x = d /\ d \in net) \/ (x = b /\ b \in net) \/ x \in N PROVE x \in T
    BY <2>2, PacketFacts DEF OfFlow, Nacks
  <2> QED
    BY <2>1, <2>2
<1> HIDE DEF T, d, b, N
<1>3. B(d \in net) + B(b \in net) + B(N # {}) = B(T # {}) /\ \A x, y \in T : x = y
  <2>1. B(d \in net) + B(b \in net) + B(N # {}) \in {0, 1}
    BY <1>1 DEF B
  <2>2. T # {} <=> (d \in net \/ b \in net \/ N # {})
    BY <1>2
  <2>3. \/ d \notin net /\ b \notin net
        \/ d \notin net /\ N = {}
        \/ b \notin net /\ N = {}
    BY <2>1 DEF B
  <2>4. \A x, y \in T : x = y
    BY <1>1, <1>2, <2>3
  <2>5. B(d \in net) + B(b \in net) + B(N # {}) = B(T # {})
    BY <2>2, <2>3 DEF B
  <2> QED
    BY <2>4, <2>5
<1>4. Cardinality(T) = B(T # {})
  BY <1>3, OneOrNone
<1> QED
  BY <1>3, <1>4 DEF T, d, b, N

(* A packet that was sent is in exactly one place, and a flow ends once,   *)
(* with everything received.                                               *)
THEOREM EachPacketOnceCorrect == Spec => []EachPacketOnce
<1>1. ASSUME IInv PROVE EachPacketOnce
  <2> SUFFICES ASSUME NEW f \in Flow
               PROVE  /\ \A q \in 1..src[f].highest :
                            (IF q \in src[f].rtx THEN 1 ELSE 0)
                              + (IF q \in sink[f].received THEN 1 ELSE 0)
                              + Quantify(OfFlow(net, f, {"data", "bounced", "nack"}),
                                         LAMBDA p : p.seq = q)
                              + Quantify(DOMAIN queue.low,
                                         LAMBDA i : queue.low[i] = DataPacket(f, q))
                              + Quantify(DOMAIN queue.high,
                                         LAMBDA i : queue.high[i] = DataPacket(f, q)) = 1
                      /\ src[f].done <= 1
                      /\ src[f].done = 1 => sink[f].received = 1..Size[f]
    BY DEF EachPacketOnce
  <2>0. /\ src[f].highest \in Nat /\ src[f].highest <= Size[f] /\ Size[f] \in Nat
        /\ sink[f].received \subseteq 1..src[f].highest
    BY <1>1, SourceBounds DEF IInv
  <2>1. ASSUME NEW q \in 1..src[f].highest
        PROVE  (IF q \in src[f].rtx THEN 1 ELSE 0)
               + (IF q \in sink[f].received THEN 1 ELSE 0)
               + Quantify(OfFlow(net, f, {"data", "bounced", "nack"}), LAMBDA p : p.seq = q)
               + Quantify(DOMAIN queue.low, LAMBDA i : queue.low[i] = DataPacket(f, q))
               + Quantify(DOMAIN queue.high, LAMBDA i : queue.high[i] = DataPacket(f, q)) = 1
    <3> DEFINE r == B(q \in src[f].rtx)
               k == B(q \in sink[f].received)
               n == B(DataPacket(f, q) \in net)
               b == B(BouncedPacket(f, q) \in net)
               a == B(Nacks(f, q) # {})
               l == B(DataPacket(f, q) \in Range(queue.low))
               h == B(DataPacket(f, q) \in Range(queue.high))
    <3>0. q \in Nat
      BY <2>0
    <3>1. Quantify(OfFlow(net, f, {"data", "bounced", "nack"}), LAMBDA p : p.seq = q) = n + b + a
      BY <1>1, <3>0, PlacesOnNetwork DEF Quantify
    <3>2. Quantify(DOMAIN queue.low, LAMBDA i : queue.low[i] = DataPacket(f, q)) = l
      <4>1. Injective(queue.low)
        BY <1>1 DEF IInv, Apart
      <4> QED
        BY <4>1, PlacesInQueue DEF Quantify
    <3>3. Quantify(DOMAIN queue.high, LAMBDA i : queue.high[i] = DataPacket(f, q)) = h
      <4>1. Injective(queue.high)
        BY <1>1 DEF IInv, Apart
      <4> QED
        BY <4>1, PlacesInQueue DEF Quantify
    <3>4. r + k + n + b + a + l + h = 1
      <4>1. Copies(f, q) = B(q \in 1..src[f].highest)
        BY <1>1, <3>0 DEF IInv, OnePlace
      <4>2. B(q \in 1..src[f].highest) = 1
        BY DEF B
      <4> QED
        BY <4>1, <4>2 DEF Copies
    <3>5. /\ (IF q \in src[f].rtx THEN 1 ELSE 0) = r
          /\ (IF q \in sink[f].received THEN 1 ELSE 0) = k
      BY DEF B
    <3>6. /\ r \in Nat /\ k \in Nat /\ n \in Nat /\ b \in Nat
          /\ a \in Nat /\ l \in Nat /\ h \in Nat
      BY DEF B
    <3> HIDE DEF r, k, n, b, a, l, h
    <3>7. r + k + (n + b + a) + l + h = 1
      BY <3>4, <3>6
    <3> QED
      BY <3>1, <3>2, <3>3, <3>5, <3>7
  <2>2. src[f].done <= 1 /\ (src[f].done = 1 => 1..Size[f] \subseteq sink[f].received)
    BY <1>1 DEF IInv, Ending
  <2>3. \A i \in 1..src[f].highest : i \in 1..Size[f]
    BY <2>0
  <2>4. src[f].done = 1 => sink[f].received = 1..Size[f]
    BY <2>0, <2>2, <2>3
  <2> QED
    BY <2>1, <2>2, <2>4
<1> QED
  BY <1>1, InvCorrect, PTL
=============================================================================
