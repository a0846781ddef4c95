--------------------------- MODULE FairPullProofs ---------------------------
(***************************************************************************)
(* The count and the round robin of FairPullQueue, for any set of flow ids *)
(* and any number of packets, whatever flows come, go and come back.  The  *)
(* first part is what the operations do, for any flows F and packets P, to *)
(* the FIFOs, to the count kept beside them and to the iterator; whoever   *)
(* has such a queue cites it.                                              *)
(***************************************************************************)
EXTENDS FairPullQueue, FiniteSetTheorems, SequenceTheorems, WellFoundedInduction, TLAPS

Fair(F, P) == [map        : UNION {[D -> Seq(P)] : D \in SUBSET F},
               current    : F \cup {End},
               pull_count : Int]

(* The count is that of the packets in the FIFOs; the iterator is in the map. *)
WellFormed(pq, F, P) ==
    /\ pq \in Fair(F, P)
    /\ pq.current \in Flows(pq) \cup {End}
    /\ IsFiniteSet(Places(pq)) /\ pq.pull_count = Cardinality(Places(pq))

(* Going round the flows from c on (End being before them all), x is       *)
(* reached before y.                                                       *)
Before(c, x, y) == (c <= x /\ x < y) \/ (x < y /\ y < c) \/ (y < c /\ c <= x)

(***************************************************************************)
(* The least element of a set of naturals: the smallest of the intervals   *)
(* 0 .. n under inclusion, which is well founded on finite sets.           *)
(***************************************************************************)
LEMMA MinFacts ==
  ASSUME NEW S \in SUBSET Nat, S # {}
  PROVE  Min(S) \in S /\ \A n \in S : Min(S) <= n
  <1> DEFINE Below == {0 .. n : n \in S}
  <1>1. Below \subseteq FiniteSubsetsOf(Nat)
    <2>1. ASSUME NEW n \in S
          PROVE  IsFiniteSet(0 .. n)
      BY FS_Interval
    <2>2. QED
      BY <2>1 DEF FiniteSubsetsOf
  <1>2. Below # {}
    OBVIOUS
  <1>3. PICK b \in Below : \A c \in Below : <<c, b>> \notin StrictSubsetOrdering(Nat)
    <2> HIDE DEF Below
    <2> QED BY <1>1, <1>2, FS_StrictSubsetOrderingWellFounded, WFMin
  <1>4. PICK x \in S : b = 0 .. x
    BY <1>3
  <1>5. ASSUME NEW n \in S, n < x
        PROVE  FALSE
    <2>1. 0 .. n \in Below /\ 0 .. n \subseteq b /\ x \in b /\ x \notin 0 .. n
      BY <1>4, <1>5
    <2>2. <<0 .. n, b>> \in StrictSubsetOrdering(Nat)
      BY <1>4, <2>1 DEF StrictSubsetOrdering
    <2>3. QED
      BY <1>3, <2>1, <2>2
  <1>6. \A n \in S : x <= n
    BY <1>5
  <1>7. QED
    BY <1>6 DEF Min

(* A map of FIFOs, whose domain is part of its type. *)
LEMMA FairTyping ==
  ASSUME NEW F, NEW P, NEW pq \in Fair(F, P)
  PROVE  /\ Flows(pq) \subseteq F
         /\ pq.map \in [Flows(pq) -> Seq(P)]
         /\ pq.current \in F \cup {End} /\ pq.pull_count \in Int
         /\ pq = [map |-> pq.map, current |-> pq.current, pull_count |-> pq.pull_count]
         /\ \A f \in Flows(pq) : /\ pq.map[f] \in Seq(P) /\ Len(pq.map[f]) \in Nat
                                 /\ DOMAIN pq.map[f] = 1 .. Len(pq.map[f])
                                 /\ pq.map[f] # <<>> <=> Len(pq.map[f]) > 0
  <1>1. PICK D \in SUBSET F : pq.map \in [D -> Seq(P)]
    BY DEF Fair
  <1>2. Flows(pq) = D
    BY <1>1 DEF Flows
  <1>3. ASSUME NEW f \in Flows(pq)
        PROVE  /\ pq.map[f] \in Seq(P) /\ Len(pq.map[f]) \in Nat
               /\ DOMAIN pq.map[f] = 1 .. Len(pq.map[f])
               /\ pq.map[f] # <<>> <=> Len(pq.map[f]) > 0
    <2>1. pq.map[f] \in Seq(P)
      BY <1>1, <1>2
    <2>2. QED
      BY <2>1, LenProperties, EmptySeq
  <1>4. QED
    BY <1>1, <1>2, <1>3 DEF Fair

(* A place is a flow and an index of its FIFO. *)
LEMMA PlacesFacts ==
  ASSUME NEW F, NEW P, NEW pq \in Fair(F, P)
  PROVE  \A f, i : <<f, i>> \in Places(pq) <=> f \in Flows(pq) /\ i \in 1 .. Len(pq.map[f])
  <1>1. \A f \in Flows(pq) : DOMAIN pq.map[f] = 1 .. Len(pq.map[f])
    BY FairTyping
  <1>2. QED
    BY <1>1 DEF Places

(* A count that is not zero means that some flow has a packet. *)
LEMMA CountedIsBacklogged ==
  ASSUME NEW F, NEW P, NEW pq, WellFormed(pq, F, P)
  PROVE  /\ pq.pull_count \in Nat
         /\ pq.pull_count > 0 <=> Backlogged(pq) # {}
  <1>1. pq.pull_count \in Nat /\ (pq.pull_count = 0 <=> Places(pq) = {})
    BY FS_CardinalityType, FS_EmptySet DEF WellFormed
  <1>2. Places(pq) # {} <=> Backlogged(pq) # {}
    <2>1. /\ \A f \in Flows(pq) : /\ DOMAIN pq.map[f] = 1 .. Len(pq.map[f])
                                  /\ Len(pq.map[f]) \in Nat
                                  /\ pq.map[f] # <<>> <=> Len(pq.map[f]) > 0
      BY FairTyping DEF WellFormed
    <2>2. ASSUME NEW f \in Backlogged(pq)
          PROVE  <<f, 1>> \in Places(pq)
      <3>1. f \in Flows(pq) /\ 1 \in DOMAIN pq.map[f]
        BY <2>1 DEF Backlogged
      <3>2. QED
        BY <3>1 DEF Places
    <2>3. ASSUME NEW x \in Places(pq)
          PROVE  Backlogged(pq) # {}
      <3>1. PICK f \in Flows(pq) : x \in {f} \X DOMAIN pq.map[f]
        BY DEF Places
      <3>2. Len(pq.map[f]) > 0
        BY <2>1, <3>1
      <3>3. QED
        BY <2>1, <3>2 DEF Backlogged
    <2>4. QED
      BY <2>2, <2>3
  <1>3. QED
    BY <1>1, <1>2

LEMMA EmptyFairFacts ==
  ASSUME NEW F, NEW P
  PROVE  WellFormed(EmptyFair, F, P) /\ Flows(EmptyFair) = {} /\ Backlogged(EmptyFair) = {}
  <1>1. /\ <<>> \in [{} -> Seq(P)] /\ {} \in SUBSET F /\ DOMAIN <<>> = {}
    OBVIOUS
  <1>2. EmptyFair \in Fair(F, P) /\ Flows(EmptyFair) = {}
    <2> DEFINE m == <<>>  D == {}
    <2>1. m \in [D -> Seq(P)] /\ D \subseteq F /\ End \in F \cup {End} /\ 0 \in Int
      BY <1>1
    <2>2. EmptyFair = [map |-> m, current |-> End, pull_count |-> 0]
      BY DEF EmptyFair
    <2>3. D = {}
      OBVIOUS
    <2> HIDE DEF m, D
    <2>4. m \in UNION {[E -> Seq(P)] : E \in SUBSET F}
      BY <2>1
    <2>5. QED
      BY <2>1, <2>2, <2>3, <2>4 DEF Fair, Flows
  <1>3. Places(EmptyFair) = {}
    BY <1>2 DEF Places
  <1>4. QED
    BY <1>2, <1>3, FS_EmptySet DEF WellFormed, Backlogged, EmptyFair

LEMMA EnqueueFacts ==
  ASSUME NEW F, NEW P, NEW pq, WellFormed(pq, F, P), NEW f \in F, NEW p \in P
  PROVE  /\ WellFormed(Enqueue(pq, f, p), F, P)
         /\ Enqueue(pq, f, p).current = pq.current
         /\ Enqueue(pq, f, p).pull_count = pq.pull_count + 1
         /\ Flows(Enqueue(pq, f, p)) = Flows(pq) \cup {f}
         /\ Backlogged(Enqueue(pq, f, p)) = Backlogged(pq) \cup {f}
         /\ Enqueue(pq, f, p).map[f] = Append(IF f \in Flows(pq) THEN pq.map[f] ELSE <<>>, p)
         /\ \A g \in Flows(pq) \ {f} : Enqueue(pq, f, p).map[g] = pq.map[g]
  <1> DEFINE q == Enqueue(pq, f, p)
             n == IF f \in Flows(pq) THEN Len(pq.map[f]) ELSE 0
             fifo == IF f \in Flows(pq) THEN pq.map[f] ELSE <<>>
             new == Append(fifo, p)
             m == [g \in Flows(pq) \cup {f} |-> IF g = f THEN new ELSE pq.map[g]]
  <1>1. /\ pq \in Fair(F, P) /\ Flows(pq) \subseteq F /\ pq.map \in [Flows(pq) -> Seq(P)]
        /\ pq.current \in F \cup {End} /\ pq.pull_count \in Int
        /\ pq = [map |-> pq.map, current |-> pq.current, pull_count |-> pq.pull_count]
        /\ \A g \in Flows(pq) : Len(pq.map[g]) \in Nat
    BY FairTyping DEF WellFormed
  <1>2. q = [map |-> m, current |-> pq.current, pull_count |-> pq.pull_count + 1]
    BY DEF Enqueue
  <1>3. /\ new \in Seq(P) /\ Len(new) = n + 1 /\ n \in Nat /\ new # <<>>
    <2>1. fifo \in Seq(P) /\ Len(fifo) = n /\ n \in Nat
      BY <1>1, EmptySeq
    <2> HIDE DEF fifo, n
    <2>2. QED
      BY <2>1, AppendProperties
  <1> HIDE DEF n, new
  <1>4. m \in [Flows(pq) \cup {f} -> Seq(P)]
    BY <1>1, <1>3
  <1>5. /\ Flows(pq) \cup {f} \in SUBSET F /\ pq.pull_count + 1 \in Int
    BY <1>1
  <1>6. q \in Fair(F, P) /\ Flows(q) = Flows(pq) \cup {f}
    <2> DEFINE D == Flows(pq) \cup {f}  c == pq.current  k == pq.pull_count + 1
    <2>1. m \in [D -> Seq(P)] /\ D \subseteq F /\ c \in F \cup {End} /\ k \in Int
      BY <1>1, <1>4, <1>5
    <2>2. q = [map |-> m, current |-> c, pull_count |-> k]
      BY <1>2
    <2>3. D = Flows(pq) \cup {f}
      OBVIOUS
    <2> HIDE DEF q, m, D, c, k
    <2>4. m \in UNION {[E -> Seq(P)] : E \in SUBSET F}
      BY <2>1
    <2>5. QED
      BY <2>1, <2>2, <2>3, <2>4 DEF Fair, Flows
  <1>7. /\ q.map[f] = new
        /\ \A g \in Flows(pq) \ {f} : q.map[g] = pq.map[g]
        /\ q.current = pq.current /\ q.pull_count = pq.pull_count + 1
    <2> HIDE DEF q
    <2> QED BY <1>2
  <1> HIDE DEF q, m
  <1>8. Backlogged(q) = Backlogged(pq) \cup {f}
    BY <1>3, <1>6, <1>7 DEF Backlogged
  <1>9. Places(q) = Places(pq) \cup {<<f, n + 1>>} /\ <<f, n + 1>> \notin Places(pq)
    <2>1. \A g, i : <<g, i>> \in Places(q) <=> <<g, i>> \in Places(pq) \/ <<g, i>> = <<f, n + 1>>
      <3> SUFFICES ASSUME NEW g, NEW i
                   PROVE  <<g, i>> \in Places(q) <=>
                             <<g, i>> \in Places(pq) \/ (g = f /\ i = n + 1)
        OBVIOUS
      <3>1. /\ <<g, i>> \in Places(q) <=> g \in Flows(q) /\ i \in 1 .. Len(q.map[g])
            /\ <<g, i>> \in Places(pq) <=> g \in Flows(pq) /\ i \in 1 .. Len(pq.map[g])
        BY <1>1, <1>6, PlacesFacts
      <3>2. CASE g # f
        BY <1>6, <1>7, <3>1, <3>2
      <3>3. CASE g = f
        <4>1. f \in Flows(pq) => n = Len(pq.map[f])
          BY DEF n
        <4>2. f \notin Flows(pq) => n = 0
          BY DEF n
        <4>3. 1 .. n + 1 = (1 .. n) \cup {n + 1}
          BY <1>3
        <4>4. 1 .. Len(q.map[f]) = 1 .. n + 1
          BY <1>3, <1>7
        <4>5. QED
          BY <1>6, <3>1, <3>3, <4>1, <4>2, <4>3, <4>4
      <3>4. QED
        BY <3>2, <3>3
    <2>2. /\ \A x \in Places(q) : \E g, i : x = <<g, i>>
          /\ \A x \in Places(pq) : \E g, i : x = <<g, i>>
      BY DEF Places
    <2>3. <<f, n + 1>> \notin Places(pq)
      <3>1. <<f, n + 1>> \in Places(pq) => f \in Flows(pq) /\ n + 1 \in 1 .. Len(pq.map[f])
        BY <1>1, PlacesFacts
      <3>2. f \in Flows(pq) => n = Len(pq.map[f])
        BY DEF n
      <3>3. QED
        BY <1>3, <3>1, <3>2
    <2>4. QED
      BY <2>1, <2>2, <2>3
  <1>10. /\ IsFiniteSet(Places(q)) /\ q.pull_count = Cardinality(Places(q))
    <2> DEFINE S == Places(pq)  x == <<f, n + 1>>
    <2>1. IsFiniteSet(S) /\ pq.pull_count = Cardinality(S)
      BY DEF WellFormed
    <2>2. Places(q) = S \cup {x} /\ x \notin S
      BY <1>9
    <2> HIDE DEF S, x
    <2>3. IsFiniteSet(S \cup {x}) /\ Cardinality(S \cup {x}) = Cardinality(S) + 1
      BY <2>1, <2>2, FS_AddElement
    <2>4. QED
      BY <1>7, <2>1, <2>2, <2>3
  <1>11. q.current \in Flows(q) \cup {End}
    BY <1>6, <1>7 DEF WellFormed
  <1>12. WellFormed(q, F, P)
    BY <1>6, <1>10, <1>11 DEF WellFormed
  <1>13. QED
    BY <1>6, <1>7, <1>8, <1>12 DEF q, new, fifo

(* Where the iterator goes: the next flow of the map, or past the end. *)
LEMMA AfterFacts ==
  ASSUME NEW F \in SUBSET (Nat \ {0}), NEW P, NEW pq \in Fair(F, P), NEW f \in F
  PROVE  \/ /\ After(pq, f) = End
            /\ \A g \in Flows(pq) : g <= f
         \/ /\ After(pq, f) \in Flows(pq) /\ After(pq, f) > f
            /\ \A g \in Flows(pq) : g > f => g >= After(pq, f)
  <1> DEFINE later == {g \in Flows(pq) : g > f}
  <1>1. Flows(pq) \subseteq Nat /\ f \in Nat
    BY FairTyping
  <1>2. CASE later = {}
    BY <1>1, <1>2 DEF After
  <1>3. CASE later # {}
    <2>1. After(pq, f) = Min(later)
      BY <1>3 DEF After
    <2>2. later \in SUBSET Nat
      BY <1>1
    <2> HIDE DEF later
    <2>3. Min(later) \in later /\ \A g \in later : Min(later) <= g
      BY <1>3, <2>2, MinFacts
    <2> USE DEF later
    <2>4. QED
      BY <1>1, <2>1, <2>3
  <1>4. QED
    BY <1>2, <1>3

(* Whose turn it is: the first flow with a packet, from the iterator on. *)
LEMMA TurnFacts ==
  ASSUME NEW F \in SUBSET (Nat \ {0}), NEW P, NEW pq \in Fair(F, P), Backlogged(pq) # {}
  PROVE  /\ Turn(pq) \in Backlogged(pq)
         /\ \A g \in Backlogged(pq) \ {Turn(pq)} : Before(pq.current, Turn(pq), g)
  <1> DEFINE ahead == IF pq.current = End THEN {}
                      ELSE {f \in Backlogged(pq) : f >= pq.current}
  <1>1. /\ Backlogged(pq) \in SUBSET Nat /\ pq.current \in Nat
        /\ \A g \in Backlogged(pq) : g > 0
    BY FairTyping DEF Backlogged, End
  <1>2. CASE ahead # {}
    <2>1. Turn(pq) = Min(ahead)
      BY <1>2 DEF Turn
    <2>2. ahead \in SUBSET Nat /\ pq.current # End
      BY <1>1, <1>2
    <2>3. ahead = {f \in Backlogged(pq) : f >= pq.current}
      BY <2>2
    <2> HIDE DEF ahead
    <2>4. Min(ahead) \in ahead /\ \A g \in ahead : Min(ahead) <= g
      BY <1>2, <2>2, MinFacts
    <2>5. Turn(pq) \in Backlogged(pq) /\ Turn(pq) >= pq.current
      BY <2>1, <2>3, <2>4
    <2>6. ASSUME NEW g \in Backlogged(pq) \ {Turn(pq)}
          PROVE  Before(pq.current, Turn(pq), g)
      <3>1. g >= pq.current => Turn(pq) <= g
        BY <2>1, <2>3, <2>4
      <3>2. Turn(pq) \in Nat /\ g \in Nat /\ g # Turn(pq)
        BY <1>1, <2>5
      <3>3. QED
        BY <1>1, <2>5, <3>1, <3>2 DEF Before
    <2>7. QED
      BY <2>5, <2>6
  <1>3. CASE ahead = {}
    <2>1. Turn(pq) = Min(Backlogged(pq))
      BY <1>3 DEF Turn
    <2>2. /\ Min(Backlogged(pq)) \in Backlogged(pq)
          /\ \A g \in Backlogged(pq) : Min(Backlogged(pq)) <= g
      BY <1>1, MinFacts
    <2>3. \A g \in Backlogged(pq) : pq.current = End \/ g < pq.current
      BY <1>1, <1>3
    <2>4. ASSUME NEW g \in Backlogged(pq) \ {Turn(pq)}
          PROVE  Before(pq.current, Turn(pq), g)
      <3>1. Turn(pq) \in Nat /\ g \in Nat /\ Turn(pq) < g
        BY <1>1, <2>1, <2>2
      <3>2. QED
        BY <1>1, <2>3, <3>1 DEF Before, End
    <2>5. QED
      BY <2>1, <2>2, <2>4
  <1>4. QED
    BY <1>2, <1>3

LEMMA DequeueFacts ==
  ASSUME NEW F \in SUBSET (Nat \ {0}), NEW P, NEW pq, WellFormed(pq, F, P),
         Backlogged(pq) # {}
  PROVE  /\ WellFormed(Dequeue(pq), F, P)
         /\ Dequeue(pq).current = After(pq, Turn(pq))
         /\ Dequeue(pq).pull_count = pq.pull_count - 1
         /\ Flows(Dequeue(pq)) = Flows(pq)
         /\ Backlogged(Dequeue(pq)) \subseteq Backlogged(pq)
         /\ Backlogged(pq) \ {Turn(pq)} \subseteq Backlogged(Dequeue(pq))
         /\ Dequeue(pq).map[Turn(pq)] = Tail(pq.map[Turn(pq)])
         /\ \A g \in Flows(pq) \ {Turn(pq)} : Dequeue(pq).map[g] = pq.map[g]
         /\ Served(pq) \in P
  <1> DEFINE q == Dequeue(pq)
             t == Turn(pq)
             n == Len(pq.map[t])
             m == [pq.map EXCEPT ![t] = Tail(pq.map[t])]
             c == After(pq, t)
             k == pq.pull_count - 1
  <1>1. /\ pq \in Fair(F, P) /\ Flows(pq) \subseteq F /\ pq.map \in [Flows(pq) -> Seq(P)]
        /\ pq.pull_count \in Int
        /\ \A g \in Flows(pq) : /\ pq.map[g] \in Seq(P) /\ Len(pq.map[g]) \in Nat
                                /\ pq.map[g] # <<>> <=> Len(pq.map[g]) > 0
    BY FairTyping DEF WellFormed
  <1>2. t \in Backlogged(pq) /\ t \in Flows(pq) /\ t \in F /\ pq.map[t] # <<>>
    BY <1>1, TurnFacts DEF Backlogged
  <1>3. q = [map |-> m, current |-> c, pull_count |-> k]
    BY DEF Dequeue
  <1>4. c \in Flows(pq) \cup {End}
    BY <1>1, <1>2, AfterFacts
  <1> HIDE DEF t
  <1>5. /\ Tail(pq.map[t]) \in Seq(P) /\ Len(Tail(pq.map[t])) = n - 1 /\ n \in Nat /\ n > 0
        /\ Head(pq.map[t]) \in P
    BY <1>1, <1>2, HeadTailProperties
  <1>6. m \in [Flows(pq) -> Seq(P)]
    BY <1>1, <1>2, <1>5
  <1>7. /\ m[t] = Tail(pq.map[t]) /\ \A g \in Flows(pq) \ {t} : m[g] = pq.map[g]
    BY <1>1, <1>2
  <1> HIDE DEF q, m, c, k
  <1>8. q \in Fair(F, P) /\ Flows(q) = Flows(pq)
    <2> DEFINE D == Flows(pq)
    <2>1. m \in [D -> Seq(P)] /\ D \subseteq F /\ c \in F \cup {End} /\ k \in Int
      BY <1>1, <1>4, <1>6 DEF k
    <2>2. D = Flows(pq)
      OBVIOUS
    <2> HIDE DEF D
    <2>3. m \in UNION {[E -> Seq(P)] : E \in SUBSET F}
      BY <2>1
    <2>4. QED
      BY <1>3, <2>1, <2>2, <2>3 DEF Fair, Flows
  <1>9. /\ q.map = m /\ q.current = c /\ q.pull_count = k
    BY <1>3
  <1>10. Backlogged(q) \subseteq Backlogged(pq) /\ Backlogged(pq) \ {t} \subseteq Backlogged(q)
    BY <1>2, <1>7, <1>8, <1>9 DEF Backlogged
  <1>11. Places(q) = Places(pq) \ {<<t, n>>} /\ <<t, n>> \in Places(pq)
    <2>1. \A g, i : <<g, i>> \in Places(q) <=> <<g, i>> \in Places(pq) /\ <<g, i>> # <<t, n>>
      <3> SUFFICES ASSUME NEW g, NEW i
                   PROVE  <<g, i>> \in Places(q) <=>
                             <<g, i>> \in Places(pq) /\ ~(g = t /\ i = n)
        OBVIOUS
      <3>1. /\ <<g, i>> \in Places(q) <=> g \in Flows(q) /\ i \in 1 .. Len(q.map[g])
            /\ <<g, i>> \in Places(pq) <=> g \in Flows(pq) /\ i \in 1 .. Len(pq.map[g])
        BY <1>1, <1>8, PlacesFacts
      <3>2. CASE g # t
        BY <1>7, <1>8, <1>9, <3>1, <3>2
      <3>3. CASE g = t
        <4>1. 1 .. n - 1 = (1 .. n) \ {n}
          BY <1>5
        <4>2. Len(q.map[t]) = n - 1
          BY <1>5, <1>7, <1>9
        <4>3. QED
          BY <1>2, <1>8, <3>1, <3>3, <4>1, <4>2
      <3>4. QED
        BY <3>2, <3>3
    <2>2. /\ \A x \in Places(q) : \E g, i : x = <<g, i>>
          /\ \A x \in Places(pq) : \E g, i : x = <<g, i>>
      BY DEF Places
    <2>3. <<t, n>> \in Places(pq)
      BY <1>1, <1>2, <1>5, PlacesFacts
    <2>4. QED
      BY <2>1, <2>2, <2>3
  <1>12. /\ IsFiniteSet(Places(q)) /\ q.pull_count = Cardinality(Places(q))
    <2> DEFINE S == Places(pq)  x == <<t, n>>
    <2>1. IsFiniteSet(S) /\ pq.pull_count = Cardinality(S)
      BY DEF WellFormed
    <2>2. Places(q) = S \ {x} /\ x \in S
      BY <1>11
    <2> HIDE DEF S, x
    <2>3. IsFiniteSet(S \ {x}) /\ Cardinality(S \ {x}) = Cardinality(S) - 1
      BY <2>1, <2>2, FS_RemoveElement
    <2>4. QED
      BY <1>9, <2>1, <2>2, <2>3 DEF k
  <1>13. WellFormed(q, F, P)
    BY <1>4, <1>8, <1>9, <1>12 DEF WellFormed
  <1>14. QED
    BY <1>5, <1>7, <1>8, <1>9, <1>10, <1>13 DEF q, t, c, k, Served

(* A flush takes the flow's FIFO and its packets, and no iterator dangles. *)
LEMMA FlushFacts ==
  ASSUME NEW F \in SUBSET (Nat \ {0}), NEW P, NEW pq, WellFormed(pq, F, P), NEW f \in F
  PROVE  /\ WellFormed(FlushFlow(pq, f), F, P)
         /\ Flows(FlushFlow(pq, f)) = Flows(pq) \ {f}
         /\ Backlogged(FlushFlow(pq, f)) = Backlogged(pq) \ {f}
         /\ \A g \in Flows(pq) \ {f} : FlushFlow(pq, f).map[g] = pq.map[g]
         /\ FlushFlow(pq, f).current = IF pq.current = f THEN After(pq, f) ELSE pq.current
  <1> DEFINE q == FlushFlow(pq, f)
             D == Flows(pq) \ {f}
             m == [g \in Flows(pq) \ {f} |-> pq.map[g]]
             c == IF pq.current = f THEN After(pq, f) ELSE pq.current
             k == pq.pull_count - Len(pq.map[f])
             gone == {f} \X (1 .. Len(pq.map[f]))
  <1>1. /\ pq \in Fair(F, P) /\ Flows(pq) \subseteq F /\ pq.map \in [Flows(pq) -> Seq(P)]
        /\ pq.pull_count \in Int
        /\ \A g \in Flows(pq) : pq.map[g] \in Seq(P) /\ Len(pq.map[g]) \in Nat
        /\ pq.current \in Flows(pq) \cup {End}
    BY FairTyping DEF WellFormed
  <1>2. CASE f \notin Flows(pq)
    <2>1. q = pq /\ pq.current # f
      BY <1>1, <1>2 DEF FlushFlow, End
    <2>2. QED
      BY <1>2, <2>1 DEF Backlogged
  <1>3. CASE f \in Flows(pq)
    <2>1. q = [map |-> m, current |-> c, pull_count |-> k]
      BY <1>3 DEF FlushFlow
    <2>2. c \in D \cup {End}
      <3>1. /\ f \in Nat \ {0}
            /\ \/ After(pq, f) = End
               \/ After(pq, f) \in Flows(pq) /\ After(pq, f) > f
        BY <1>1, AfterFacts
      <3>2. QED
        BY <1>1, <3>1
    <2>3. m \in [D -> Seq(P)] /\ D \subseteq F /\ c \in F \cup {End} /\ k \in Int
      BY <1>1, <1>3, <2>2
    <2>4. \A g \in D : m[g] = pq.map[g]
      OBVIOUS
    <2>5. D = Flows(pq) \ {f}
      OBVIOUS
    <2> HIDE DEF q, D, m, c, k
    <2>6. q \in Fair(F, P) /\ Flows(q) = D
      <3>1. m \in UNION {[E -> Seq(P)] : E \in SUBSET F}
        BY <2>3
      <3>2. QED
        BY <2>1, <2>3, <3>1 DEF Fair, Flows
    <2>7. q.map = m /\ q.current = c /\ q.pull_count = k
      BY <2>1
    <2>8. Backlogged(q) = Backlogged(pq) \ {f}
      BY <2>4, <2>5, <2>6, <2>7 DEF Backlogged
    <2>9. \A g, i : /\ <<g, i>> \in Places(q) <=> g \in D /\ i \in 1 .. Len(pq.map[g])
                    /\ <<g, i>> \in Places(pq) <=> g \in Flows(pq) /\ i \in 1 .. Len(pq.map[g])
      BY <1>1, <2>4, <2>6, <2>7, PlacesFacts
    <2>10. /\ \A x \in Places(q) : \E g, i : x = <<g, i>>
           /\ \A x \in Places(pq) : \E g, i : x = <<g, i>>
      BY DEF Places
    <2>11. /\ \A x \in gone : \E i : x = <<f, i>> /\ i \in 1 .. Len(pq.map[f])
           /\ \A g, i : <<g, i>> \in gone <=> g = f /\ i \in 1 .. Len(pq.map[f])
      OBVIOUS
    <2> HIDE DEF gone
    <2>12. Places(q) = Places(pq) \ gone
      BY <2>5, <2>9, <2>10, <2>11
    <2>13. gone = Places(pq) \cap gone
      BY <1>3, <2>9, <2>11
    <2>14. Cardinality(gone) = Len(pq.map[f])
      <3> DEFINE b == [i \in 1 .. Len(pq.map[f]) |-> <<f, i>>]
      <3>1. b \in Bijection(1 .. Len(pq.map[f]), gone)
        BY <2>11 DEF Bijection, Injection, Surjection, IsInjective
      <3>2. Len(pq.map[f]) \in Nat
        BY <1>1, <1>3
      <3>3. QED
        BY <3>1, <3>2, FS_CountingElements DEF ExistsBijection
    <2>15. IsFiniteSet(Places(q)) /\ q.pull_count = Cardinality(Places(q))
      <3> DEFINE S == Places(pq)
      <3>1. IsFiniteSet(S) /\ pq.pull_count = Cardinality(S)
        BY DEF WellFormed
      <3>2. Places(q) = S \ gone /\ S \cap gone = gone
        BY <2>12, <2>13
      <3> HIDE DEF S
      <3>3. /\ IsFiniteSet(S \ gone)
            /\ Cardinality(S \ gone) = Cardinality(S) - Cardinality(S \cap gone)
        BY <3>1, FS_Difference
      <3>4. IsFiniteSet(S \ gone) /\ Cardinality(S \ gone) = Cardinality(S) - Cardinality(gone)
        BY <3>2, <3>3, Zenon
      <3>5. QED
        BY <2>7, <2>14, <3>1, <3>2, <3>4 DEF k
    <2>16. WellFormed(q, F, P)
      BY <2>2, <2>6, <2>7, <2>15 DEF WellFormed
    <2>17. QED
      BY <1>3, <2>4, <2>5, <2>6, <2>7, <2>8, <2>16 DEF q, c
  <1>4. QED
    BY <1>2, <1>3

(***************************************************************************)
(* The specification of the queue.                                         *)
(***************************************************************************)
(* A flow that does not wait starts again with nobody ahead of it. *)
Quiet == \A g \in FlowIds : ~Waits(g) => passed[g] = {}

(* Who was served while g waits has its next turn behind g: the iterator   *)
(* reaches g first.                                                        *)
Behind == \A g \in Backlogged(fq) : \A f \in passed[g] : Before(fq.current, g, f)

IInv == WellFormed(fq, FlowIds, FlowIds) /\ TypeOK /\ Quiet /\ Behind
-----------------------------------------------------------------------------
LEMMA FlowsFacts == FlowIds \in SUBSET (Nat \ {0}) /\ \A f \in FlowIds : f \in Nat /\ f > 0
  BY FlowAssumption

(* The parts of the invariant, as every step uses them. *)
LEMMA Parts ==
  ASSUME IInv
  PROVE  /\ fq \in Fair(FlowIds, FlowIds) /\ Flows(fq) \subseteq FlowIds
         /\ Backlogged(fq) \subseteq Flows(fq)
         /\ \A f \in Flows(fq) : fq.map[f] \in Seq({f})
         /\ fq.current \in Nat
         /\ passed \in [FlowIds -> SUBSET FlowIds]
  <1>1. /\ fq \in Fair(FlowIds, FlowIds) /\ Flows(fq) \subseteq FlowIds
        /\ \A f \in Flows(fq) : fq.map[f] \in Seq({f})
        /\ fq.current \in Flows(fq) \cup {End} /\ passed \in [FlowIds -> SUBSET FlowIds]
    BY DEF IInv, WellFormed, TypeOK
  <1>2. fq.current \in Nat
    BY <1>1, FlowsFacts DEF End
  <1>3. QED
    BY <1>1, <1>2 DEF Backlogged

LEMMA InitIInv ==
  ASSUME Init
  PROVE  IInv
  <1>1. /\ WellFormed(fq, FlowIds, FlowIds) /\ Flows(fq) = {} /\ Backlogged(fq) = {}
        /\ fq.current = End
    BY EmptyFairFacts DEF Init, EmptyFair
  <1>2. passed = [g \in FlowIds |-> {}]
    BY DEF Init
  <1>3. QED
    BY <1>1, <1>2 DEF IInv, TypeOK, Quiet, Behind, Waits

LEMMA PutStep ==
  ASSUME IInv, NEW f \in FlowIds, Put(f)
  PROVE  IInv'
  <1>1. /\ WellFormed(fq', FlowIds, FlowIds) /\ fq'.current = fq.current
        /\ Flows(fq') = Flows(fq) \cup {f} /\ Backlogged(fq') = Backlogged(fq) \cup {f}
        /\ fq'.map[f] = Append(IF f \in Flows(fq) THEN fq.map[f] ELSE <<>>, f)
        /\ \A g \in Flows(fq) \ {f} : fq'.map[g] = fq.map[g]
        /\ passed' = passed
    <2>1. WellFormed(fq, FlowIds, FlowIds) /\ fq' = Enqueue(fq, f, f) /\ passed' = passed
      BY DEF IInv, Put
    <2>2. QED
      BY <2>1, EnqueueFacts
  <1>2. /\ Flows(fq) \subseteq FlowIds /\ \A g \in Flows(fq) : fq.map[g] \in Seq({g})
        /\ passed \in [FlowIds -> SUBSET FlowIds]
        /\ fq.current \in Flows(fq) \cup {End}
    BY Parts DEF IInv, TypeOK
  <1>3. fq'.map[f] \in Seq({f})
    <2> DEFINE fifo == IF f \in Flows(fq) THEN fq.map[f] ELSE <<>>
    <2>1. fifo \in Seq({f})
      BY <1>2, EmptySeq
    <2> HIDE DEF fifo
    <2>2. Append(fifo, f) \in Seq({f})
      BY <2>1, AppendProperties
    <2>3. QED
      BY <1>1, <2>2 DEF fifo
  <1>4. TypeOK'
    BY <1>1, <1>2, <1>3 DEF TypeOK
  <1>5. f \notin Backlogged(fq) => passed[f] = {}
    BY DEF IInv, Quiet, Waits
  <1>6. Quiet'
    BY <1>1 DEF IInv, Quiet, Waits
  <1>7. Behind'
    BY <1>1, <1>5 DEF IInv, Behind
  <1>8. QED
    BY <1>1, <1>4, <1>6, <1>7 DEF IInv

(* Whose turn it is has not been served since any other waiting flow was. *)
LEMMA TurnIsNew ==
  ASSUME IInv, Backlogged(fq) # {}
  PROVE  /\ Turn(fq) \in Backlogged(fq) /\ Turn(fq) \in FlowIds
         /\ \A g \in Backlogged(fq) \ {Turn(fq)} :
               Before(fq.current, Turn(fq), g) /\ Turn(fq) \notin passed[g]
  <1>1. /\ Turn(fq) \in Backlogged(fq)
        /\ \A g \in Backlogged(fq) \ {Turn(fq)} : Before(fq.current, Turn(fq), g)
    BY FlowsFacts, Parts, TurnFacts
  <1>2. ASSUME NEW g \in Backlogged(fq) \ {Turn(fq)}, Turn(fq) \in passed[g]
        PROVE  FALSE
    <2>1. Before(fq.current, Turn(fq), g) /\ Before(fq.current, g, Turn(fq))
      BY <1>1, <1>2 DEF IInv, Behind
    <2>2. fq.current \in Nat /\ g \in Nat /\ Turn(fq) \in Nat
      BY <1>1, FlowsFacts, Parts
    <2>3. QED
      BY <2>1, <2>2 DEF Before
  <1>3. QED
    BY <1>1, <1>2, Parts

(* The iterator moves from c past t, to the flow after it: a flow g that   *)
(* waits behind t is reached before everyone it was reached before.        *)
LEMMA MovesOn ==
  ASSUME NEW c \in Nat, NEW d \in Nat, NEW t \in Nat, NEW g \in Nat, NEW f \in Nat,
         g # t, g > 0, Before(c, t, g), f = t \/ Before(c, g, f),
         \/ d = End /\ g <= t
         \/ d > t /\ (g > t => g >= d)
  PROVE  Before(d, g, f)
  BY DEF Before, End

LEMMA TakeStep ==
  ASSUME IInv, Take
  PROVE  IInv'
  <1> DEFINE t == Turn(fq)
  <1>1. WellFormed(fq, FlowIds, FlowIds) /\ Backlogged(fq) # {}
    BY CountedIsBacklogged DEF IInv, Take
  <1>2. /\ WellFormed(fq', FlowIds, FlowIds) /\ fq'.current = After(fq, t)
        /\ Flows(fq') = Flows(fq) /\ Backlogged(fq') \subseteq Backlogged(fq)
        /\ Backlogged(fq) \ {t} \subseteq Backlogged(fq')
        /\ fq'.map[t] = Tail(fq.map[t])
        /\ \A g \in Flows(fq) \ {t} : fq'.map[g] = fq.map[g]
    BY <1>1, FlowsFacts, DequeueFacts DEF Take
  <1>3. passed' = [g \in FlowIds |->
                     IF g = t \/ g \notin Backlogged(fq) THEN {} ELSE passed[g] \cup {t}]
    BY DEF Take, Waits
  <1>4. /\ t \in Backlogged(fq) /\ t \in FlowIds
        /\ \A g \in Backlogged(fq) \ {t} : Before(fq.current, t, g)
    BY <1>1, TurnIsNew
  <1>5. /\ fq \in Fair(FlowIds, FlowIds)
        /\ Flows(fq) \subseteq FlowIds /\ Backlogged(fq) \subseteq Flows(fq)
        /\ \A f \in Flows(fq) : fq.map[f] \in Seq({f})
        /\ fq.current \in Nat /\ passed \in [FlowIds -> SUBSET FlowIds]
    BY Parts
  <1> HIDE DEF t
  <1>6. TypeOK'
    <2>1. fq'.map[t] \in Seq({t})
      <3>1. fq.map[t] \in Seq({t}) /\ fq.map[t] # <<>>
        BY <1>4, <1>5 DEF Backlogged
      <3>2. QED
        BY <1>2, <3>1, HeadTailProperties
    <2>2. \A f \in Flows(fq') : fq'.map[f] \in Seq({f})
      BY <1>2, <1>5, <2>1
    <2>3. passed' \in [FlowIds -> SUBSET FlowIds]
      BY <1>3, <1>4, <1>5
    <2>4. QED
      BY <1>2, <1>5, <2>2, <2>3 DEF TypeOK, WellFormed
  <1>7. Quiet'
    BY <1>2, <1>3, <1>4 DEF Quiet, Waits
  <1>8. Behind'
    <2> SUFFICES ASSUME NEW g \in Backlogged(fq'), NEW f \in passed'[g]
                 PROVE  Before(fq'.current, g, f)
      BY DEF Behind
    <2>1. g \in Backlogged(fq) /\ g \in FlowIds /\ g \in Flows(fq)
      BY <1>2, <1>5
    <2>2. g # t /\ (f = t \/ f \in passed[g])
      BY <1>3, <2>1
    <2>3. f = t \/ Before(fq.current, g, f)
      BY <2>1, <2>2 DEF IInv, Behind
    <2>4. Before(fq.current, t, g)
      BY <1>4, <2>1, <2>2
    <2>5. /\ g \in Nat /\ g > 0 /\ t \in Nat /\ f \in Nat
      BY <1>4, <1>5, <2>1, <2>2, FlowsFacts
    <2>6. \/ fq'.current = End /\ g <= t
          \/ fq'.current \in FlowIds /\ fq'.current > t /\ (g > t => g >= fq'.current)
      BY <1>2, <1>4, <1>5, <2>1, AfterFacts, FlowsFacts
    <2>7. fq'.current \in Nat
      <3>1. fq'.current \in FlowIds \cup {End}
        BY <1>2, <1>5 DEF WellFormed
      <3>2. \A c \in FlowIds \cup {End} : c \in Nat
        BY FlowsFacts DEF End
      <3>3. QED
        BY <3>1, <3>2
    <2>8. QED
      BY <1>5, <2>2, <2>3, <2>4, <2>5, <2>6, <2>7, MovesOn
  <1>9. QED
    BY <1>2, <1>6, <1>7, <1>8 DEF IInv

(* The iterator steps off a flow that goes: nobody is overtaken. *)
LEMMA StepsOff ==
  ASSUME NEW c \in Nat, NEW d \in Nat, NEW g \in Nat, NEW f \in Nat,
         g # c, g > 0, c > 0, Before(c, g, f),
         \/ d = End /\ g <= c
         \/ d > c /\ (g > c => g >= d)
  PROVE  Before(d, g, f)
  BY DEF Before, End

LEMMA FlushStep ==
  ASSUME IInv, NEW f \in FlowIds, Flush(f)
  PROVE  IInv'
  <1>1. WellFormed(fq, FlowIds, FlowIds)
    BY DEF IInv
  <1>2. /\ WellFormed(fq', FlowIds, FlowIds)
        /\ Flows(fq') = Flows(fq) \ {f} /\ Backlogged(fq') = Backlogged(fq) \ {f}
        /\ \A g \in Flows(fq) \ {f} : fq'.map[g] = fq.map[g]
        /\ fq'.current = IF fq.current = f THEN After(fq, f) ELSE fq.current
        /\ passed' = [passed EXCEPT ![f] = {}]
    <2>1. fq' = FlushFlow(fq, f) /\ passed' = [passed EXCEPT ![f] = {}]
      BY DEF Flush
    <2>2. QED
      <3>1. FlowIds \in SUBSET (Nat \ {0})
        BY FlowsFacts
      <3>2. WellFormed(FlushFlow(fq, f), FlowIds, FlowIds)
        BY <1>1, <3>1, FlushFacts
      <3>3. Flows(FlushFlow(fq, f)) = Flows(fq) \ {f} 
        BY <1>1, <3>1, FlushFacts
      <3>4. Backlogged(FlushFlow(fq, f)) = Backlogged(fq) \ {f}
        BY <1>1, <3>1, FlushFacts
      <3>5. \A g \in Flows(fq) \ {f} : FlushFlow(fq, f).map[g] = fq.map[g]
        BY <1>1, <3>1, FlushFacts
      <3>6. FlushFlow(fq, f).current = IF fq.current = f THEN After(fq, f) ELSE fq.current
        BY <1>1, <3>1, FlushFacts
      <3>7. QED
        BY <2>1, <3>2, <3>3, <3>4, <3>5, <3>6
  <1>3. /\ fq \in Fair(FlowIds, FlowIds)
        /\ Flows(fq) \subseteq FlowIds /\ Backlogged(fq) \subseteq Flows(fq)
        /\ \A g \in Flows(fq) : fq.map[g] \in Seq({g})
        /\ fq.current \in Nat /\ passed \in [FlowIds -> SUBSET FlowIds]
    BY Parts
  <1>4. TypeOK'
    BY <1>2, <1>3 DEF TypeOK, WellFormed
  <1>5. Quiet'
    BY <1>2, <1>3 DEF IInv, Quiet, Waits
  <1>6. Behind'
    <2> SUFFICES ASSUME NEW g \in Backlogged(fq'), NEW h \in passed'[g]
                 PROVE  Before(fq'.current, g, h)
      BY DEF Behind
    <2>1. /\ g \in Backlogged(fq) /\ g \in FlowIds /\ g \in Flows(fq) /\ g # f
          /\ h \in passed[g] /\ h \in FlowIds
      BY <1>2, <1>3
    <2>2. Before(fq.current, g, h)
      BY <2>1 DEF IInv, Behind
    <2>3. CASE fq.current = f
      <3>1. fq'.current = After(fq, f)
        BY <1>2, <2>3
      <3>2. \/ fq'.current = End /\ g <= f
            \/ fq'.current \in FlowIds /\ fq'.current > f /\ (g > f => g >= fq'.current)
        BY <1>3, <2>1, <3>1, AfterFacts, FlowsFacts
      <3>3. /\ fq'.current \in Nat /\ f \in Nat /\ f > 0 /\ g \in Nat /\ g > 0 /\ h \in Nat
        BY <2>1, <3>2, FlowsFacts DEF End
      <3>4. QED
        BY <2>1, <2>2, <2>3, <3>2, <3>3, StepsOff
    <2>4. CASE fq.current # f
      BY <1>2, <2>2, <2>4
    <2>5. QED
      BY <2>3, <2>4
  <1>7. QED
    BY <1>2, <1>4, <1>5, <1>6 DEF IInv

LEMMA NextIInv ==
  ASSUME IInv, [Next]_vars
  PROVE  IInv'
  <1>1. CASE Take
    BY <1>1, TakeStep
  <1>2. ASSUME NEW f \in FlowIds, Put(f)
        PROVE  IInv'
    BY <1>2, PutStep
  <1>3. ASSUME NEW f \in FlowIds, Flush(f)
        PROVE  IInv'
    BY <1>3, FlushStep
  <1>4. CASE UNCHANGED vars
    BY <1>4 DEF vars, IInv, TypeOK, Quiet, Behind, Waits
  <1>5. QED
    BY <1>1, <1>2, <1>3, <1>4 DEF Next

LEMMA Inductive == Spec => []IInv
  BY InitIInv, NextIInv, PTL DEF Spec

(* Every FIFO holds packets of its flow, and _current_queue is one of the  *)
(* FIFOs or end(): no flush or enqueue leaves it dangling.                 *)
THEOREM TypeCorrect == Spec => []TypeOK
  <1>1. IInv => TypeOK
    BY DEF IInv
  <1>2. QED
    BY <1>1, Inductive, PTL

(* _pull_count is the number of packets queued, so that the while (1) of   *)
(* dequeue finds one.                                                      *)
THEOREM CountIsRight == Spec => []CountMatches
  <1>1. IInv => CountMatches
    BY DEF IInv, WellFormed, CountMatches
  <1>2. QED
    BY <1>1, Inductive, PTL

(* FairPullQueue::dequeue is a round robin: between two turns of a flow    *)
(* every flow that waits has had one.                                      *)
THEOREM ServesInTurn == Spec => RoundRobin
  <1>1. ASSUME IInv, Take, NEW g \in Backlogged(fq) \ {Turn(fq)}
        PROVE  Turn(fq) \notin passed[g]
    BY <1>1, TurnIsNew
  <1>2. IInv /\ [Next]_vars =>
          [Take => \A g \in Backlogged(fq) \ {Turn(fq)} : Turn(fq) \notin passed[g]]_vars
    BY <1>1
  <1>3. QED
    BY <1>2, Inductive, PTL DEF Spec, RoundRobin
=============================================================================
