----------------------------- MODULE EqdsProofs -----------------------------
(***************************************************************************)
(* Three safety properties of EQDS for any number of flows, hosts, sizes,  *)
(* windows and units, any trims and losses in any order: what a source     *)
(* reports finished has been received, sinks and pacer agree on who is to  *)
(* be pulled, and a card calls back whatever waits for it.                 *)
(***************************************************************************)
EXTENDS Eqds, FiniteSetTheorems, SequenceTheorems, WellFoundedInduction, TLAPS

(* The worlds of the sources, the cards, the sinks and the pacers.         *)
Instants == Nat \ {0}
Table(D, R) == UNION {[S -> R] : S \in SUBSET D}

Sources ==
    [state : {"INITIALIZE_CREDIT", "SPECULATING", "COMMITTED", "IDLE"},
     speculating : BOOLEAN, unsent : Nat, creditPull : Int, creditSpec : Int,
     pull : Int, pullTarget : Int, highest : Nat, rts : SUBSET Nat,
     tx : Table(Nat, Instants), times : Table(Instants, Nat), rtx : SUBSET Nat,
     blocked : BOOLEAN, timer : Nat, lastRts : Nat, done : BOOLEAN]

Messages ==
    [kind : {"data", "trimmed", "rts"}, flow : Flow, seq : Nat, target : Int,
     bytes : Int, ar : BOOLEAN]
    \cup [kind : {"ack"}, flow : Flow, cumulative : Nat, sacks : SUBSET Nat]
    \cup [kind : {"nack"}, flow : Flow, seq : Nat]
    \cup [kind : {"pull"}, flow : Flow, no : Int]

Cards == [phase : {"sending", "ending", "idle"}, queue : Seq(Flow),
          control : Seq(Messages), events : Nat, crt : Nat]

Sinks == [expected : Nat, rx : SUBSET Nat, received : Int, accepted : Int,
          ackRequest : BOOLEAN, retx : Nat, latest : Nat, highest : Int,
          inPull : BOOLEAN, inSlow : BOOLEAN]

Pacers == [rtx : Seq(Flow), active : Seq(Flow), idle : Seq(Flow),
           running : BOOLEAN, events : Nat]

Worlds == [src : [Flow -> Sources], nic : [Host -> Cards], sink : [Flow -> Sinks],
           pacer : [Host -> Pacers], net : Table(Messages, Instants),
           now : Instants, ok : BOOLEAN]

(* Sequence numbers given out, and those of them that carry data.          *)
Sent(s) == 0 .. s.highest - 1
DataSent(s) == Sent(s) \ s.rts

(* A source speaks only of what it has sent, sends no more data than it    *)
(* has, and its timer waits for an entry of _send_times (or for the one in *)
(* late, while a handler is about to recalculate it).                      *)
SourceOK(s, late, limit) ==
    /\ s.rts \subseteq Sent(s) /\ s.rtx \subseteq Sent(s)
    /\ DOMAIN s.tx \subseteq Sent(s)
    /\ \A t \in DOMAIN s.times : s.times[t] \in Sent(s)
    /\ IsFiniteSet(DOMAIN s.times)
    /\ s.timer \in DOMAIN s.times \cup {0} \cup late
    /\ Cardinality(DataSent(s)) + s.unsent <= limit

(* What a sink has received was sent, and its bytes are counted, those of  *)
(* RTS packets as none.                                                    *)
Received(k) == 0 .. k.expected - 1 \cup k.rx
SinkOK(s, k) ==
    /\ IsFiniteSet(k.rx) /\ Received(k) \subseteq Sent(s)
    /\ k.received = Mss * Cardinality(Received(k) \ s.rts)

(* A flow that is done has had all its data received.                      *)
DoneOK(s, k, f) == s.done => Cardinality(Received(k) \ s.rts) >= Size[f]

(* What is under way: data and RTS as the source recorded them, and        *)
(* acknowledgements of what has been received.                             *)
PacketOK(w, p) ==
    LET s == w.src[p.flow]
    IN  /\ p.kind \in {"data", "rts"} => p.seq \in Sent(s) /\ p.bytes = PacketSize(s, p.seq)
        /\ p.kind = "ack" => p.cumulative <= w.sink[p.flow].expected
Controls(w) == UNION {Range(w.nic[h].control) : h \in Host}

WorldOK(w, late, begun) ==
    /\ w \in Worlds
    /\ \A f \in Flow :
          /\ SourceOK(w.src[f], late[f], IF f \in begun THEN Size[f] ELSE 0)
          /\ SinkOK(w.src[f], w.sink[f])
          /\ DoneOK(w.src[f], w.sink[f], f)
    /\ \A p \in DOMAIN w.net \cup Controls(w) : PacketOK(w, p)

NoneLate == [f \in Flow |-> {}]

(* The sinks' flags and the pacer's lists.                                 *)
Distinct(s) == \A i, j \in DOMAIN s : s[i] = s[j] => i = j

Tidy(p, h) ==
    /\ Distinct(p.active) /\ Distinct(p.rtx)
    /\ \A f \in Range(p.active) \cup Range(p.rtx) \cup Range(p.idle) : To[f] = h
Agree(k, p, f) ==
    /\ k.inPull <=> f \in Range(p.active)
    /\ k.retx > 0 <=> f \in Range(p.rtx)
Awake(p) == p.events = IF p.running THEN 1 ELSE 0

Listed(snk, pcr) ==
    /\ \A h \in Host : Tidy(pcr[h], h)
    /\ \A f \in Flow : Agree(snk[f], pcr[To[f]], f)
ListsOK(snk, pcr) == Listed(snk, pcr) /\ \A h \in Host : Awake(pcr[h])

IInv == WorldOK(World, NoneLate, started) /\ ListsOK(sink, pacer)
-----------------------------------------------------------------------------
(* A world with one part replaced.                                         *)
WithSource(w, f, s) == [w EXCEPT !.src[f] = s]
WithCard(w, h, n) == [w EXCEPT !.nic[h] = n]
WithSink(w, f, k) == [w EXCEPT !.sink[f] = k]
WithPacer(w, h, p) == [w EXCEPT !.pacer[h] = p]

LEMMA SourceField ==
  ASSUME NEW w \in Worlds, NEW f \in Flow, NEW s
  PROVE  LET v == WithSource(w, f, s) IN
         /\ v.src[f] = s /\ \A g \in Flow : g # f => v.src[g] = w.src[g]
         /\ v.nic = w.nic /\ v.sink = w.sink /\ v.pacer = w.pacer
         /\ v.net = w.net /\ v.now = w.now /\ v.ok = w.ok
         /\ s \in Sources => v \in Worlds
BY DEF WithSource, Worlds

LEMMA CardField ==
  ASSUME NEW w \in Worlds, NEW h \in Host, NEW n
  PROVE  LET v == WithCard(w, h, n) IN
         /\ v.nic[h] = n /\ \A g \in Host : g # h => v.nic[g] = w.nic[g]
         /\ v.src = w.src /\ v.sink = w.sink /\ v.pacer = w.pacer
         /\ v.net = w.net /\ v.now = w.now /\ v.ok = w.ok
         /\ n \in Cards => v \in Worlds
BY DEF WithCard, Worlds

LEMMA SinkField ==
  ASSUME NEW w \in Worlds, NEW f \in Flow, NEW k
  PROVE  LET v == WithSink(w, f, k) IN
         /\ v.sink[f] = k /\ \A g \in Flow : g # f => v.sink[g] = w.sink[g]
         /\ v.src = w.src /\ v.nic = w.nic /\ v.pacer = w.pacer
         /\ v.net = w.net /\ v.now = w.now /\ v.ok = w.ok
         /\ k \in Sinks => v \in Worlds
BY DEF WithSink, Worlds

LEMMA PacerField ==
  ASSUME NEW w \in Worlds, NEW h \in Host, NEW p
  PROVE  LET v == WithPacer(w, h, p) IN
         /\ v.pacer[h] = p /\ \A g \in Host : g # h => v.pacer[g] = w.pacer[g]
         /\ v.src = w.src /\ v.nic = w.nic /\ v.sink = w.sink
         /\ v.net = w.net /\ v.now = w.now /\ v.ok = w.ok
         /\ p \in Pacers => v \in Worlds
BY DEF WithPacer, Worlds

LEMMA AssertedField ==
  ASSUME NEW w \in Worlds, NEW claim
  PROVE  LET v == Asserted(w, claim) IN
         /\ v.src = w.src /\ v.nic = w.nic /\ v.sink = w.sink /\ v.pacer = w.pacer
         /\ v.net = w.net /\ v.now = w.now /\ v \in Worlds
BY DEF Asserted, Worlds

(* A finite map, by its keys and values.                                   *)
LEMMA TableEntry ==
  ASSUME NEW D, NEW R, NEW t
  PROVE  /\ t \in Table(D, R) => /\ t \in [DOMAIN t -> R] /\ DOMAIN t \subseteq D
                                 /\ \A x \in DOMAIN t : t[x] \in R
         /\ \A S \in SUBSET D : t \in [S -> R] => t \in Table(D, R)
<1>1. ASSUME t \in Table(D, R)
      PROVE  t \in [DOMAIN t -> R] /\ DOMAIN t \subseteq D /\ \A x \in DOMAIN t : t[x] \in R
  <2>1. PICK S \in SUBSET D : t \in [S -> R]
    BY <1>1 DEF Table
  <2> QED
    BY <2>1
<1>2. ASSUME NEW S \in SUBSET D, t \in [S -> R] PROVE t \in Table(D, R)
  BY <1>2 DEF Table
<1> QED
  BY <1>1, <1>2

LEMMA SendField ==
  ASSUME NEW w \in Worlds, NEW p \in Messages
  PROVE  LET v == SendOn(w, p) IN
         /\ v.src = w.src /\ v.nic = w.nic /\ v.sink = w.sink /\ v.pacer = w.pacer
         /\ v.now = w.now /\ v \in Worlds /\ DOMAIN v.net = DOMAIN w.net \cup {p}
<1> DEFINE B == w.net
<1>1. B \in [DOMAIN B -> Instants] /\ DOMAIN B \subseteq Messages
  BY TableEntry DEF Worlds
<1> HIDE DEF B
<1>2. /\ InFlight!BagAdd(B, p) \in [DOMAIN B \cup {p} -> Instants]
      /\ DOMAIN InFlight!BagAdd(B, p) = DOMAIN B \cup {p}
  BY <1>1 DEF InFlight!BagAdd, Instants
<1>3. InFlight!BagAdd(B, p) \in Table(Messages, Instants)
  BY <1>1, <1>2, TableEntry
<1> QED
  BY <1>2, <1>3 DEF SendOn, Worlds, B

WithNet(w, bag) == [w EXCEPT !.net = bag]

LEMMA TakeField ==
  ASSUME NEW w \in Worlds, NEW p \in Messages
  PROVE  LET v == WithNet(w, InFlight!BagRemove(w.net, p)) IN
         /\ v.src = w.src /\ v.nic = w.nic /\ v.sink = w.sink /\ v.pacer = w.pacer
         /\ v.now = w.now /\ v \in Worlds /\ DOMAIN v.net \subseteq DOMAIN w.net
<1> DEFINE B == w.net
<1>1. B \in [DOMAIN B -> Instants] /\ DOMAIN B \subseteq Messages
  BY TableEntry DEF Worlds
<1> HIDE DEF B
<1>2. \E S \in SUBSET DOMAIN B : InFlight!BagRemove(B, p) \in [S -> Instants]
  <2>1. CASE p \in DOMAIN B /\ B[p] = 1
    <3>1. InFlight!BagRemove(B, p) \in [DOMAIN B \ {p} -> Instants]
      BY <1>1, <2>1 DEF InFlight!BagRemove
    <3> QED
      BY <3>1
  <2>2. CASE p \in DOMAIN B /\ B[p] # 1
    <3>1. InFlight!BagRemove(B, p) \in [DOMAIN B -> Instants]
      BY <1>1, <2>2 DEF InFlight!BagRemove, Instants
    <3> QED
      BY <3>1
  <2>3. CASE p \notin DOMAIN B
    BY <1>1, <2>3 DEF InFlight!BagRemove
  <2> QED
    BY <2>1, <2>2, <2>3
<1>3. InFlight!BagRemove(B, p) \in Table(Messages, Instants)
  BY <1>1, <1>2, TableEntry
<1>4. DOMAIN InFlight!BagRemove(B, p) \subseteq DOMAIN B
  BY <1>2
<1> QED
  BY <1>3, <1>4 DEF WithNet, Worlds, B
-----------------------------------------------------------------------------
(* What each replacement keeps of the invariant.                           *)
LEMMA MessageKinds ==
  ASSUME NEW p \in Messages
  PROVE  /\ p.flow \in Flow
         /\ p.kind \in {"data", "trimmed", "rts", "ack", "nack", "pull"}
         /\ p.kind \in {"data", "trimmed", "rts"} =>
               p \in [kind : {"data", "trimmed", "rts"}, flow : Flow, seq : Nat,
                      target : Int, bytes : Int, ar : BOOLEAN]
         /\ p.kind = "ack" => p.cumulative \in Nat /\ p.sacks \subseteq Nat
         /\ p.kind = "nack" => p.seq \in Nat
         /\ p.kind = "pull" => p.no \in Int
BY DEF Messages

LEMMA PacketTypes ==
  ASSUME NEW w \in Worlds
  PROVE  DOMAIN w.net \cup Controls(w) \subseteq Messages
<1>1. DOMAIN w.net \subseteq Messages
  BY TableEntry DEF Worlds
<1>2. ASSUME NEW h \in Host PROVE Range(w.nic[h].control) \subseteq Messages
  <2>1. w.nic[h].control \in Seq(Messages)
    BY DEF Worlds, Cards
  <2> QED
    BY <2>1, ElementOfSeq, LenProperties DEF Range
<1> QED
  BY <1>1, <1>2 DEF Controls

LEMMA PacketsChange ==
  ASSUME NEW late, NEW begun, NEW w, WorldOK(w, late, begun), NEW v \in Worlds,
         v.src = w.src, v.sink = w.sink,
         \A p \in DOMAIN v.net \cup Controls(v) :
            p \in DOMAIN w.net \cup Controls(w) \/ PacketOK(w, p)
  PROVE  WorldOK(v, late, begun)
BY DEF WorldOK, PacketOK

LEMMA AssertedOK ==
  ASSUME NEW late, NEW begun, NEW w, WorldOK(w, late, begun), NEW claim
  PROVE  WorldOK(Asserted(w, claim), late, begun)
<1> DEFINE v == Asserted(w, claim)
<1>1. w \in Worlds
  BY DEF WorldOK
<1>2. v \in Worlds /\ v.src = w.src /\ v.sink = w.sink /\ v.net = w.net /\ v.nic = w.nic
  BY <1>1, AssertedField
<1> HIDE DEF v
<1>3. \A p \in DOMAIN v.net \cup Controls(v) : p \in DOMAIN w.net \cup Controls(w)
  BY <1>2 DEF Controls
<1>4. WorldOK(v, late, begun)
  BY <1>2, <1>3, PacketsChange
<1> QED
  BY <1>4 DEF v

LEMMA PacerOK ==
  ASSUME NEW late, NEW begun, NEW w, WorldOK(w, late, begun), NEW h \in Host, NEW q \in Pacers
  PROVE  WorldOK(WithPacer(w, h, q), late, begun)
<1> DEFINE v == WithPacer(w, h, q)
<1>1. w \in Worlds
  BY DEF WorldOK
<1>2. v \in Worlds /\ v.src = w.src /\ v.sink = w.sink /\ v.net = w.net /\ v.nic = w.nic
  BY <1>1, PacerField
<1> HIDE DEF v
<1>3. \A p \in DOMAIN v.net \cup Controls(v) : p \in DOMAIN w.net \cup Controls(w)
  BY <1>2 DEF Controls
<1>4. WorldOK(v, late, begun)
  BY <1>2, <1>3, PacketsChange
<1> QED
  BY <1>4 DEF v

LEMMA SendOK ==
  ASSUME NEW late, NEW begun, NEW w, WorldOK(w, late, begun), NEW p \in Messages, PacketOK(w, p)
  PROVE  WorldOK(SendOn(w, p), late, begun)
<1> DEFINE v == SendOn(w, p)
<1>1. w \in Worlds
  BY DEF WorldOK
<1>2. /\ v \in Worlds /\ v.src = w.src /\ v.sink = w.sink /\ v.nic = w.nic
      /\ DOMAIN v.net = DOMAIN w.net \cup {p}
  BY <1>1, SendField
<1> HIDE DEF v
<1>3. \A q \in DOMAIN v.net \cup Controls(v) :
         q \in DOMAIN w.net \cup Controls(w) \/ PacketOK(w, q)
  BY <1>2 DEF Controls
<1>4. WorldOK(v, late, begun)
  BY <1>2, <1>3, PacketsChange
<1> QED
  BY <1>4 DEF v

LEMMA TakeOK ==
  ASSUME NEW late, NEW begun, NEW w, WorldOK(w, late, begun), NEW p \in Messages
  PROVE  WorldOK(WithNet(w, InFlight!BagRemove(w.net, p)), late, begun)
<1> DEFINE v == WithNet(w, InFlight!BagRemove(w.net, p))
<1>1. w \in Worlds
  BY DEF WorldOK
<1>2. /\ v \in Worlds /\ v.src = w.src /\ v.sink = w.sink /\ v.nic = w.nic
      /\ DOMAIN v.net \subseteq DOMAIN w.net
  BY <1>1, TakeField
<1> HIDE DEF v
<1>3. \A q \in DOMAIN v.net \cup Controls(v) : q \in DOMAIN w.net \cup Controls(w)
  BY <1>2 DEF Controls
<1>4. WorldOK(v, late, begun)
  BY <1>2, <1>3, PacketsChange
<1> QED
  BY <1>4 DEF v

LEMMA CardOK ==
  ASSUME NEW late, NEW begun, NEW w, WorldOK(w, late, begun), NEW h \in Host, NEW n \in Cards,
         \A p \in Range(n.control) : p \in Range(w.nic[h].control) \/ PacketOK(w, p)
  PROVE  WorldOK(WithCard(w, h, n), late, begun)
<1> DEFINE v == WithCard(w, h, n)
<1>1. w \in Worlds
  BY DEF WorldOK
<1>2. /\ v \in Worlds /\ v.src = w.src /\ v.sink = w.sink /\ v.net = w.net
      /\ v.nic[h] = n /\ \A g \in Host : g # h => v.nic[g] = w.nic[g]
  BY <1>1, CardField
<1> HIDE DEF v
<1>3. \A q \in DOMAIN v.net \cup Controls(v) :
         q \in DOMAIN w.net \cup Controls(w) \/ PacketOK(w, q)
  BY <1>2 DEF Controls
<1>4. WorldOK(v, late, begun)
  BY <1>2, <1>3, PacketsChange
<1> QED
  BY <1>4 DEF v

(* A source that has sent more, and knows as RTS packets those it did.     *)
Limit(f, begun) == IF f \in begun THEN Size[f] ELSE 0
Grows(s, t) == s.highest <= t.highest /\ t.rts \cap Sent(s) = s.rts

LEMMA SourceChanges ==
  ASSUME NEW late, NEW later, NEW begun, NEW began, NEW w, WorldOK(w, late, begun),
         NEW f \in Flow, NEW s \in Sources,
         Grows(w.src[f], s), SourceOK(s, later[f], Limit(f, began)),
         (s.done => w.src[f].done) \/ DoneOK(s, w.sink[f], f),
         \A g \in Flow : g # f => later[g] = late[g] /\ (g \in began <=> g \in begun)
  PROVE  WorldOK(WithSource(w, f, s), later, began)
<1> DEFINE v == WithSource(w, f, s)
           r == w.src[f]
<1>1. w \in Worlds
  BY DEF WorldOK
<1>2. /\ v \in Worlds /\ v.nic = w.nic /\ v.sink = w.sink /\ v.net = w.net
      /\ v.src[f] = s /\ \A g \in Flow : g # f => v.src[g] = w.src[g]
  BY <1>1, SourceField
<1>3. r.highest \in Nat /\ s.highest \in Nat /\ Sent(r) \subseteq Sent(s)
      /\ r.highest <= s.highest
  BY <1>1 DEF Worlds, Sources, Grows, Sent
<1>4. SinkOK(r, w.sink[f]) /\ DoneOK(r, w.sink[f], f)
  BY DEF WorldOK
<1> HIDE DEF v, r
<1>5. Received(w.sink[f]) \ s.rts = Received(w.sink[f]) \ r.rts
  BY <1>4 DEF Grows, SinkOK, r
<1>6. SinkOK(s, w.sink[f]) /\ DoneOK(s, w.sink[f], f)
  BY <1>3, <1>4, <1>5 DEF SinkOK, DoneOK, r
<1>7. ASSUME NEW g \in Flow
      PROVE  /\ SourceOK(v.src[g], later[g], IF g \in began THEN Size[g] ELSE 0)
             /\ SinkOK(v.src[g], v.sink[g])
             /\ DoneOK(v.src[g], v.sink[g], g)
  BY <1>2, <1>6 DEF WorldOK, Limit
<1>8. ASSUME NEW p \in DOMAIN v.net \cup Controls(v) PROVE PacketOK(v, p)
  <2>1. p \in Messages /\ PacketOK(w, p) /\ p.flow \in Flow
    BY <1>1, <1>2, PacketTypes, MessageKinds DEF WorldOK, Controls
  <2>2. CASE p.flow # f
    BY <1>2, <2>1, <2>2 DEF PacketOK
  <2>3. CASE p.flow = f
    <3>1. ASSUME p.kind \in {"data", "rts"}
          PROVE  p.seq \in Sent(s) /\ p.bytes = PacketSize(s, p.seq)
      <4>1. p.seq \in Sent(r) /\ p.bytes = PacketSize(r, p.seq)
        BY <2>1, <2>3, <3>1 DEF PacketOK, r
      <4>2. p.seq \in s.rts <=> p.seq \in r.rts
        BY <4>1 DEF Grows, r
      <4> QED
        BY <1>3, <4>1, <4>2 DEF PacketSize
    <3> QED
      BY <1>2, <2>1, <2>3, <3>1 DEF PacketOK
  <2> QED
    BY <2>2, <2>3
<1>9. WorldOK(v, later, began)
  BY <1>2, <1>7, <1>8 DEF WorldOK
<1> QED
  BY <1>9 DEF v

LEMMA SinkChanges ==
  ASSUME NEW late, NEW begun, NEW w, WorldOK(w, late, begun), NEW f \in Flow, NEW k \in Sinks,
         w.sink[f].expected <= k.expected, SinkOK(w.src[f], k),
         DoneOK(w.src[f], k, f)
  PROVE  WorldOK(WithSink(w, f, k), late, begun)
<1> DEFINE v == WithSink(w, f, k)
<1>1. w \in Worlds
  BY DEF WorldOK
<1>2. /\ v \in Worlds /\ v.nic = w.nic /\ v.src = w.src /\ v.net = w.net
      /\ v.sink[f] = k /\ \A g \in Flow : g # f => v.sink[g] = w.sink[g]
  BY <1>1, SinkField
<1> HIDE DEF v
<1>3. ASSUME NEW p \in DOMAIN v.net \cup Controls(v) PROVE PacketOK(v, p)
  <2>1. p \in Messages /\ PacketOK(w, p) /\ p.flow \in Flow
        /\ (p.kind = "ack" => p.cumulative \in Nat)
    BY <1>1, <1>2, PacketTypes, MessageKinds DEF WorldOK, Controls
  <2>2. w.sink[f].expected \in Nat /\ k.expected \in Nat
    BY <1>1 DEF Worlds, Sinks
  <2> QED
    BY <1>2, <2>1, <2>2 DEF PacketOK
<1>4. WorldOK(v, late, begun)
  BY <1>2, <1>3 DEF WorldOK
<1> QED
  BY <1>4 DEF v
-----------------------------------------------------------------------------
(* The least of a set of naturals: the smallest of the intervals 0 .. n    *)
(* under inclusion, which is well founded on finite sets.                  *)
LEMMA LeastFacts ==
  ASSUME NEW S \in SUBSET Nat, S # {}
  PROVE  Least(S) \in S /\ \A n \in S : Least(S) <= n
<1> DEFINE Below == {0 .. n : n \in S}
<1>1. Below \subseteq FiniteSubsetsOf(Nat)
  <2>1. ASSUME NEW n \in S PROVE IsFiniteSet(0 .. n)
    BY FS_Interval
  <2> QED
    BY <2>1 DEF FiniteSubsetsOf
<1>6. Below # {}
  OBVIOUS
<1>2. PICK b \in Below : \A c \in Below : <<c, b>> \notin StrictSubsetOrdering(Nat)
  <2> HIDE DEF Below
  <2> QED
    BY <1>1, <1>6, FS_StrictSubsetOrderingWellFounded, WFMin
<1>3. PICK x \in S : b = 0 .. x
  OBVIOUS
<1>4. ASSUME NEW n \in S, n < x PROVE FALSE
  <2>1. 0 .. n \in Below /\ 0 .. n \subseteq b /\ x \in b /\ x \notin 0 .. n
    BY <1>3, <1>4
  <2>2. <<0 .. n, b>> \in StrictSubsetOrdering(Nat)
    BY <1>3, <2>1 DEF StrictSubsetOrdering
  <2> QED
    BY <1>2, <2>1, <2>2
<1>5. \A n \in S : x <= n
  BY <1>4
<1> QED
  BY <1>5 DEF Least

LEMMA LeastOfTwo ==
  ASSUME NEW a \in Int, NEW b \in Int
  PROVE  Least({a, b}) \in Int
<1>1. \E x \in {a, b} : \A y \in {a, b} : x <= y
  <2>1. CASE a <= b
    BY <2>1
  <2>2. CASE b <= a
    BY <2>2
  <2> QED
    BY <2>1, <2>2
<1> QED
  BY <1>1 DEF Least

LEMMA QuantizeType ==
  ASSUME NEW b \in Int PROVE QuantizeCeil(b) \in Int
BY EqdsConstants DEF QuantizeCeil

LEMMA PullTargetType ==
  ASSUME NEW s \in Sources PROVE ComputePullTarget(s) \in Int
<1>1. s.unsent * Mtu \in Int /\ Window * Mtu \in Int
  BY EqdsConstants DEF Sources, Mtu
<1> DEFINE a == s.unsent * Mtu
           b == Window * Mtu
<1>2. Least({a, b}) \in Int
  BY <1>1, LeastOfTwo
<1>3. Credit(s) \in Int /\ s.pull \in Int
  BY DEF Credit, Sources
<1> DEFINE wanted == Least({a, b}) - Credit(s)
<1>4. QuantizeCeil(wanted) \in Int
  BY <1>2, <1>3, QuantizeType
<1>5. ComputePullTarget(s) = (QuantizeCeil(wanted) + s.pull) % Wrap
  BY DEF ComputePullTarget
<1> HIDE DEF wanted
<1> QED
  BY <1>3, <1>4, <1>5, EqdsConstants

LEMMA SizeType ==
  ASSUME NEW s, NEW seq
  PROVE  PacketSize(s, seq) \in Int /\ Mtu \in Int
BY EqdsConstants DEF PacketSize, Mtu

-----------------------------------------------------------------------------
(* Changes of a source alone.  Two sources alike differ in nothing that    *)
(* the invariant speaks of.                                                *)
Alike(s, t) ==
    /\ t.rts = s.rts /\ t.rtx = s.rtx /\ t.tx = s.tx /\ t.times = s.times
    /\ t.timer = s.timer /\ t.highest = s.highest /\ t.unsent = s.unsent /\ t.done = s.done

LEMMA AlikeOK ==
  ASSUME NEW s \in Sources, NEW t, Alike(s, t), NEW late, NEW limit, SourceOK(s, late, limit)
  PROVE  SourceOK(t, late, limit) /\ Grows(s, t) /\ (t.done => s.done)
BY DEF Alike, SourceOK, DataSent, Sent, Grows, Sources

LEMMA SpendFacts ==
  ASSUME NEW s \in Sources, NEW bytes \in Int
  PROVE  SpendCredit(s, bytes) \in Sources /\ Alike(s, SpendCredit(s, bytes))
BY DEF SpendCredit, Sources, Alike

LEMMA BlockedFacts ==
  ASSUME NEW s \in Sources, NEW b \in BOOLEAN
  PROVE  LET t == [s EXCEPT !.blocked = b]
         IN  t \in Sources /\ Alike(s, t)
BY DEF Sources, Alike

LEMMA StopFacts ==
  ASSUME NEW s \in Sources
  PROVE  StopSpeculating(s) \in Sources /\ Alike(s, StopSpeculating(s))
BY DEF StopSpeculating, Sources, Alike

(* The timer: started at an entry of _send_times, or set to the earliest.  *)
LEMMA StartRTOFacts ==
  ASSUME NEW s \in Sources, NEW late, NEW limit, SourceOK(s, late, limit),
         NEW at \in DOMAIN s.times
  PROVE  LET t == StartRTO(s, at) IN
         /\ t \in Sources /\ SourceOK(t, late, limit) /\ Grows(s, t)
         /\ (t.done => s.done) /\ t.times = s.times
<1>1. at \in Nat
  BY TableEntry DEF Sources, Instants
<1> QED
  BY <1>1 DEF StartRTO, SourceOK, DataSent, Sent, Grows, Sources

LEMMA RecalculateFacts ==
  ASSUME NEW s \in Sources, NEW late, NEW other, NEW limit, SourceOK(s, late, limit)
  PROVE  LET t == RecalculateRTO(s) IN
         /\ t \in Sources /\ SourceOK(t, other, limit) /\ Grows(s, t)
         /\ (t.done => s.done) /\ t.times = s.times
<1>1. DOMAIN s.times \subseteq Nat
  BY TableEntry DEF Sources, Instants
<1>2. DOMAIN s.times # {} => Least(DOMAIN s.times) \in DOMAIN s.times
  BY <1>1, LeastFacts
<1> DEFINE at == IF DOMAIN s.times = {} THEN 0 ELSE Least(DOMAIN s.times)
<1>3. at \in DOMAIN s.times \cup {0} /\ at \in Nat
  BY <1>1, <1>2
<1>4. RecalculateRTO(s) = [s EXCEPT !.timer = at]
  BY DEF RecalculateRTO
<1> HIDE DEF at
<1> QED
  BY <1>3, <1>4 DEF SourceOK, DataSent, Sent, Grows, Sources

LEMMA EmplaceFacts ==
  ASSUME NEW fn, NEW key, NEW value
  PROVE  /\ DOMAIN Emplace(fn, key, value) = DOMAIN fn \cup {key}
         /\ \A x \in DOMAIN fn : Emplace(fn, key, value)[x] = fn[x]
         /\ key \notin DOMAIN fn => Emplace(fn, key, value)[key] = value
BY DEF Emplace

LEMMA EmplaceType ==
  ASSUME NEW D, NEW R, NEW fn \in Table(D, R), NEW key \in D, NEW value \in R
  PROVE  Emplace(fn, key, value) \in Table(D, R)
<1>1. fn \in [DOMAIN fn -> R] /\ DOMAIN fn \subseteq D /\ \A x \in DOMAIN fn : fn[x] \in R
  BY TableEntry
<1>2. Emplace(fn, key, value) \in [DOMAIN fn \cup {key} -> R]
  BY <1>1 DEF Emplace
<1> QED
  BY <1>1, <1>2, TableEntry

LEMMA WithoutFacts ==
  ASSUME NEW fn, NEW S
  PROVE  /\ DOMAIN Without(fn, S) = DOMAIN fn \ S
         /\ \A x \in DOMAIN fn \ S : Without(fn, S)[x] = fn[x]
BY DEF Without

LEMMA WithoutType ==
  ASSUME NEW D, NEW R, NEW fn \in Table(D, R), NEW S
  PROVE  Without(fn, S) \in Table(D, R)
<1>1. fn \in [DOMAIN fn -> R] /\ DOMAIN fn \subseteq D /\ \A x \in DOMAIN fn : fn[x] \in R
  BY TableEntry
<1>2. Without(fn, S) \in [DOMAIN fn \ S -> R]
  BY <1>1 DEF Without
<1> QED
  BY <1>1, <1>2, TableEntry

-----------------------------------------------------------------------------
(* The calls between source and card: none touches a sink or a pacer, and  *)
(* none takes an entry from _send_times.                                   *)
Calls(w, v) ==
    /\ v.sink = w.sink /\ v.pacer = w.pacer /\ v.now = w.now
    /\ \A f \in Flow : DOMAIN w.src[f].times \subseteq DOMAIN v.src[f].times
Keeps(w, v, late, begun) == WorldOK(v, late, begun) /\ Calls(w, v)

LEMMA KeepsTwice ==
  ASSUME NEW late, NEW begun, NEW u, NEW v, NEW w,
         Keeps(u, v, late, begun), Keeps(v, w, late, begun)
  PROVE  Keeps(u, w, late, begun)
BY DEF Keeps, Calls

LEMMA KeepsItself ==
  ASSUME NEW late, NEW begun, NEW w, WorldOK(w, late, begun)
  PROVE  Keeps(w, w, late, begun)
BY DEF Keeps, Calls

LEMMA KeepsAsserted ==
  ASSUME NEW late, NEW begun, NEW w, WorldOK(w, late, begun), NEW claim
  PROVE  LET v == Asserted(w, claim) IN
         Keeps(w, v, late, begun) /\ v.src = w.src /\ v.nic = w.nic
<1>1. w \in Worlds
  BY DEF WorldOK
<1>2. WorldOK(Asserted(w, claim), late, begun)
  BY AssertedOK
<1> QED
  BY <1>1, <1>2, AssertedField DEF Keeps, Calls

LEMMA KeepsSource ==
  ASSUME NEW late, NEW begun, NEW w, WorldOK(w, late, begun), NEW f \in Flow, NEW s \in Sources,
         Grows(w.src[f], s), SourceOK(s, late[f], Limit(f, begun)),
         s.done => w.src[f].done, DOMAIN w.src[f].times \subseteq DOMAIN s.times
  PROVE  LET v == WithSource(w, f, s) IN
         Keeps(w, v, late, begun) /\ v.src[f] = s /\ v.nic = w.nic
<1> DEFINE v == WithSource(w, f, s)
<1>1. w \in Worlds
  BY DEF WorldOK
<1>2. WorldOK(v, late, begun)
  BY SourceChanges
<1>3. /\ v.nic = w.nic /\ v.sink = w.sink /\ v.pacer = w.pacer /\ v.now = w.now
      /\ v.src[f] = s /\ \A g \in Flow : g # f => v.src[g] = w.src[g]
  BY <1>1, SourceField
<1> HIDE DEF v
<1>4. Keeps(w, v, late, begun) /\ v.src[f] = s /\ v.nic = w.nic
  BY <1>2, <1>3 DEF Keeps, Calls
<1> QED
  BY <1>4 DEF v

LEMMA KeepsAlike ==
  ASSUME NEW late, NEW begun, NEW w, WorldOK(w, late, begun), NEW f \in Flow, NEW s \in Sources,
         Alike(w.src[f], s)
  PROVE  LET v == WithSource(w, f, s) IN
         Keeps(w, v, late, begun) /\ v.src[f] = s /\ v.nic = w.nic
<1>1. w.src[f] \in Sources /\ SourceOK(w.src[f], late[f], Limit(f, begun))
  BY DEF WorldOK, Worlds, Limit
<1>2. SourceOK(s, late[f], Limit(f, begun)) /\ Grows(w.src[f], s) /\ (s.done => w.src[f].done)
  BY <1>1, AlikeOK
<1>3. DOMAIN w.src[f].times \subseteq DOMAIN s.times
  BY DEF Alike
<1> QED
  BY <1>2, <1>3, KeepsSource

LEMMA KeepsCard ==
  ASSUME NEW late, NEW begun, NEW w, WorldOK(w, late, begun), NEW h \in Host, NEW n \in Cards,
         \A p \in Range(n.control) : p \in Range(w.nic[h].control) \/ PacketOK(w, p)
  PROVE  LET v == WithCard(w, h, n) IN
         Keeps(w, v, late, begun) /\ v.src = w.src /\ v.nic[h] = n
<1> DEFINE v == WithCard(w, h, n)
<1>1. w \in Worlds
  BY DEF WorldOK
<1>2. WorldOK(v, late, begun)
  BY CardOK
<1>3. /\ v.nic[h] = n /\ v.sink = w.sink /\ v.pacer = w.pacer /\ v.now = w.now /\ v.src = w.src
  BY <1>1, CardField
<1> HIDE DEF v
<1>4. Keeps(w, v, late, begun) /\ v.src = w.src /\ v.nic[h] = n
  BY <1>2, <1>3 DEF Keeps, Calls
<1> QED
  BY <1>4 DEF v

LEMMA KeepsSend ==
  ASSUME NEW late, NEW begun, NEW w, WorldOK(w, late, begun), NEW p \in Messages, PacketOK(w, p)
  PROVE  LET v == SendOn(w, p) IN
         Keeps(w, v, late, begun) /\ v.src = w.src /\ v.nic = w.nic
<1> DEFINE v == SendOn(w, p)
<1>1. w \in Worlds
  BY DEF WorldOK
<1>2. WorldOK(v, late, begun)
  BY SendOK
<1>3. /\ v.nic = w.nic /\ v.sink = w.sink /\ v.pacer = w.pacer /\ v.now = w.now /\ v.src = w.src
  BY <1>1, SendField
<1> HIDE DEF v
<1>4. Keeps(w, v, late, begun) /\ v.src = w.src /\ v.nic = w.nic
  BY <1>2, <1>3 DEF Keeps, Calls
<1> QED
  BY <1>4 DEF v

(* createSendRecord: two entries more.                                     *)
Recorded(s, seq, at) == [s EXCEPT !.tx = Emplace(@, seq, at), !.times = Emplace(@, at, seq)]

LEMMA RecordFacts ==
  ASSUME NEW s \in Sources, NEW late, NEW limit, SourceOK(s, late, limit),
         NEW seq \in Sent(s), NEW at \in Instants
  PROVE  LET t == Recorded(s, seq, at) IN
         /\ t \in Sources /\ SourceOK(t, late, limit) /\ Grows(s, t) /\ t.done = s.done
         /\ DOMAIN t.times = DOMAIN s.times \cup {at} /\ t.rts = s.rts /\ t.highest = s.highest
<1> DEFINE x == Emplace(s.tx, seq, at)
           y == Emplace(s.times, at, seq)
           t == [s EXCEPT !.tx = x, !.times = y]
<1>1. s.tx \in Table(Nat, Instants) /\ s.times \in Table(Instants, Nat) /\ seq \in Nat
  BY DEF Sources, Sent
<1>2. x \in Table(Nat, Instants) /\ DOMAIN x = DOMAIN s.tx \cup {seq}
  BY <1>1, EmplaceFacts, EmplaceType
<1>3. /\ y \in Table(Instants, Nat) /\ DOMAIN y = DOMAIN s.times \cup {at}
      /\ \A n \in DOMAIN s.times : y[n] = s.times[n]
      /\ at \notin DOMAIN s.times => y[at] = seq
  <2>1. y \in Table(Instants, Nat)
    BY <1>1, EmplaceType
  <2>2. DOMAIN y = DOMAIN s.times \cup {at}
    BY EmplaceFacts
  <2>3. \A n \in DOMAIN s.times : y[n] = s.times[n]
    BY DEF Emplace
  <2>4. at \notin DOMAIN s.times => y[at] = seq
    BY EmplaceFacts
  <2> QED
    BY <2>1, <2>2, <2>3, <2>4
<1> HIDE DEF x, y
<1>4. IsFiniteSet(DOMAIN y)
  BY <1>3, FS_AddElement DEF SourceOK
<1>5. /\ t \in Sources /\ t.tx = x /\ t.times = y /\ t.rts = s.rts /\ t.rtx = s.rtx
      /\ t.highest = s.highest /\ t.timer = s.timer /\ t.unsent = s.unsent /\ t.done = s.done
  BY <1>2, <1>3 DEF Sources
<1> HIDE DEF t
<1>6. \A n \in DOMAIN y : y[n] \in Sent(s)
  BY <1>3 DEF SourceOK
<1>7. SourceOK(t, late, limit) /\ Grows(s, t)
  BY <1>2, <1>3, <1>4, <1>5, <1>6 DEF SourceOK, Sent, DataSent, Grows, Sources
<1>8. Recorded(s, seq, at) = t
  BY DEF Recorded, t, x, y
<1> QED
  BY <1>3, <1>5, <1>7, <1>8

LEMMA KeepsRecord ==
  ASSUME NEW late, NEW begun, NEW w, WorldOK(w, late, begun), NEW f \in Flow,
         NEW seq \in Sent(w.src[f])
  PROVE  LET v == CreateSendRecord(w, f, seq) IN
         /\ Keeps(w, v, late, begun) /\ w.now \in DOMAIN v.src[f].times
         /\ v.src[f].rts = w.src[f].rts /\ v.src[f].highest = w.src[f].highest
         /\ v.nic = w.nic
<1> DEFINE s == w.src[f]
           t == Recorded(s, seq, w.now)
           u == WithSource(w, f, t)
           claim == seq \notin DOMAIN w.src[f].tx
           v == Asserted(u, claim)
<1>1. /\ s \in Sources /\ SourceOK(s, late[f], Limit(f, begun)) /\ w.now \in Instants
      /\ seq \in Sent(s)
  BY DEF WorldOK, Worlds, Limit
<1>2. /\ t \in Sources /\ SourceOK(t, late[f], Limit(f, begun)) /\ Grows(s, t) /\ t.done = s.done
      /\ DOMAIN t.times = DOMAIN s.times \cup {w.now} /\ t.rts = s.rts /\ t.highest = s.highest
  <2> HIDE DEF s
  <2> QED
    BY <1>1, RecordFacts
<1> HIDE DEF s, t
<1>3. Keeps(w, u, late, begun) /\ u.src[f] = t /\ u.nic = w.nic
  BY <1>2, KeepsSource DEF s
<1>4. CreateSendRecord(w, f, seq) = v
  BY DEF CreateSendRecord, WithSource, Recorded, t, s
<1> HIDE DEF u, claim
<1>5. Keeps(u, v, late, begun) /\ v.src = u.src /\ v.nic = u.nic
  BY <1>3, KeepsAsserted DEF Keeps
<1>6. Keeps(w, v, late, begun)
  BY <1>3, <1>5, KeepsTwice
<1> HIDE DEF v
<1>7. /\ w.now \in DOMAIN v.src[f].times
      /\ v.src[f].rts = w.src[f].rts /\ v.src[f].highest = w.src[f].highest /\ v.nic = w.nic
  BY <1>2, <1>3, <1>5 DEF s
<1> QED
  BY <1>4, <1>6, <1>7

LEMMA KeepsStartRTO ==
  ASSUME NEW late, NEW begun, NEW w, WorldOK(w, late, begun), NEW f \in Flow,
         NEW at \in DOMAIN w.src[f].times
  PROVE  Keeps(w, WithSource(w, f, StartRTO(w.src[f], at)), late, begun)
<1> DEFINE s == w.src[f]
           t == StartRTO(s, at)
<1>1. s \in Sources /\ SourceOK(s, late[f], Limit(f, begun))
  BY DEF WorldOK, Worlds, Limit
<1> HIDE DEF s
<1>2. /\ t \in Sources /\ SourceOK(t, late[f], Limit(f, begun)) /\ Grows(s, t)
      /\ (t.done => s.done) /\ t.times = s.times
  BY <1>1, StartRTOFacts DEF s
<1> HIDE DEF t
<1>3. Keeps(w, WithSource(w, f, t), late, begun)
  BY <1>2, KeepsSource DEF s
<1> QED
  BY <1>3 DEF t, s

LEMMA KeepsLaunch ==
  ASSUME NEW late, NEW begun, NEW w, WorldOK(w, late, begun), NEW f \in Flow,
         NEW seq \in Sent(w.src[f]), NEW target \in Int, NEW ar \in BOOLEAN
  PROVE  Keeps(w, Launch(w, f, seq, target, ar), late, begun)
<1> DEFINE u == CreateSendRecord(w, f, seq)
           p == [kind |-> "data", flow |-> f, seq |-> seq, target |-> target,
                 bytes |-> PacketSize(w.src[f], seq), ar |-> ar]
           v == SendOn(u, p)
<1>1. /\ Keeps(w, u, late, begun) /\ w.now \in DOMAIN u.src[f].times
      /\ u.src[f].rts = w.src[f].rts /\ u.src[f].highest = w.src[f].highest
  BY KeepsRecord
<1>2. seq \in Nat
  BY DEF Sent
<1>3. Launch(w, f, seq, target, ar) = WithSource(v, f, StartRTO(v.src[f], w.now))
  BY DEF Launch, WithSource
<1> HIDE DEF u
<1>4. p \in Messages
  BY <1>2, SizeType DEF Messages
<1>5. p.flow = f /\ p.kind = "data" /\ p.seq = seq /\ p.bytes = PacketSize(w.src[f], seq)
  OBVIOUS
<1> HIDE DEF p
<1>6. PacketOK(u, p)
  BY <1>1, <1>5 DEF PacketOK, Sent, PacketSize
<1>7. Keeps(u, v, late, begun) /\ v.src = u.src
  BY <1>1, <1>4, <1>6, KeepsSend DEF Keeps
<1> HIDE DEF v
<1>8. Keeps(v, WithSource(v, f, StartRTO(v.src[f], w.now)), late, begun)
  BY <1>1, <1>7, KeepsStartRTO DEF Keeps
<1> QED
  BY <1>1, <1>3, <1>7, <1>8, KeepsTwice

-----------------------------------------------------------------------------
(* Sending a packet.                                                       *)

(* A new packet takes one from what is unsent to what has been sent.       *)
LEMMA TakenFacts ==
  ASSUME NEW s \in Sources, NEW late, NEW limit, SourceOK(s, late, limit), s.unsent > 0,
         NEW bytes \in Int
  PROVE  LET u == [SpendCredit(s, bytes) EXCEPT !.unsent = @ - 1, !.highest = @ + 1]
             t == [u EXCEPT !.pullTarget = ComputePullTarget(u)]
         IN  /\ t \in Sources /\ SourceOK(t, late, limit) /\ Grows(s, t) /\ t.done = s.done
             /\ t.times = s.times /\ s.highest \in Sent(t)
<1> DEFINE r == SpendCredit(s, bytes)
           u == [r EXCEPT !.unsent = @ - 1, !.highest = @ + 1]
           target == ComputePullTarget(u)
           t == [u EXCEPT !.pullTarget = target]
<1>1. r \in Sources /\ Alike(s, r)
  BY SpendFacts
<1> HIDE DEF r
<1>2. /\ u \in Sources /\ u.rts = s.rts /\ u.rtx = s.rtx /\ u.tx = s.tx /\ u.times = s.times
      /\ u.timer = s.timer /\ u.highest = s.highest + 1 /\ u.unsent = s.unsent - 1
      /\ u.done = s.done
  <2> DEFINE a == r.unsent - 1
             b == r.highest + 1
  <2>1. a \in Nat /\ b \in Nat /\ a = s.unsent - 1 /\ b = s.highest + 1
    BY <1>1 DEF Sources, Alike
  <2>2. u = [r EXCEPT !.unsent = a, !.highest = b]
    BY <1>1 DEF Sources
  <2> HIDE DEF a, b, u
  <2> QED
    BY <1>1, <2>1, <2>2 DEF Sources, Alike
<1> HIDE DEF u
<1>3. target \in Int
  BY <1>2, PullTargetType
<1> HIDE DEF target
<1>4. /\ t \in Sources /\ t.rts = s.rts /\ t.rtx = s.rtx /\ t.tx = s.tx /\ t.times = s.times
      /\ t.timer = s.timer /\ t.highest = s.highest + 1 /\ t.unsent = s.unsent - 1
      /\ t.done = s.done
  BY <1>2, <1>3 DEF Sources
<1> HIDE DEF t
<1>5. s.highest \in Nat /\ s.unsent \in Nat
  BY DEF Sources
<1>6. Sent(t) = Sent(s) \cup {s.highest} /\ s.highest \notin Sent(s)
  BY <1>4, <1>5 DEF Sent
<1>7. DataSent(t) = DataSent(s) \cup {s.highest} /\ s.highest \notin DataSent(s)
  BY <1>4, <1>6 DEF DataSent, SourceOK
<1>8. IsFiniteSet(DataSent(s))
  <2>1. IsFiniteSet(0 .. s.highest - 1)
    BY <1>5, FS_Interval
  <2> QED
    BY <2>1, FS_Subset DEF DataSent, Sent
<1>9. Cardinality(DataSent(t)) = Cardinality(DataSent(s)) + 1 /\ Cardinality(DataSent(s)) \in Nat
  BY <1>7, <1>8, FS_AddElement, FS_CardinalityType
<1>10. Cardinality(DataSent(t)) + t.unsent = Cardinality(DataSent(s)) + s.unsent
  BY <1>4, <1>5, <1>9
<1>11. SourceOK(t, late, limit)
  BY <1>4, <1>6, <1>10 DEF SourceOK
<1>12. Grows(s, t)
  BY <1>4, <1>5 DEF Grows, SourceOK
<1> QED
  BY <1>4, <1>6, <1>11, <1>12 DEF t, target, u, r

LEMMA KeepsSendNewPacket ==
  ASSUME NEW late, NEW begun, NEW w, WorldOK(w, late, begun), NEW f \in Flow,
         w.src[f].unsent > 0
  PROVE  Keeps(w, SendNewPacket(w, f), late, begun)
<1> DEFINE s == w.src[f]
           spent == SpendCredit(s, Mtu)
           taken == [spent EXCEPT !.unsent = @ - 1, !.highest = @ + 1]
           t == [taken EXCEPT !.pullTarget = ComputePullTarget(taken)]
           claim == /\ s.unsent > 0 /\ MaySpend(s)
                    /\ s.highest - Cardinality(s.rts) < Size[f]
           v == Asserted(w, claim)
           u == WithSource(v, f, t)
           ar == t.unsent = 0 \/ t.creditPull < 0
<1>1. s \in Sources /\ SourceOK(s, late[f], Limit(f, begun)) /\ w.now \in Instants
  BY DEF WorldOK, Worlds, Limit
<1>2. SendNewPacket(w, f) =
        IF SpendKind(s) = "none" THEN WithSource(v, f, spent)
        ELSE Launch(u, f, s.highest, t.pullTarget, ar)
  BY DEF SendNewPacket, WithSource
<1> HIDE DEF claim
<1>3. Keeps(w, v, late, begun) /\ v.src = w.src
  BY KeepsAsserted
<1> HIDE DEF v
<1>4. Mtu \in Int
  BY SizeType
<1>5. Keeps(v, WithSource(v, f, spent), late, begun)
  <2>1. spent \in Sources /\ Alike(s, spent)
    BY <1>1, <1>4, SpendFacts
  <2> HIDE DEF spent
  <2> QED
    BY <1>3, <2>1, KeepsAlike DEF Keeps
<1>6. Keeps(v, Launch(u, f, s.highest, t.pullTarget, ar), late, begun)
  <2>1. /\ t \in Sources /\ SourceOK(t, late[f], Limit(f, begun)) /\ Grows(s, t)
        /\ t.done = s.done /\ t.times = s.times /\ s.highest \in Sent(t)
    BY <1>1, <1>4, TakenFacts
  <2> HIDE DEF t
  <2>2. Keeps(v, u, late, begun) /\ u.src[f] = t
    BY <1>3, <2>1, KeepsSource DEF Keeps
  <2>3. t.pullTarget \in Int /\ ar \in BOOLEAN
    BY <2>1 DEF Sources
  <2> HIDE DEF u, ar
  <2>4. Keeps(u, Launch(u, f, s.highest, t.pullTarget, ar), late, begun)
    BY <2>1, <2>2, <2>3, KeepsLaunch DEF Keeps
  <2> QED
    BY <2>2, <2>4, KeepsTwice
<1> QED
  BY <1>2, <1>3, <1>5, <1>6, KeepsTwice

LEMMA KeepsSendRtxPacket ==
  ASSUME NEW late, NEW begun, NEW w, WorldOK(w, late, begun), NEW f \in Flow
  PROVE  Keeps(w, SendRtxPacket(w, f), late, begun)
<1> DEFINE s == w.src[f]
           seq == Least(s.rtx)
           spent == SpendCredit(s, PacketSize(s, seq))
           t == [spent EXCEPT !.rtx = @ \ {seq}]
           claim == MaySpend(s) /\ SpendKind(s) # "spec"
           v == Asserted(w, claim)
           u == WithSource(v, f, t)
<1>1. /\ s \in Sources /\ SourceOK(s, late[f], Limit(f, begun)) /\ w.now \in Instants
      /\ s.rtx \subseteq Nat /\ s.rtx \subseteq Sent(s) /\ s.pullTarget \in Int
  BY DEF WorldOK, Worlds, Limit, SourceOK, Sources
<1>2. SendRtxPacket(w, f) =
        IF s.rtx = {} THEN Asserted(w, FALSE)
        ELSE IF SpendKind(s) = "none" THEN WithSource(v, f, spent)
        ELSE Launch(u, f, seq, s.pullTarget, TRUE)
  BY DEF SendRtxPacket, WithSource
<1>3. Keeps(w, Asserted(w, FALSE), late, begun)
  BY KeepsAsserted
<1> HIDE DEF claim
<1>4. Keeps(w, v, late, begun) /\ v.src = w.src
  BY KeepsAsserted
<1> HIDE DEF v
<1>5. spent \in Sources /\ Alike(s, spent)
  BY <1>1, SizeType, SpendFacts
<1>6. CASE s.rtx # {}
  <2>1. seq \in s.rtx /\ seq \in Sent(s)
    BY <1>1, <1>6, LeastFacts
  <2> HIDE DEF spent, seq
  <2>2. Keeps(v, WithSource(v, f, spent), late, begun)
    BY <1>4, <1>5, KeepsAlike DEF Keeps
  <2>3. t \in Sources /\ t.pullTarget = spent.pullTarget /\ t.times = s.times /\ t.done = s.done
        /\ t.rts = s.rts /\ t.highest = s.highest /\ t.tx = s.tx /\ t.rtx = s.rtx \ {seq}
        /\ t.timer = s.timer /\ t.unsent = s.unsent
    BY <1>5 DEF Sources, Alike
  <2> HIDE DEF t
  <2>4. SourceOK(t, late[f], Limit(f, begun)) /\ Grows(s, t) /\ Sent(t) = Sent(s)
    BY <1>1, <2>3 DEF SourceOK, Grows, Sent, DataSent, Sources
  <2>5. Keeps(v, u, late, begun) /\ u.src[f] = t
    BY <1>4, <2>3, <2>4, KeepsSource DEF Keeps
  <2> HIDE DEF u
  <2>6. Keeps(u, Launch(u, f, seq, s.pullTarget, TRUE), late, begun)
    BY <1>1, <2>1, <2>4, <2>5, KeepsLaunch DEF Keeps
  <2>7. Keeps(v, Launch(u, f, seq, s.pullTarget, TRUE), late, begun)
    BY <2>5, <2>6, KeepsTwice
  <2> QED
    BY <1>2, <1>4, <1>6, <2>2, <2>7, KeepsTwice
<1> QED
  BY <1>2, <1>3, <1>6

LEMMA KeepsSendPacket ==
  ASSUME NEW late, NEW begun, NEW w, WorldOK(w, late, begun), NEW f \in Flow,
         ~NothingToSend(w.src[f])
  PROVE  Keeps(w, SendPacket(w, f), late, begun)
<1>1. w.src[f].unsent \in Nat
  BY DEF WorldOK, Worlds, Sources
<1>2. w.src[f].rtx = {} => w.src[f].unsent > 0
  BY <1>1 DEF NothingToSend
<1> QED
  BY <1>2, KeepsSendNewPacket, KeepsSendRtxPacket DEF SendPacket

-----------------------------------------------------------------------------
(* The card.                                                               *)
LEMMA SequenceFacts ==
  ASSUME NEW S, NEW s \in Seq(S)
  PROVE  /\ Range(s) \subseteq S /\ DOMAIN s = 1..Len(s) /\ Len(s) \in Nat
         /\ \A x \in S : Append(s, x) \in Seq(S) /\ Range(Append(s, x)) = Range(s) \cup {x}
         /\ s # <<>> => /\ Tail(s) \in Seq(S) /\ Range(Tail(s)) \subseteq Range(s)
                        /\ Head(s) \in Range(s)
<1>1. DOMAIN s = 1..Len(s) /\ Len(s) \in Nat /\ \A i \in 1..Len(s) : s[i] \in S
  BY LenProperties, ElementOfSeq
<1>2. Range(s) \subseteq S
  BY <1>1 DEF Range
<1>3. ASSUME NEW x \in S
      PROVE  Append(s, x) \in Seq(S) /\ Range(Append(s, x)) = Range(s) \cup {x}
  <2> DEFINE n == Len(s)
             t == Append(s, x)
  <2>1. /\ t \in Seq(S) /\ n \in Nat
        /\ DOMAIN s = 1..n /\ DOMAIN t = 1..(n + 1)
        /\ \A i \in 1..n : t[i] = s[i]
        /\ t[n + 1] = x
    BY AppendProperties, LenProperties
  <2> HIDE DEF n, t
  <2>2. \A i \in 1..(n + 1) : i \in 1..n \/ i = n + 1
    BY <2>1
  <2>3. n + 1 \in 1..(n + 1) /\ \A i \in 1..n : i \in 1..(n + 1)
    BY <2>1
  <2>4. t \in Seq(S) /\ Range(t) = Range(s) \cup {x}
    BY <2>1, <2>2, <2>3 DEF Range
  <2> QED
    BY <2>4 DEF t
<1>4. ASSUME s # <<>>
      PROVE  Tail(s) \in Seq(S) /\ Range(Tail(s)) \subseteq Range(s) /\ Head(s) \in Range(s)
  <2> DEFINE n == Len(s)
             t == Tail(s)
  <2>1. /\ t \in Seq(S) /\ n \in Nat /\ n > 0
        /\ DOMAIN s = 1..n /\ DOMAIN t = 1..(n - 1)
        /\ \A i \in 1..(n - 1) : t[i] = s[i + 1]
        /\ Head(s) = s[1]
    BY <1>4, HeadTailProperties, LenProperties, EmptySeq
  <2> HIDE DEF n, t
  <2>2. \A i \in 1..(n - 1) : i + 1 \in 1..n
    BY <2>1
  <2>3. 1 \in 1..n
    BY <2>1
  <2>4. t \in Seq(S) /\ Range(t) \subseteq Range(s) /\ Head(s) \in Range(s)
    BY <2>1, <2>2, <2>3 DEF Range
  <2> QED
    BY <2>4 DEF t
<1> QED
  BY <1>1, <1>2, <1>3, <1>4

LEMMA CardTypes ==
  ASSUME NEW late, NEW begun, NEW w, WorldOK(w, late, begun), NEW h \in Host
  PROVE  /\ w.nic[h] \in Cards
         /\ w.nic[h].queue \in Seq(Flow) /\ w.nic[h].control \in Seq(Messages)
         /\ w.nic[h].events \in Nat /\ w.nic[h].crt \in Nat
         /\ \A p \in Range(w.nic[h].control) : p \in Messages /\ PacketOK(w, p)
<1>1. w.nic[h] \in Cards
  BY DEF WorldOK, Worlds
<1>2. w.nic[h].control \in Seq(Messages)
  BY <1>1 DEF Cards
<1>3. Range(w.nic[h].control) \subseteq Messages
  BY <1>2, SequenceFacts
<1>4. Range(w.nic[h].control) \subseteq Controls(w)
  BY DEF Controls
<1>5. \A p \in Controls(w) : PacketOK(w, p)
  BY DEF WorldOK
<1> QED
  BY <1>1, <1>3, <1>4, <1>5 DEF Cards

LEMMA ScheduledFacts ==
  ASSUME NEW n \in Cards
  PROVE  Scheduled(n) \in Cards /\ Scheduled(n).control = n.control
BY DEF Scheduled, Cards

LEMMA KeepsJoinQueue ==
  ASSUME NEW late, NEW begun, NEW w, WorldOK(w, late, begun), NEW f \in Flow
  PROVE  LET v == JoinQueue(w, f) IN Keeps(w, v, late, begun) /\ v.src = w.src
<1> DEFINE h == From[f]
           n == w.nic[h]
           queue == Append(n.queue, f)
           queued == [n EXCEPT !.queue = queue]
           m == IF Waiting(n) THEN queued ELSE [queued EXCEPT !.events = @ + 1]
<1>1. h \in Host
  BY EqdsConstants
<1> HIDE DEF h
<1>2. n \in Cards /\ n.queue \in Seq(Flow)
  BY <1>1, CardTypes
<1>3. JoinQueue(w, f) = WithCard(w, h, m)
  BY DEF JoinQueue, WithCard, h
<1>4. queue \in Seq(Flow)
  BY <1>2, SequenceFacts
<1> HIDE DEF n, queue
<1>5. m \in Cards /\ m.control = n.control
  <2>1. queued \in Cards /\ queued.control = n.control
    BY <1>2, <1>4 DEF Cards
  <2> HIDE DEF queued
  <2>2. LET q == [queued EXCEPT !.events = @ + 1] IN q \in Cards /\ q.control = n.control
    BY <2>1 DEF Cards
  <2> QED
    BY <2>1, <2>2
<1> HIDE DEF m
<1>6. \A p \in Range(m.control) : p \in Range(w.nic[h].control)
  BY <1>5 DEF n
<1>7. Keeps(w, WithCard(w, h, m), late, begun) /\ WithCard(w, h, m).src = w.src
  BY <1>1, <1>5, <1>6, KeepsCard
<1> QED
  BY <1>3, <1>7

LEMMA KeepsStartSending ==
  ASSUME NEW late, NEW begun, NEW w, WorldOK(w, late, begun), NEW f \in Flow
  PROVE  Keeps(w, StartSending(w, f), late, begun)
<1> DEFINE h == From[f]
           n == w.nic[h]
           rest == IF n.queue = <<>> THEN <<>> ELSE Tail(n.queue)
           m == [n EXCEPT !.queue = rest, !.phase = "sending"]
           claim == n.phase # "sending" /\ (n.queue # <<>> => Head(n.queue) = f)
           v == WithCard(w, h, Scheduled(m))
<1>1. h \in Host
  BY EqdsConstants
<1>2. StartSending(w, f) = Asserted(v, claim)
  BY DEF StartSending, WithCard
<1> HIDE DEF h
<1>3. n \in Cards /\ n.queue \in Seq(Flow)
  BY <1>1, CardTypes
<1>4. rest \in Seq(Flow)
  BY <1>3, SequenceFacts
<1> HIDE DEF n, rest
<1>5. m \in Cards /\ m.control = n.control
  BY <1>3, <1>4 DEF Cards
<1> HIDE DEF m
<1>6. Scheduled(m) \in Cards /\ Scheduled(m).control = n.control
  BY <1>5, ScheduledFacts
<1>7. \A p \in Range(Scheduled(m).control) : p \in Range(w.nic[h].control)
  BY <1>6 DEF n
<1>8. Keeps(w, v, late, begun)
  BY <1>1, <1>6, <1>7, KeepsCard
<1> HIDE DEF v
<1>9. Keeps(v, Asserted(v, claim), late, begun)
  BY <1>8, KeepsAsserted DEF Keeps
<1> QED
  BY <1>2, <1>8, <1>9, KeepsTwice

LEMMA KeepsSendControl ==
  ASSUME NEW late, NEW begun, NEW w, WorldOK(w, late, begun), NEW h \in Host,
         w.nic[h].control # <<>>
  PROVE  Keeps(w, SendControl(w, h), late, begun)
<1> DEFINE n == w.nic[h]
           rest == Tail(n.control)
           p == Head(n.control)
           m == [n EXCEPT !.control = rest, !.phase = "sending"]
           v == WithCard(w, h, Scheduled(m))
<1>1. /\ n \in Cards /\ n.control \in Seq(Messages)
      /\ \A q \in Range(n.control) : q \in Messages /\ PacketOK(w, q)
  BY CardTypes
<1>2. SendControl(w, h) = SendOn(v, p)
  BY DEF SendControl, WithCard
<1>3. rest \in Seq(Messages) /\ Range(rest) \subseteq Range(n.control) /\ p \in Range(n.control)
  BY <1>1, SequenceFacts
<1> HIDE DEF n, rest, p
<1>4. m \in Cards /\ m.control = rest
  BY <1>1, <1>3 DEF Cards
<1> HIDE DEF m
<1>5. Scheduled(m) \in Cards /\ Scheduled(m).control = rest
  BY <1>4, ScheduledFacts
<1>6. \A q \in Range(Scheduled(m).control) : q \in Range(w.nic[h].control)
  BY <1>3, <1>5 DEF n
<1>7. Keeps(w, v, late, begun) /\ v.src = w.src
  BY <1>5, <1>6, KeepsCard
<1> HIDE DEF v
<1>8. p \in Messages /\ PacketOK(v, p)
  BY <1>1, <1>3, <1>7 DEF PacketOK, Keeps, Calls
<1>9. Keeps(v, SendOn(v, p), late, begun)
  BY <1>7, <1>8, KeepsSend DEF Keeps
<1> QED
  BY <1>2, <1>7, <1>9, KeepsTwice

-----------------------------------------------------------------------------
(* The sources called back one after the other.  The recursive function    *)
(* exists: its first n values do for every n, and they agree.              *)
FirstAsked(w, h, g, n) ==
    /\ g[0] = w
    /\ \A i \in 1..n : g[i] = Declined(g[i - 1], w.nic[h].queue[i])

LEMMA FirstAskedAgree ==
  ASSUME NEW w, NEW h, NEW g, NEW k, NEW m \in Nat, NEW n \in Nat,
         FirstAsked(w, h, g, m), FirstAsked(w, h, k, n)
  PROVE  \A i \in Nat : i <= m /\ i <= n => g[i] = k[i]
<1> DEFINE Bad == {i \in Nat : i <= m /\ i <= n /\ g[i] # k[i]}
           i == Least(Bad)
<1> SUFFICES ASSUME Bad # {} PROVE FALSE
  OBVIOUS
<1>1. i \in Bad /\ \A j \in Bad : i <= j
  BY LeastFacts
<1> HIDE DEF i
<1>2. i # 0
  BY <1>1 DEF FirstAsked
<1>3. i \in 1..m /\ i \in 1..n /\ i - 1 \in Nat /\ i - 1 <= m /\ i - 1 <= n /\ ~(i <= i - 1)
  BY <1>1, <1>2
<1>4. g[i - 1] = k[i - 1]
  BY <1>1, <1>3
<1>5. /\ g[i] = Declined(g[i - 1], w.nic[h].queue[i])
      /\ k[i] = Declined(k[i - 1], w.nic[h].queue[i])
  BY <1>3 DEF FirstAsked
<1> QED
  BY <1>1, <1>4, <1>5

LEMMA FirstAskedExists ==
  ASSUME NEW w, NEW h
  PROVE  \A n \in Nat : \E g : FirstAsked(w, h, g, n)
<1> DEFINE Bad == {n \in Nat : ~ \E g : FirstAsked(w, h, g, n)}
           n == Least(Bad)
<1> SUFFICES ASSUME Bad # {} PROVE FALSE
  OBVIOUS
<1>1. n \in Bad /\ \A j \in Bad : n <= j
  BY LeastFacts
<1> HIDE DEF n
<1>2. n # 0
  <2>1. FirstAsked(w, h, [i \in Nat |-> w], 0)
    BY DEF FirstAsked
  <2> QED
    BY <1>1, <2>1
<1>3. n - 1 \in Nat /\ ~(n <= n - 1)
  BY <1>1, <1>2
<1>4. PICK g : FirstAsked(w, h, g, n - 1)
  BY <1>1, <1>3
<1> DEFINE x == Declined(g[n - 1], w.nic[h].queue[n])
           k == [i \in Nat |-> IF i = n THEN x ELSE g[i]]
<1>5. k[0] = w /\ k[n] = x /\ \A i \in 0..n - 1 : k[i] = g[i]
  BY <1>1, <1>2, <1>4 DEF FirstAsked
<1> HIDE DEF k
<1>6. ASSUME NEW i \in 1..n PROVE k[i] = Declined(k[i - 1], w.nic[h].queue[i])
  <2>1. CASE i = n
    <3>1. k[n - 1] = g[n - 1]
      BY <1>3, <1>5
    <3> QED
      BY <1>5, <2>1, <3>1
  <2>2. CASE i # n
    <3>1. i \in 1..n - 1 /\ i \in 0..n - 1 /\ i - 1 \in 0..n - 1
      BY <1>1, <1>3, <2>2
    <3> QED
      BY <1>4, <1>5, <3>1 DEF FirstAsked
  <2> QED
    BY <2>1, <2>2
<1>7. FirstAsked(w, h, k, n)
  BY <1>5, <1>6 DEF FirstAsked
<1> QED
  BY <1>1, <1>7

LEMMA AskedFacts ==
  ASSUME NEW w, NEW h
  PROVE  /\ Asked(w, h)[0] = w
         /\ \A i \in Nat \ {0} : Asked(w, h)[i] = Declined(Asked(w, h)[i - 1], w.nic[h].queue[i])
<1> DEFINE First(n) == CHOOSE g : FirstAsked(w, h, g, n)
           G == [n \in Nat |-> First(n)[n]]
<1>1. \A n \in Nat : FirstAsked(w, h, First(n), n)
  BY FirstAskedExists
<1> HIDE DEF First
<1>2. G[0] = w
  BY <1>1 DEF FirstAsked
<1>3. ASSUME NEW i \in Nat \ {0} PROVE G[i] = Declined(G[i - 1], w.nic[h].queue[i])
  <2>1. i \in 1..i /\ i - 1 \in Nat /\ i - 1 <= i /\ i \in Nat
    OBVIOUS
  <2>2. First(i)[i] = Declined(First(i)[i - 1], w.nic[h].queue[i])
    BY <1>1, <2>1 DEF FirstAsked
  <2>3. First(i)[i - 1] = First(i - 1)[i - 1]
    BY <1>1, <2>1, FirstAskedAgree
  <2> QED
    BY <2>1, <2>2, <2>3
<1>4. G = [i \in Nat |-> IF i = 0 THEN w ELSE Declined(G[i - 1], w.nic[h].queue[i])]
  BY <1>2, <1>3
<1> HIDE DEF G
<1>5. Asked(w, h) = [i \in Nat |-> IF i = 0 THEN w
                       ELSE Declined(Asked(w, h)[i - 1], w.nic[h].queue[i])]
  BY <1>4 DEF Asked
<1> QED
  BY <1>5

LEMMA KeepsBlocked ==
  ASSUME NEW late, NEW begun, NEW w, WorldOK(w, late, begun), NEW f \in Flow, NEW b \in BOOLEAN
  PROVE  LET v == [w EXCEPT !.src[f].blocked = b] IN
         /\ Keeps(w, v, late, begun) /\ v.nic = w.nic
         /\ NothingToSend(v.src[f]) <=> NothingToSend(w.src[f])
<1> DEFINE s == w.src[f]
           t == [s EXCEPT !.blocked = b]
           v == WithSource(w, f, t)
<1>1. s \in Sources
  BY DEF WorldOK, Worlds
<1>2. [w EXCEPT !.src[f].blocked = b] = v
  BY DEF WithSource
<1>3. t \in Sources /\ Alike(s, t)
  BY <1>1, BlockedFacts
<1> HIDE DEF t
<1>4. Keeps(w, v, late, begun) /\ v.src[f] = t /\ v.nic = w.nic
  BY <1>3, KeepsAlike
<1> HIDE DEF v
<1>5. NothingToSend(v.src[f]) <=> NothingToSend(s)
  BY <1>3, <1>4 DEF NothingToSend, Alike
<1> QED
  BY <1>2, <1>4, <1>5

LEMMA KeepsPopped ==
  ASSUME NEW late, NEW begun, NEW w, WorldOK(w, late, begun), NEW f \in Flow
  PROVE  Keeps(w, Popped(w, f), late, begun)
<1> DEFINE h == From[f]
           n == w.nic[h]
           rest == Tail(n.queue)
           m == [n EXCEPT !.queue = rest]
           claim == Head(n.queue) = f /\ n.phase # "sending"
           v == WithCard(w, h, m)
<1>1. h \in Host
  BY EqdsConstants
<1>2. Popped(w, f) = IF n.queue = <<>> THEN w ELSE Asserted(v, claim)
  BY DEF Popped, WithCard
<1> HIDE DEF h
<1>3. n \in Cards /\ n.queue \in Seq(Flow)
  BY <1>1, CardTypes
<1>4. CASE n.queue # <<>>
  <2>1. rest \in Seq(Flow)
    BY <1>3, <1>4, SequenceFacts
  <2> HIDE DEF n, rest
  <2>2. m \in Cards /\ m.control = n.control
    BY <1>3, <2>1 DEF Cards
  <2> HIDE DEF m
  <2>3. \A p \in Range(m.control) : p \in Range(w.nic[h].control)
    BY <2>2 DEF n
  <2>4. Keeps(w, v, late, begun)
    BY <1>1, <2>2, <2>3, KeepsCard
  <2> HIDE DEF v
  <2>5. Keeps(v, Asserted(v, claim), late, begun)
    BY <2>4, KeepsAsserted DEF Keeps
  <2> QED
    BY <1>2, <1>4, <2>4, <2>5, KeepsTwice
<1> QED
  BY <1>2, <1>4, KeepsItself

LEMMA KeepsDeclined ==
  ASSUME NEW late, NEW begun, NEW w, WorldOK(w, late, begun), NEW f \in Flow
  PROVE  Keeps(w, Declined(w, f), late, begun)
<1> DEFINE s == w.src[f]
           u == [w EXCEPT !.src[f].blocked = FALSE]
           v == IF NothingToSend(s) THEN w
                ELSE IF Credit(s) <= 0 THEN u ELSE SendPacket(u, f)
<1>1. Declined(w, f) = Popped(v, f)
  BY DEF Declined
<1>2. Keeps(w, u, late, begun) /\ (NothingToSend(u.src[f]) <=> NothingToSend(s))
  BY KeepsBlocked
<1> HIDE DEF u
<1>3. ~NothingToSend(s) => Keeps(u, SendPacket(u, f), late, begun)
  BY <1>2, KeepsSendPacket DEF Keeps
<1>4. Keeps(w, v, late, begun)
  BY <1>2, <1>3, KeepsItself, KeepsTwice
<1> HIDE DEF v
<1>5. Keeps(v, Popped(v, f), late, begun)
  BY <1>4, KeepsPopped DEF Keeps
<1> QED
  BY <1>1, <1>4, <1>5, KeepsTwice

LEMMA KeepsAsked ==
  ASSUME NEW late, NEW begun, NEW w, WorldOK(w, late, begun), NEW h \in Host
  PROVE  \A i \in Nat : i <= Len(w.nic[h].queue) => Keeps(w, Asked(w, h)[i], late, begun)
<1> DEFINE q == w.nic[h].queue
           A == Asked(w, h)
           Bad == {i \in Nat : i <= Len(q) /\ ~Keeps(w, A[i], late, begun)}
           i == Least(Bad)
<1> SUFFICES ASSUME Bad # {} PROVE FALSE
  OBVIOUS
<1>1. i \in Bad /\ \A j \in Bad : i <= j
  BY LeastFacts
<1>2. A[0] = w /\ \A j \in Nat \ {0} : A[j] = Declined(A[j - 1], q[j])
  BY AskedFacts
<1>3. q \in Seq(Flow) /\ Len(q) \in Nat
  BY CardTypes, SequenceFacts
<1> HIDE DEF i, A, q
<1>4. i # 0
  BY <1>1, <1>2, KeepsItself
<1>5. i \in Nat \ {0} /\ i - 1 \in Nat /\ i - 1 <= Len(q) /\ ~(i <= i - 1) /\ i \in 1..Len(q)
  BY <1>1, <1>3, <1>4
<1>6. Keeps(w, A[i - 1], late, begun)
  BY <1>1, <1>5
<1>7. q[i] \in Flow
  BY <1>3, <1>5, ElementOfSeq
<1>8. Keeps(A[i - 1], Declined(A[i - 1], q[i]), late, begun)
  BY <1>6, <1>7, KeepsDeclined DEF Keeps
<1>9. Keeps(w, A[i], late, begun)
  BY <1>2, <1>5, <1>6, <1>8, KeepsTwice
<1> QED
  BY <1>1, <1>9

LEMMA KeepsTakeTurn ==
  ASSUME NEW late, NEW begun, NEW w, WorldOK(w, late, begun), NEW f \in Flow,
         ~NothingToSend(w.src[f])
  PROVE  Keeps(w, TakeTurn(w, f), late, begun)
<1> DEFINE u == [w EXCEPT !.src[f].blocked = FALSE]
           t == SendPacket(u, f)
           v == StartSending(t, f)
           x == JoinQueue(v, f)
           y == [x EXCEPT !.src[f].blocked = TRUE]
<1>1. TakeTurn(w, f) = IF Credit(v.src[f]) <= 0 \/ NothingToSend(v.src[f]) THEN v ELSE y
  BY DEF TakeTurn
<1>2. Keeps(w, u, late, begun) /\ ~NothingToSend(u.src[f])
  BY KeepsBlocked
<1> HIDE DEF u
<1>3. Keeps(u, t, late, begun)
  BY <1>2, KeepsSendPacket DEF Keeps
<1> HIDE DEF t
<1>4. Keeps(t, v, late, begun)
  BY <1>3, KeepsStartSending DEF Keeps
<1> HIDE DEF v
<1>5. Keeps(v, x, late, begun)
  BY <1>4, KeepsJoinQueue DEF Keeps
<1> HIDE DEF x
<1>6. Keeps(x, y, late, begun)
  BY <1>5, KeepsBlocked DEF Keeps
<1> HIDE DEF y
<1>7. Keeps(w, v, late, begun)
  BY <1>2, <1>3, <1>4, KeepsTwice
<1>8. Keeps(w, y, late, begun)
  BY <1>5, <1>6, <1>7, KeepsTwice
<1> QED
  BY <1>1, <1>7, <1>8

LEMMA KeepsTimeToSend ==
  ASSUME NEW late, NEW begun, NEW w, WorldOK(w, late, begun), NEW h \in Host
  PROVE  Keeps(w, TimeToSend(w, h), late, begun)
<1> DEFINE q == w.nic[h].queue
           A == Asked(w, h)
           takers == {i \in DOMAIN q : ~Declines(A[i - 1].src[q[i]])}
           first == Least(takers)
           rest == A[Len(q)]
<1>1. TimeToSend(w, h) =
        IF takers # {} THEN TakeTurn(A[first - 1], q[first])
        ELSE IF rest.nic[h].control # <<>> THEN SendControl(rest, h) ELSE rest
  BY DEF TimeToSend
<1>2. \A i \in Nat : i <= Len(q) => Keeps(w, A[i], late, begun)
  BY KeepsAsked
<1>3. q \in Seq(Flow) /\ Len(q) \in Nat /\ DOMAIN q = 1..Len(q)
  BY CardTypes, SequenceFacts
<1> HIDE DEF A, q
<1>4. CASE takers # {}
  <2>1. takers \subseteq Nat
    BY <1>3
  <2>2. first \in takers
    BY <1>4, <2>1, LeastFacts
  <2> HIDE DEF first
  <2>3. first \in 1..Len(q) /\ first - 1 \in Nat /\ first - 1 <= Len(q)
    BY <1>3, <2>2
  <2>4. q[first] \in Flow
    BY <1>3, <2>3, ElementOfSeq
  <2>5. ~NothingToSend(A[first - 1].src[q[first]])
    BY <2>2 DEF Declines
  <2>6. Keeps(w, A[first - 1], late, begun)
    BY <1>2, <2>3
  <2>7. Keeps(A[first - 1], TakeTurn(A[first - 1], q[first]), late, begun)
    BY <2>4, <2>5, <2>6, KeepsTakeTurn DEF Keeps
  <2> QED
    BY <1>1, <1>4, <2>6, <2>7, KeepsTwice
<1>5. CASE takers = {}
  <2>1. Keeps(w, rest, late, begun)
    BY <1>2, <1>3
  <2> HIDE DEF rest
  <2>2. rest.nic[h].control # <<>> => Keeps(rest, SendControl(rest, h), late, begun)
    BY <2>1, KeepsSendControl DEF Keeps
  <2> QED
    BY <1>1, <1>5, <2>1, <2>2, KeepsTwice
<1> QED
  BY <1>4, <1>5

LEMMA KeepsCantSend ==
  ASSUME NEW late, NEW begun, NEW w, WorldOK(w, late, begun), NEW f \in Flow
  PROVE  Keeps(w, CantSend(w, f), late, begun)
<1>1. From[f] \in Host
  BY EqdsConstants
<1>2. Keeps(w, Popped(w, f), late, begun)
  BY KeepsPopped
<1>3. Keeps(Popped(w, f), TimeToSend(Popped(w, f), From[f]), late, begun)
  BY <1>1, <1>2, KeepsTimeToSend DEF Keeps
<1> QED
  BY <1>2, <1>3, KeepsTwice DEF CantSend

(* A source that has leave to send: whatever it sends, the card is told.   *)
LEMMA KeepsAttempt ==
  ASSUME NEW late, NEW begun, NEW w, NEW v, Keeps(w, v, late, begun), NEW f \in Flow, NEW none
  PROVE  Keeps(w, IF none THEN CantSend(v, f) ELSE StartSending(v, f), late, begun)
<1>1. Keeps(v, CantSend(v, f), late, begun)
  BY KeepsCantSend DEF Keeps
<1>2. Keeps(v, StartSending(v, f), late, begun)
  BY KeepsStartSending DEF Keeps
<1> QED
  BY <1>1, <1>2, KeepsTwice

LEMMA KeepsSendIfPermitted ==
  ASSUME NEW late, NEW begun, NEW w, WorldOK(w, late, begun), NEW f \in Flow
  PROVE  Keeps(w, SendIfPermitted(w, f), late, begun)
<1> DEFINE s == w.src[f]
           x == JoinQueue(w, f)
           y == [x EXCEPT !.src[f].blocked = TRUE]
           u == Asserted(w, ~Waiting(w.nic[From[f]]))
           v == SendPacket(u, f)
           z == IF SpendKind(u.src[f]) = "none" THEN CantSend(v, f) ELSE StartSending(v, f)
<1>1. SendIfPermitted(w, f) =
        IF Credit(s) <= 0 \/ NothingToSend(s) \/ s.blocked THEN w
        ELSE IF Busy(w, f) THEN y ELSE z
  BY DEF SendIfPermitted, Attempt, Granted
<1>2. Keeps(w, x, late, begun)
  BY KeepsJoinQueue
<1> HIDE DEF x
<1>3. Keeps(x, y, late, begun)
  BY <1>2, KeepsBlocked DEF Keeps
<1> HIDE DEF y
<1>4. Keeps(w, y, late, begun)
  BY <1>2, <1>3, KeepsTwice
<1>5. ~NothingToSend(s) => Keeps(w, z, late, begun)
  <2>1. Keeps(w, u, late, begun) /\ u.src = w.src
    BY KeepsAsserted
  <2> HIDE DEF u
  <2>2. ~NothingToSend(s) => Keeps(u, v, late, begun)
    BY <2>1, KeepsSendPacket DEF Keeps
  <2> HIDE DEF v
  <2> QED
    BY <2>1, <2>2, KeepsTwice, KeepsAttempt
<1> HIDE DEF z
<1> QED
  BY <1>1, <1>4, <1>5, KeepsItself

LEMMA KeepsCardTurn ==
  ASSUME NEW late, NEW begun, NEW w, WorldOK(w, late, begun), NEW h \in Host
  PROVE  Keeps(w, CardTurn(w, h), late, begun)
<1> DEFINE n == w.nic[h]
           both == n.queue # <<>> /\ n.control # <<>>
           crt == IF both THEN (n.crt + 1) % (ControlTurns + DataTurns) ELSE n.crt
           m == [n EXCEPT !.crt = crt]
           u == WithCard(w, h, m)
           claim == n.phase = "ending" /\ Waiting(n)
           v == Asserted(u, claim)
<1>1. CardTurn(w, h) =
        IF ~Waiting(n) THEN v
        ELSE IF n.queue # <<>> /\ (both => crt < DataTurns) THEN TimeToSend(v, h)
        ELSE SendControl(v, h)
  BY DEF CardTurn, WithCard
<1>2. n \in Cards /\ n.crt \in Nat
  BY CardTypes
<1>3. crt \in Nat
  BY <1>2, EqdsConstants
<1> HIDE DEF n, crt
<1>4. m \in Cards /\ m.control = n.control
  BY <1>2, <1>3 DEF Cards
<1> HIDE DEF m
<1>5. \A p \in Range(m.control) : p \in Range(w.nic[h].control)
  BY <1>4 DEF n
<1>6. Keeps(w, u, late, begun) /\ u.nic[h] = m
  BY <1>4, <1>5, KeepsCard
<1> HIDE DEF u, claim
<1>7. Keeps(u, v, late, begun) /\ v.nic = u.nic
  BY <1>6, KeepsAsserted DEF Keeps
<1> HIDE DEF v
<1>8. Keeps(w, v, late, begun) /\ v.nic[h].control = n.control
  BY <1>4, <1>6, <1>7, KeepsTwice
<1>9. Keeps(v, TimeToSend(v, h), late, begun)
  BY <1>8, KeepsTimeToSend DEF Keeps
<1>10. n.control # <<>> => Keeps(v, SendControl(v, h), late, begun)
  BY <1>8, KeepsSendControl DEF Keeps
<1>11. Waiting(n) /\ ~(n.queue # <<>> /\ (both => crt < DataTurns)) => n.control # <<>>
  BY DEF Waiting
<1> QED
  BY <1>1, <1>8, <1>9, <1>10, <1>11, KeepsTwice

LEMMA KeepsSendControlPacket ==
  ASSUME NEW late, NEW begun, NEW w, WorldOK(w, late, begun), NEW h \in Host,
         NEW packet \in Messages, PacketOK(w, packet)
  PROVE  Keeps(w, SendControlPacket(w, h, packet), late, begun)
<1> DEFINE n == w.nic[h]
           control == Append(n.control, packet)
           queued == [n EXCEPT !.control = control]
           ending == [queued EXCEPT !.phase = "ending"]
           more == IF Waiting(n) THEN queued ELSE [queued EXCEPT !.events = @ + 1]
           u == WithCard(w, h, ending)
           v == WithCard(w, h, more)
<1>1. SendControlPacket(w, h, packet) = IF n.phase = "idle" THEN CardTurn(u, h) ELSE v
  BY DEF SendControlPacket, WithCard
<1>2. n \in Cards /\ n.control \in Seq(Messages)
  BY CardTypes
<1>3. control \in Seq(Messages) /\ Range(control) = Range(n.control) \cup {packet}
  BY <1>2, SequenceFacts
<1> HIDE DEF n, control
<1>4. queued \in Cards /\ queued.control = control
  BY <1>2, <1>3 DEF Cards
<1> HIDE DEF queued
<1>5. ending \in Cards /\ ending.control = control
  BY <1>4 DEF Cards
<1> HIDE DEF ending
<1>6. more \in Cards /\ more.control = control
  <2>1. LET q == [queued EXCEPT !.events = @ + 1] IN q \in Cards /\ q.control = control
    BY <1>4 DEF Cards
  <2> QED
    BY <1>4, <2>1
<1> HIDE DEF more
<1>7. \A p \in Range(control) : p \in Range(w.nic[h].control) \/ PacketOK(w, p)
  BY <1>3 DEF n
<1>8. Keeps(w, u, late, begun)
  BY <1>5, <1>7, KeepsCard
<1>9. Keeps(w, v, late, begun)
  BY <1>6, <1>7, KeepsCard
<1> HIDE DEF u, v
<1>10. Keeps(u, CardTurn(u, h), late, begun)
  BY <1>8, KeepsCardTurn DEF Keeps
<1> QED
  BY <1>1, <1>8, <1>9, <1>10, KeepsTwice

-----------------------------------------------------------------------------
(* The source's handlers.                                                  *)
Leaves(w, v, late, begun) == WorldOK(v, late, begun) /\ v.sink = w.sink /\ v.pacer = w.pacer

LEMMA LeavesKeeps ==
  ASSUME NEW late, NEW begun, NEW u, NEW v, NEW w,
         Leaves(u, v, late, begun), Keeps(v, w, late, begun)
  PROVE  Leaves(u, w, late, begun)
BY DEF Leaves, Keeps, Calls

LEMMA LeavesSource ==
  ASSUME NEW late, NEW later, NEW begun, NEW began, NEW w, WorldOK(w, late, begun),
         NEW f \in Flow, NEW s \in Sources,
         Grows(w.src[f], s), SourceOK(s, later[f], Limit(f, began)),
         (s.done => w.src[f].done) \/ DoneOK(s, w.sink[f], f),
         \A g \in Flow : g # f => later[g] = late[g] /\ (g \in began <=> g \in begun)
  PROVE  Leaves(w, WithSource(w, f, s), later, began) /\ WithSource(w, f, s).src[f] = s
<1>1. w \in Worlds
  BY DEF WorldOK
<1>2. WorldOK(WithSource(w, f, s), later, began)
  BY SourceChanges
<1> QED
  BY <1>1, <1>2, SourceField DEF Leaves

LEMMA StartedFacts ==
  ASSUME NEW s \in Sources, NEW late, NEW f \in Flow, SourceOK(s, late, 0)
  PROVE  LET t == [s EXCEPT !.unsent = Size[f], !.state = "SPECULATING",
                            !.speculating = TRUE, !.creditSpec = Window * Mtu]
         IN  t \in Sources /\ SourceOK(t, late, Size[f]) /\ Grows(s, t)
             /\ t.done = s.done /\ t.unsent > 0
<1> DEFINE credit == Window * Mtu
           size == Size[f]
           t == [s EXCEPT !.unsent = size, !.state = "SPECULATING",
                          !.speculating = TRUE, !.creditSpec = credit]
<1>1. credit \in Int /\ size \in Nat /\ size > 0
  BY EqdsConstants DEF Mtu
<1> HIDE DEF credit, size
<1>2. /\ t \in Sources /\ t.rts = s.rts /\ t.rtx = s.rtx /\ t.tx = s.tx /\ t.times = s.times
      /\ t.timer = s.timer /\ t.highest = s.highest /\ t.unsent = size /\ t.done = s.done
  BY <1>1 DEF Sources
<1> HIDE DEF t
<1>3. Sent(t) = Sent(s) /\ DataSent(t) = DataSent(s)
  BY <1>2 DEF Sent, DataSent
<1>4. Cardinality(DataSent(s)) \in Nat
  <2>1. IsFiniteSet(0 .. s.highest - 1)
    BY FS_Interval DEF Sources
  <2> QED
    BY <2>1, FS_Subset, FS_CardinalityType DEF DataSent, Sent
<1>5. Cardinality(DataSent(s)) = 0
  BY <1>4 DEF SourceOK, Sources
<1>6. Cardinality(DataSent(t)) + t.unsent <= size
  BY <1>1, <1>2, <1>3, <1>5
<1>7. SourceOK(t, late, size) /\ Grows(s, t)
  BY <1>2, <1>3, <1>6 DEF SourceOK, Grows, Sources
<1> QED
  BY <1>1, <1>2, <1>7 DEF t, credit, size

LEMMA LeavesStartFlow ==
  ASSUME NEW late, NEW begun, NEW w, WorldOK(w, late, begun), NEW f \in Flow, f \notin begun
  PROVE  Leaves(w, StartFlow(w, f), late, begun \cup {f})
<1> DEFINE began == begun \cup {f}
           s == w.src[f]
           t == [s EXCEPT !.unsent = Size[f], !.state = "SPECULATING",
                          !.speculating = TRUE, !.creditSpec = Window * Mtu]
           u == WithSource(w, f, t)
           x == Asserted(u, ~Waiting(u.nic[From[f]]))
           y == SendNewPacket(x, f)
           z == IF SpendKind(x.src[f]) = "none" THEN CantSend(y, f) ELSE StartSending(y, f)
           v == IF Busy(u, f) THEN u ELSE z
           a == JoinQueue(v, f)
           b == [a EXCEPT !.src[f].blocked = TRUE]
<1>1. StartFlow(w, f) = IF Credit(v.src[f]) > 0 /\ v.src[f].unsent > 0 THEN b ELSE v
  BY DEF StartFlow, Attempt, Granted, WithSource
<1>2. s \in Sources /\ SourceOK(s, late[f], 0)
  BY DEF WorldOK, Worlds
<1>3. t \in Sources /\ SourceOK(t, late[f], Size[f]) /\ Grows(s, t) /\ t.done = s.done
      /\ t.unsent > 0
  BY <1>2, StartedFacts
<1> HIDE DEF t
<1>4. SourceOK(t, late[f], Limit(f, began))
  BY <1>3 DEF Limit
<1>5. Leaves(w, u, late, began) /\ u.src[f] = t
  <2>1. \A g \in Flow : g # f => late[g] = late[g] /\ (g \in began <=> g \in begun)
    OBVIOUS
  <2> HIDE DEF began
  <2> QED
    BY <1>3, <1>4, <2>1, LeavesSource
<1> HIDE DEF u, began
<1>6. Keeps(u, x, late, began) /\ x.src = u.src
  BY <1>5, KeepsAsserted DEF Leaves
<1> HIDE DEF x
<1>7. Keeps(x, y, late, began)
  BY <1>3, <1>5, <1>6, KeepsSendNewPacket DEF Keeps
<1> HIDE DEF y
<1>8. Keeps(u, z, late, began)
  BY <1>6, <1>7, KeepsTwice, KeepsAttempt
<1> HIDE DEF z
<1>9. Keeps(u, v, late, began)
  BY <1>5, <1>8, KeepsItself DEF Leaves
<1> HIDE DEF v
<1>10. Keeps(v, a, late, began)
  BY <1>9, KeepsJoinQueue DEF Keeps
<1> HIDE DEF a
<1>11. Keeps(a, b, late, began)
  BY <1>10, KeepsBlocked DEF Keeps
<1> HIDE DEF b
<1>12. Leaves(w, v, late, began) /\ Leaves(w, b, late, began)
  BY <1>5, <1>9, <1>10, <1>11, LeavesKeeps, KeepsTwice
<1> QED
  BY <1>1, <1>12 DEF began

LEMMA KeepsQueueForRtx ==
  ASSUME NEW late, NEW begun, NEW w, WorldOK(w, late, begun), NEW f \in Flow,
         NEW seq \in Sent(w.src[f])
  PROVE  Keeps(w, QueueForRtx(w, f, seq), late, begun)
<1> DEFINE s == w.src[f]
           t == [s EXCEPT !.rtx = @ \cup {seq}]
           u == WithSource(w, f, t)
           v == Asserted(u, seq \notin w.src[f].rtx)
<1>1. QueueForRtx(w, f, seq) = SendIfPermitted(v, f)
  BY DEF QueueForRtx, WithSource
<1>2. s \in Sources /\ SourceOK(s, late[f], Limit(f, begun)) /\ seq \in Sent(s) /\ seq \in Nat
  BY DEF WorldOK, Worlds, Limit, Sent
<1> HIDE DEF s
<1>3. /\ t \in Sources /\ t.rts = s.rts /\ t.rtx = s.rtx \cup {seq} /\ t.tx = s.tx /\ t.times = s.times
      /\ t.timer = s.timer /\ t.highest = s.highest /\ t.unsent = s.unsent /\ t.done = s.done
  BY <1>2 DEF Sources
<1> HIDE DEF t
<1>4. SourceOK(t, late[f], Limit(f, begun)) /\ Grows(s, t)
  BY <1>2, <1>3 DEF SourceOK, Grows, Sent, DataSent, Sources
<1>5. Keeps(w, u, late, begun)
  BY <1>3, <1>4, KeepsSource DEF s
<1> HIDE DEF u
<1>6. Keeps(u, v, late, begun)
  BY <1>5, KeepsAsserted DEF Keeps
<1> HIDE DEF v
<1>7. Keeps(v, SendIfPermitted(v, f), late, begun)
  BY <1>6, KeepsSendIfPermitted DEF Keeps
<1> QED
  BY <1>1, <1>5, <1>6, <1>7, KeepsTwice

(* An RTS takes a sequence number that carries no data.                    *)
LEMMA RtsFacts ==
  ASSUME NEW s \in Sources, NEW late, NEW limit, SourceOK(s, late, limit), NEW at \in Instants
  PROVE  LET t == [s EXCEPT !.rts = @ \cup {s.highest}, !.highest = @ + 1, !.lastRts = at]
         IN  /\ t \in Sources /\ SourceOK(t, late, limit) /\ Grows(s, t) /\ t.done = s.done
             /\ t.times = s.times /\ s.highest \in Sent(t) /\ s.highest \in t.rts
<1> DEFINE n == s.highest + 1
           t == [s EXCEPT !.rts = @ \cup {s.highest}, !.highest = n, !.lastRts = at]
<1>1. s.highest \in Nat /\ n \in Nat /\ n = s.highest + 1 /\ at \in Nat
  BY DEF Sources, Instants
<1> HIDE DEF n
<1>2. /\ t \in Sources /\ t.rts = s.rts \cup {s.highest} /\ t.rtx = s.rtx /\ t.tx = s.tx
      /\ t.times = s.times /\ t.timer = s.timer /\ t.highest = n /\ t.unsent = s.unsent
      /\ t.done = s.done
  BY <1>1 DEF Sources
<1> HIDE DEF t
<1>3. Sent(t) = Sent(s) \cup {s.highest} /\ s.highest \notin Sent(s)
  BY <1>1, <1>2 DEF Sent
<1>4. DataSent(t) = DataSent(s)
  BY <1>2, <1>3 DEF DataSent
<1>5. SourceOK(t, late, limit)
  BY <1>2, <1>3, <1>4 DEF SourceOK
<1>6. Grows(s, t)
  BY <1>1, <1>2, <1>3 DEF Grows, SourceOK
<1> QED
  BY <1>2, <1>3, <1>5, <1>6 DEF t, n

LEMMA KeepsSendRTS ==
  ASSUME NEW late, NEW begun, NEW w, WorldOK(w, late, begun), NEW f \in Flow, NEW expired
  PROVE  Keeps(w, SendRTS(w, f, expired), late, begun)
<1> DEFINE s == w.src[f]
           seq == s.highest
           t == [s EXCEPT !.rts = @ \cup {s.highest}, !.highest = @ + 1, !.lastRts = w.now]
           u == WithSource(w, f, t)
           v == CreateSendRecord(u, f, seq)
           p == [kind |-> "rts", flow |-> f, seq |-> seq,
                 target |-> RtsTarget, bytes |-> Hdr, ar |-> TRUE]
           x == SendControlPacket(v, From[f], p)
           y == WithSource(x, f, StartRTO(x.src[f], w.now))
<1>1. SendRTS(w, f, expired) = IF s.lastRts > expired THEN w ELSE y
  BY DEF SendRTS, WithSource
<1>2. /\ s \in Sources /\ SourceOK(s, late[f], Limit(f, begun)) /\ w.now \in Instants
      /\ s.highest \in Nat
  BY DEF WorldOK, Worlds, Limit, Sources
<1>3. /\ t \in Sources /\ SourceOK(t, late[f], Limit(f, begun)) /\ Grows(s, t) /\ t.done = s.done
      /\ t.times = s.times /\ seq \in Sent(t) /\ seq \in t.rts
  BY <1>2, RtsFacts
<1> HIDE DEF t
<1>4. Keeps(w, u, late, begun) /\ u.src[f] = t
  BY <1>3, KeepsSource
<1> HIDE DEF u
<1>5. seq \in Nat
  BY <1>2
<1> HIDE DEF s, seq
<1>6. /\ Keeps(u, v, late, begun) /\ u.now \in DOMAIN v.src[f].times
      /\ v.src[f].rts = t.rts /\ v.src[f].highest = t.highest
  BY <1>3, <1>4, KeepsRecord DEF Keeps
<1> HIDE DEF v
<1>7. p \in Messages /\ p.flow = f /\ p.kind = "rts" /\ p.seq = seq /\ p.bytes = Hdr
  BY <1>5, EqdsConstants DEF Messages
<1> HIDE DEF p
<1>8. PacketOK(v, p)
  BY <1>3, <1>6, <1>7 DEF PacketOK, Sent, PacketSize
<1>9. From[f] \in Host
  BY EqdsConstants
<1>10. Keeps(v, x, late, begun)
  BY <1>6, <1>7, <1>8, <1>9, KeepsSendControlPacket DEF Keeps
<1> HIDE DEF x
<1>11. w.now \in DOMAIN x.src[f].times
  BY <1>4, <1>6, <1>10 DEF Keeps, Calls
<1>12. Keeps(x, y, late, begun)
  BY <1>10, <1>11, KeepsStartRTO DEF Keeps
<1> HIDE DEF y
<1>13. Keeps(w, v, late, begun)
  BY <1>4, <1>6, KeepsTwice
<1>14. Keeps(v, y, late, begun)
  BY <1>10, <1>12, KeepsTwice
<1> QED
  BY <1>1, <1>13, <1>14, KeepsTwice, KeepsItself

(* A packet goes from the records to the retransmissions.                  *)
Expired(s, A, B) == [s EXCEPT !.times = Without(@, A), !.tx = Without(@, B)]

LEMMA ExpiredFacts ==
  ASSUME NEW s \in Sources, NEW A, NEW B
  PROVE  LET t == Expired(s, A, B) IN
         /\ t \in Sources /\ t.timer = s.timer /\ t.done = s.done
         /\ DOMAIN t.times = DOMAIN s.times \ A
         /\ t.rts = s.rts /\ t.highest = s.highest /\ t.rtx = s.rtx /\ t.unsent = s.unsent
         /\ \A late, limit : SourceOK(s, late, limit) =>
               SourceOK(t, A \cup late, limit) /\ Grows(s, t)
<1> DEFINE x == Without(s.times, A)
           y == Without(s.tx, B)
           t == [s EXCEPT !.times = x, !.tx = y]
<1>1. s.tx \in Table(Nat, Instants) /\ s.times \in Table(Instants, Nat)
  BY DEF Sources
<1>2. y \in Table(Nat, Instants) /\ DOMAIN y \subseteq DOMAIN s.tx
  <2>1. y \in Table(Nat, Instants)
    BY <1>1, WithoutType
  <2>2. DOMAIN y = DOMAIN s.tx \ B
    BY WithoutFacts
  <2> QED
    BY <2>1, <2>2
<1>3. /\ x \in Table(Instants, Nat) /\ DOMAIN x = DOMAIN s.times \ A
      /\ \A n \in DOMAIN x : x[n] = s.times[n]
  <2>1. x \in Table(Instants, Nat)
    BY <1>1, WithoutType
  <2>2. DOMAIN x = DOMAIN s.times \ A
    BY WithoutFacts
  <2>3. \A n \in DOMAIN x : x[n] = s.times[n]
    BY DEF Without
  <2> QED
    BY <2>1, <2>2, <2>3
<1> HIDE DEF x, y
<1>4. /\ t \in Sources /\ t.rts = s.rts /\ t.rtx = s.rtx /\ t.tx = y /\ t.times = x
      /\ t.timer = s.timer /\ t.highest = s.highest /\ t.unsent = s.unsent /\ t.done = s.done
  BY <1>2, <1>3 DEF Sources
<1> HIDE DEF t
<1>5. ASSUME NEW late, NEW limit, SourceOK(s, late, limit)
      PROVE  SourceOK(t, A \cup late, limit) /\ Grows(s, t)
  <2>1. IsFiniteSet(DOMAIN x)
    BY <1>3, <1>5, FS_Subset DEF SourceOK
  <2> QED
    BY <1>2, <1>3, <1>4, <1>5, <2>1 DEF SourceOK, Grows, Sent, DataSent, Sources
<1> QED
  BY <1>3, <1>4, <1>5 DEF t, x, y, Expired

LEMMA LeavesRtxTimerExpired ==
  ASSUME NEW late, NEW begun, NEW w, WorldOK(w, late, begun), NEW f \in Flow,
         DOMAIN w.src[f].times # {}
  PROVE  Leaves(w, RtxTimerExpired(w, f), late, begun)
<1> DEFINE s == w.src[f]
           first == Least(DOMAIN s.times)
           seq == s.times[first]
           A == {first}
           B == {seq}
           rest == Expired(s, A, B)
           t == RecalculateRTO(rest)
           a == WithSource(w, f, t)
           u == Asserted(a, seq \in DOMAIN s.tx)
           v == QueueForRtx(u, f, seq)
           x == Asserted(v, ~Waiting(v.nic[From[f]]))
           y == SendRtxPacket(x, f)
           z == IF SpendKind(x.src[f]) = "none" THEN CantSend(y, f) ELSE StartSending(y, f)
<1>1. RtxTimerExpired(w, f) =
        IF s.rtx # {} \/ Credit(v.src[f]) <= 0 THEN SendRTS(v, f, first)
        ELSE IF Busy(v, f) THEN JoinQueue(v, f) ELSE z
  BY DEF RtxTimerExpired, Expired, WithSource, Attempt, Granted
<1>2. s \in Sources /\ SourceOK(s, late[f], Limit(f, begun)) /\ DOMAIN s.times \subseteq Nat
  BY TableEntry DEF WorldOK, Worlds, Limit, Sources, Instants
<1>3. first \in DOMAIN s.times
  BY <1>2, LeastFacts
<1>4. seq \in Sent(s)
  BY <1>2, <1>3 DEF SourceOK
<1> HIDE DEF first, seq, s, A, B
<1>5. /\ rest \in Sources /\ rest.done = s.done /\ SourceOK(rest, A \cup late[f], Limit(f, begun))
      /\ Grows(s, rest) /\ rest.rts = s.rts /\ rest.highest = s.highest
  BY <1>2, ExpiredFacts
<1>6. /\ t \in Sources /\ SourceOK(t, late[f], Limit(f, begun)) /\ Grows(rest, t)
      /\ (t.done => rest.done)
  BY <1>5, RecalculateFacts
<1>7. Grows(s, t) /\ (t.done => s.done) /\ seq \in Sent(t)
  BY <1>2, <1>4, <1>5, <1>6 DEF Grows, Sent, Sources, SourceOK
<1> HIDE DEF t
<1>8. Leaves(w, a, late, begun) /\ a.src[f] = t
  BY <1>6, <1>7, LeavesSource DEF s
<1> HIDE DEF a
<1>9. Keeps(a, u, late, begun) /\ u.src = a.src
  BY <1>8, KeepsAsserted DEF Leaves
<1> HIDE DEF u
<1>10. Keeps(u, v, late, begun)
  BY <1>7, <1>8, <1>9, KeepsQueueForRtx DEF Keeps
<1> HIDE DEF v
<1>11. Keeps(v, SendRTS(v, f, first), late, begun)
  BY <1>10, KeepsSendRTS DEF Keeps
<1>12. Keeps(v, JoinQueue(v, f), late, begun)
  BY <1>10, KeepsJoinQueue DEF Keeps
<1>13. Keeps(v, x, late, begun)
  BY <1>10, KeepsAsserted DEF Keeps
<1> HIDE DEF x
<1>14. Keeps(x, y, late, begun)
  BY <1>13, KeepsSendRtxPacket DEF Keeps
<1> HIDE DEF y
<1>15. Keeps(v, z, late, begun)
  BY <1>13, <1>14, KeepsTwice, KeepsAttempt
<1> HIDE DEF z
<1>16. Leaves(w, v, late, begun)
  BY <1>8, <1>9, <1>10, LeavesKeeps
<1> QED
  BY <1>1, <1>11, <1>12, <1>15, <1>16, LeavesKeeps

(* The sequence numbers below the acknowledged one: at least Size of them  *)
(* are not those of RTS packets.                                           *)
LEMMA GrowsTwice ==
  ASSUME NEW r \in Sources, NEW s \in Sources, NEW t \in Sources, Grows(r, s), Grows(s, t)
  PROVE  Grows(r, t)
<1>1. r.highest \in Nat /\ s.highest \in Nat /\ t.highest \in Nat
  BY DEF Sources
<1> QED
  BY <1>1 DEF Grows, Sent

LEMMA CheckFinishedFacts ==
  ASSUME NEW s \in Sources, NEW late, NEW limit, SourceOK(s, late, limit), NEW f \in Flow,
         NEW k \in Sinks, IsFiniteSet(k.rx), NEW cum \in Nat, cum <= k.expected
  PROVE  LET t == CheckFinished(s, f, cum) IN
         /\ t \in Sources /\ SourceOK(t, late, limit) /\ Grows(s, t)
         /\ (t.done => s.done) \/ DoneOK(t, k, f)
<1> DEFINE done == ~s.done /\ cum - Cardinality(s.rts) >= Size[f]
           t == [s EXCEPT !.state = "IDLE", !.done = TRUE]
<1>1. CheckFinished(s, f, cum) = IF done THEN t ELSE s
  BY DEF CheckFinished
<1>2. t \in Sources /\ t.rts = s.rts
  BY DEF Sources
<1>3. SourceOK(t, late, limit) /\ Grows(s, t)
  BY DEF SourceOK, Grows, DataSent, Sent, Sources
<1>4. SourceOK(s, late, limit) /\ Grows(s, s)
  BY DEF SourceOK, Grows, DataSent, Sent, Sources
<1>5. ASSUME done PROVE DoneOK(t, k, f)
  <2> DEFINE low == 0 .. cum - 1
             all == Received(k) \ s.rts
  <2>1. k.expected \in Nat /\ s.highest \in Nat /\ Size[f] \in Nat
    BY EqdsConstants DEF Sinks, Sources
  <2>2. IsFiniteSet(low) /\ Cardinality(low) = cum
    BY FS_Interval
  <2>3. IsFiniteSet(s.rts)
    <3>1. IsFiniteSet(Sent(s))
      BY <2>1, FS_Interval DEF Sent
    <3> QED
      BY <3>1, FS_Subset DEF SourceOK
  <2>4. IsFiniteSet(all)
    <3>1. IsFiniteSet(0 .. k.expected - 1)
      <4>1. k.expected - 1 \in Int
        BY <2>1
      <4> QED
        BY <4>1, FS_Interval
    <3>2. IsFiniteSet(Received(k))
      BY <3>1, FS_Union DEF Received
    <3> QED
      BY <3>2, FS_Subset
  <2>5. low \ s.rts \subseteq all
    BY <2>1 DEF Received
  <2> HIDE DEF low, all
  <2>6. Cardinality(low \ s.rts) = cum - Cardinality(low \cap s.rts)
    BY <2>2, FS_Difference
  <2>7. /\ Cardinality(low \cap s.rts) \in Nat /\ Cardinality(s.rts) \in Nat
        /\ Cardinality(low \cap s.rts) <= Cardinality(s.rts)
    BY <2>3, FS_Subset, FS_CardinalityType
  <2>8. /\ Cardinality(low \ s.rts) <= Cardinality(all)
        /\ Cardinality(low \ s.rts) \in Nat /\ Cardinality(all) \in Nat
    BY <2>4, <2>5, FS_Subset, FS_CardinalityType
  <2>9. Cardinality(all) >= Size[f]
    BY <1>5, <2>1, <2>6, <2>7, <2>8
  <2> QED
    BY <1>2, <2>9 DEF DoneOK, all
<1> QED
  BY <1>1, <1>2, <1>3, <1>4, <1>5

LEMMA AcknowledgedFacts ==
  ASSUME NEW s \in Sources, NEW late, NEW limit, SourceOK(s, late, limit), NEW seqs
  PROVE  LET t == Acknowledged(s, seqs) IN
         /\ t \in Sources /\ SourceOK(t, late, limit) /\ Grows(s, t) /\ (t.done => s.done)
<1> DEFINE at == {s.tx[seq] : seq \in seqs}
           x == Expired(s, at, seqs)
           y == RecalculateRTO(x)
<1>1. Acknowledged(s, seqs) = IF s.timer \in at THEN y ELSE x
  <2>1. [s EXCEPT !.tx = Without(@, seqs), !.times = Without(@, at)] = x
    BY DEF Expired, Sources
  <2> HIDE DEF x, at
  <2> QED
    BY <2>1 DEF Acknowledged, at
<1> HIDE DEF at
<1>2. /\ x \in Sources /\ x.timer = s.timer /\ x.done = s.done
      /\ SourceOK(x, at \cup late, limit) /\ Grows(s, x)
  BY ExpiredFacts
<1> HIDE DEF x
<1>3. y \in Sources /\ SourceOK(y, late, limit) /\ Grows(x, y) /\ (y.done => x.done)
  BY <1>2, RecalculateFacts
<1> HIDE DEF y
<1>4. Grows(s, y)
  BY <1>2, <1>3, GrowsTwice
<1>5. s.timer \notin at => SourceOK(x, late, limit)
  BY <1>2 DEF SourceOK
<1> QED
  BY <1>1, <1>2, <1>3, <1>4, <1>5

(* Acknowledged packets are retransmitted no more.                         *)
LEMMA KeptFacts ==
  ASSUME NEW s \in Sources, NEW late, NEW limit, SourceOK(s, late, limit), NEW cum
  PROVE  LET t == [s EXCEPT !.rtx = {seq \in @ : seq >= cum}] IN
         /\ t \in Sources /\ SourceOK(t, late, limit) /\ Grows(s, t) /\ t.done = s.done
<1> DEFINE x == {seq \in s.rtx : seq >= cum}
           t == [s EXCEPT !.rtx = x]
<1>1. x \subseteq s.rtx
  OBVIOUS
<1> HIDE DEF x
<1>2. /\ t \in Sources /\ t.rts = s.rts /\ t.rtx = x /\ t.tx = s.tx /\ t.times = s.times
      /\ t.timer = s.timer /\ t.highest = s.highest /\ t.unsent = s.unsent /\ t.done = s.done
  BY <1>1 DEF Sources
<1> HIDE DEF t
<1>3. SourceOK(t, late, limit) /\ Grows(s, t)
  BY <1>1, <1>2 DEF SourceOK, Grows, Sent, DataSent, Sources
<1> QED
  BY <1>2, <1>3 DEF t, x

LEMMA LeavesProcessAck ==
  ASSUME NEW late, NEW begun, NEW w, WorldOK(w, late, begun), NEW p \in Messages,
         PacketOK(w, p), p.kind = "ack"
  PROVE  Leaves(w, ProcessAck(w, p.flow, p), late, begun)
<1> DEFINE f == p.flow
           cum == p.cumulative
           s == w.src[f]
           k == w.sink[f]
           seqs == {seq \in DOMAIN s.tx : seq < p.cumulative \/ seq \in p.sacks}
           a == [s EXCEPT !.rtx = {seq \in @ : seq >= p.cumulative}]
           b == Acknowledged(a, seqs)
           t == CheckFinished(b, f, cum)
           x == StopSpeculating(t)
           v == WithSource(w, f, x)
<1>1. ProcessAck(w, f, p) = IF t.done THEN v ELSE SendIfPermitted(v, f)
  BY DEF ProcessAck, WithSource
<1>2. f \in Flow /\ cum \in Nat /\ cum <= k.expected
  BY MessageKinds DEF PacketOK
<1> HIDE DEF f
<1>3. /\ s \in Sources /\ SourceOK(s, late[f], Limit(f, begun))
      /\ k \in Sinks /\ IsFiniteSet(k.rx)
  BY <1>2 DEF WorldOK, Worlds, Limit, SinkOK
<1> HIDE DEF s, k
<1>4. a \in Sources /\ SourceOK(a, late[f], Limit(f, begun)) /\ Grows(s, a) /\ a.done = s.done
  BY <1>3, KeptFacts
<1> HIDE DEF a, seqs, cum
<1>5. b \in Sources /\ SourceOK(b, late[f], Limit(f, begun)) /\ Grows(a, b) /\ (b.done => a.done)
  BY <1>4, AcknowledgedFacts
<1> HIDE DEF b
<1>6. /\ t \in Sources /\ SourceOK(t, late[f], Limit(f, begun)) /\ Grows(b, t)
      /\ (t.done => b.done) \/ DoneOK(t, k, f)
  BY <1>2, <1>3, <1>5, CheckFinishedFacts
<1> HIDE DEF t
<1>7. x \in Sources /\ Alike(t, x)
  BY <1>6, StopFacts
<1> HIDE DEF x
<1>8. SourceOK(x, late[f], Limit(f, begun)) /\ Grows(t, x) /\ (x.done => t.done)
  BY <1>6, <1>7, AlikeOK
<1>9. Grows(s, x)
  <2>1. Grows(s, b)
    BY <1>3, <1>4, <1>5, GrowsTwice
  <2>2. Grows(b, x)
    BY <1>5, <1>6, <1>7, <1>8, GrowsTwice
  <2> QED
    BY <1>3, <1>5, <1>7, <2>1, <2>2, GrowsTwice
<1>10. (x.done => s.done) \/ DoneOK(x, k, f)
  BY <1>4, <1>5, <1>6, <1>7 DEF Alike, DoneOK
<1>11. Leaves(w, v, late, begun)
  BY <1>2, <1>7, <1>8, <1>9, <1>10, LeavesSource DEF s, k
<1> HIDE DEF v
<1>12. Keeps(v, SendIfPermitted(v, f), late, begun)
  BY <1>2, <1>11, KeepsSendIfPermitted DEF Leaves
<1>13. Leaves(w, ProcessAck(w, f, p), late, begun)
  BY <1>1, <1>11, <1>12, LeavesKeeps
<1> QED
  BY <1>13 DEF f

(* The packet a NACK is about waits for retransmission, and the timer for  *)
(* the earliest of the others.                                             *)
LEMMA LeavesProcessNack ==
  ASSUME NEW begun, NEW w, WorldOK(w, NoneLate, begun), NEW p \in Messages, p.kind = "nack"
  PROVE  Leaves(w, ProcessNack(w, p.flow, p), NoneLate, begun)
<1> DEFINE f == p.flow
           seq == p.seq
           s == w.src[f]
           at == s.tx[seq]
           A == {at}
           B == {seq}
           rest == Expired(s, A, B)
           a == WithSource(w, f, rest)
           v == QueueForRtx(a, f, seq)
           r == RecalculateRTO(v.src[f])
           b == IF at = v.src[f].timer THEN WithSource(v, f, r) ELSE v
           x == StopSpeculating(b.src[f])
           c == WithSource(b, f, x)
           late == [g \in Flow |-> IF g = f THEN A ELSE {}]
<1>1. ProcessNack(w, f, p) = IF seq \notin DOMAIN s.tx THEN Asserted(w, FALSE)
                             ELSE SendIfPermitted(c, f)
  <2>1. [s EXCEPT !.tx = Without(@, B), !.times = Without(@, A)] = rest
    <3>1. s \in Sources
      BY MessageKinds DEF WorldOK, Worlds
    <3> HIDE DEF s, A, B
    <3> QED
      BY <3>1 DEF Expired, Sources
  <2> HIDE DEF rest
  <2>2. a = [w EXCEPT !.src[f] = [s EXCEPT !.tx = Without(@, B), !.times = Without(@, A)]]
    BY <2>1 DEF WithSource
  <2> HIDE DEF a
  <2> QED
    BY <2>2 DEF ProcessNack, WithSource
<1>2. Leaves(w, Asserted(w, FALSE), NoneLate, begun)
  <2>1. Keeps(w, Asserted(w, FALSE), NoneLate, begun)
    BY KeepsAsserted
  <2> QED
    BY <2>1 DEF Leaves, Keeps, Calls
<1>3. ASSUME seq \in DOMAIN s.tx
      PROVE  Leaves(w, SendIfPermitted(c, f), NoneLate, begun)
  <2>1. f \in Flow
    BY MessageKinds
  <2>2. s \in Sources /\ SourceOK(s, {}, Limit(f, begun)) /\ seq \in Sent(s)
    BY <1>3, <2>1 DEF WorldOK, Worlds, Limit, NoneLate, SourceOK
  <2> HIDE DEF f, s, seq, at, A, B
  <2>3. /\ rest \in Sources /\ rest.done = s.done /\ rest.highest = s.highest
        /\ SourceOK(rest, A \cup {}, Limit(f, begun)) /\ Grows(s, rest)
    BY <2>2, ExpiredFacts
  <2> HIDE DEF rest
  <2>4. /\ late[f] = A \cup {} /\ NoneLate[f] = {}
        /\ \A g \in Flow : g # f => late[g] = NoneLate[g]
    BY <2>1 DEF NoneLate
  <2> HIDE DEF late
  <2>5. Leaves(w, a, late, begun) /\ a.src[f] = rest
    BY <2>1, <2>3, <2>4, LeavesSource DEF s
  <2> HIDE DEF a
  <2>6. seq \in Sent(a.src[f])
    BY <2>2, <2>3, <2>5 DEF Sent
  <2>7. Keeps(a, v, late, begun)
    BY <2>1, <2>5, <2>6, KeepsQueueForRtx DEF Leaves
  <2>8. Leaves(w, v, late, begun)
    BY <2>5, <2>7, LeavesKeeps
  <2> HIDE DEF v
  <2>9. Leaves(v, b, NoneLate, begun)
    <3>1. v.src[f] \in Sources /\ SourceOK(v.src[f], A, Limit(f, begun))
      BY <2>1, <2>4, <2>8 DEF Leaves, WorldOK, Worlds, Limit
    <3>2. CASE at = v.src[f].timer
      <4>1. /\ r \in Sources /\ SourceOK(r, {}, Limit(f, begun)) /\ Grows(v.src[f], r)
            /\ (r.done => v.src[f].done)
        BY <3>1, RecalculateFacts
      <4> HIDE DEF r
      <4>2. WorldOK(v, late, begun)
        BY <2>8 DEF Leaves
      <4>3. \A g \in Flow : g # f => NoneLate[g] = late[g]
        BY <2>4
      <4>4. SourceOK(r, NoneLate[f], Limit(f, begun))
        BY <2>4, <4>1
      <4>5. Leaves(v, WithSource(v, f, r), NoneLate, begun)
        BY <2>1, <4>1, <4>2, <4>3, <4>4, LeavesSource
      <4> QED
        BY <3>2, <4>5
    <3>3. CASE at # v.src[f].timer
      <4>1. SourceOK(v.src[f], {}, Limit(f, begun))
        BY <3>1, <3>3 DEF SourceOK, A
      <4>2. \A g \in Flow : SourceOK(v.src[g], NoneLate[g], Limit(g, begun))
        BY <2>1, <2>4, <2>8, <4>1 DEF Leaves, WorldOK, Limit
      <4>3. WorldOK(v, NoneLate, begun)
        BY <2>8, <4>2 DEF Leaves, WorldOK, Limit
      <4> QED
        BY <3>3, <4>3 DEF Leaves
    <3> QED
      BY <3>2, <3>3
  <2> HIDE DEF b
  <2>10. Keeps(b, c, NoneLate, begun)
    <3>1. b.src[f] \in Sources
      BY <2>1, <2>9 DEF Leaves, WorldOK, Worlds
    <3>2. x \in Sources /\ Alike(b.src[f], x)
      BY <3>1, StopFacts
    <3> HIDE DEF x
    <3> QED
      BY <2>1, <2>9, <3>2, KeepsAlike DEF Leaves
  <2> HIDE DEF c
  <2>11. Keeps(c, SendIfPermitted(c, f), NoneLate, begun)
    BY <2>1, <2>10, KeepsSendIfPermitted DEF Keeps
  <2>12. Leaves(w, b, NoneLate, begun)
    BY <2>8, <2>9 DEF Leaves
  <2> QED
    BY <2>10, <2>11, <2>12, LeavesKeeps
<1>4. Leaves(w, ProcessNack(w, f, p), NoneLate, begun)
  BY <1>1, <1>2, <1>3
<1> QED
  BY <1>4 DEF f

LEMMA LeavesProcessPull ==
  ASSUME NEW late, NEW begun, NEW w, WorldOK(w, late, begun), NEW p \in Messages, p.kind = "pull"
  PROVE  Leaves(w, ProcessPull(w, p.flow, p), late, begun)
<1> DEFINE f == p.flow
           s == w.src[f]
           more == s.creditPull + Unquantize(p.no - s.pull)
           t == IF p.no > s.pull THEN [s EXCEPT !.creditPull = more, !.pull = p.no] ELSE s
           x == StopSpeculating(t)
           v == WithSource(w, f, x)
<1>1. ProcessPull(w, f, p) = SendIfPermitted(v, f)
  BY DEF ProcessPull, WithSource
<1>2. f \in Flow /\ p.no \in Int
  BY MessageKinds
<1>3. s \in Sources
  BY <1>2 DEF WorldOK, Worlds
<1>4. more \in Int
  <2>1. s.pull \in Int /\ s.creditPull \in Int /\ p.no \in Int /\ Quantum \in Int
    BY <1>2, <1>3, EqdsConstants DEF Sources
  <2> QED
    BY <2>1 DEF Unquantize
<1> HIDE DEF s, more
<1>5. t \in Sources /\ Alike(s, t)
  BY <1>2, <1>3, <1>4 DEF Sources, Alike
<1> HIDE DEF t
<1>6. x \in Sources /\ Alike(t, x)
  BY <1>5, StopFacts
<1> HIDE DEF x
<1>7. Alike(s, x)
  BY <1>5, <1>6 DEF Alike
<1>8. Keeps(w, v, late, begun)
  BY <1>2, <1>6, <1>7, KeepsAlike DEF s
<1> HIDE DEF v, f
<1>9. Keeps(v, SendIfPermitted(v, f), late, begun)
  BY <1>2, <1>8, KeepsSendIfPermitted DEF Keeps
<1>10. Leaves(w, ProcessPull(w, f, p), late, begun)
  BY <1>1, <1>8, <1>9, KeepsTwice DEF Leaves, Keeps, Calls
<1> QED
  BY <1>10 DEF f
-----------------------------------------------------------------------------
(* The pacer's lists.                                                      *)
LEMMA DistinctAppend ==
  ASSUME NEW S, NEW s \in Seq(S), Distinct(s), NEW x \in S, x \notin Range(s)
  PROVE  Distinct(Append(s, x))
<1> DEFINE t == Append(s, x)
<1>1. DOMAIN t = 1 .. Len(s) + 1 /\ DOMAIN s = 1 .. Len(s) /\ Len(s) \in Nat
  OBVIOUS
<1>2. \A i \in DOMAIN t : t[i] = IF i = Len(s) + 1 THEN x ELSE s[i]
  OBVIOUS
<1>3. \A i \in DOMAIN s : s[i] # x
  BY DEF Range
<1> HIDE DEF t
<1> QED
  BY <1>1, <1>2, <1>3 DEF Distinct, t

LEMMA DistinctTail ==
  ASSUME NEW S, NEW s \in Seq(S), Distinct(s), s # <<>>
  PROVE  /\ Distinct(Tail(s)) /\ Tail(s) \in Seq(S) /\ Head(s) \in S
         /\ Head(s) \in Range(s) /\ Range(Tail(s)) = Range(s) \ {Head(s)}
<1> DEFINE t == Tail(s)
           x == Head(s)
<1>1. /\ Len(s) \in Nat \ {0} /\ DOMAIN s = 1 .. Len(s) /\ DOMAIN t = 1 .. Len(s) - 1
      /\ t \in Seq(S) /\ x \in S
  OBVIOUS
<1>2. x = s[1] /\ \A i \in DOMAIN t : t[i] = s[i + 1]
  OBVIOUS
<1> HIDE DEF t, x
<1>3. Distinct(t)
  BY <1>1, <1>2 DEF Distinct
<1>4. Range(t) = Range(s) \ {x}
  <2>1. ASSUME NEW i \in DOMAIN t PROVE t[i] \in Range(s) /\ t[i] # x
    <3>1. i + 1 \in DOMAIN s /\ 1 \in DOMAIN s /\ i + 1 # 1
      BY <1>1
    <3> QED
      BY <1>2, <3>1 DEF Distinct, Range
  <2>2. ASSUME NEW i \in DOMAIN s, s[i] # x PROVE s[i] \in Range(t)
    <3>1. i - 1 \in DOMAIN t /\ (i - 1) + 1 = i
      BY <1>1, <1>2, <2>2
    <3>2. t[i - 1] = s[i]
      BY <1>2, <3>1
    <3> QED
      BY <3>1, <3>2 DEF Range
  <2> QED
    BY <2>1, <2>2 DEF Range
<1>5. x \in Range(s)
  BY <1>1, <1>2 DEF Range
<1> QED
  BY <1>1, <1>3, <1>4, <1>5 DEF t, x

(* A sink and the pacer of its host change, and agree again.               *)
LEMMA ListsChange ==
  ASSUME NEW snk \in [Flow -> Sinks], NEW pcr \in [Host -> Pacers], Listed(snk, pcr),
         NEW f \in Flow, NEW k, NEW q,
         \A h \in Host : h # To[f] => Awake(pcr[h]),
         Tidy(q, To[f]), Awake(q), Agree(k, q, f),
         \A g \in Flow : g # f =>
            /\ g \in Range(q.active) <=> g \in Range(pcr[To[f]].active)
            /\ g \in Range(q.rtx) <=> g \in Range(pcr[To[f]].rtx)
  PROVE  ListsOK([snk EXCEPT ![f] = k], [pcr EXCEPT ![To[f]] = q])
<1> DEFINE s == [snk EXCEPT ![f] = k]
           p == [pcr EXCEPT ![To[f]] = q]
<1>1. To[f] \in Host /\ \A g \in Flow : To[g] \in Host
  BY EqdsConstants
<1>2. s[f] = k /\ \A g \in Flow : g # f => s[g] = snk[g]
  OBVIOUS
<1>3. p[To[f]] = q /\ \A h \in Host : h # To[f] => p[h] = pcr[h]
  BY <1>1
<1> HIDE DEF s, p
<1>4. \A h \in Host : Tidy(p[h], h) /\ Awake(p[h])
  BY <1>1, <1>3 DEF Listed
<1>5. ASSUME NEW g \in Flow PROVE Agree(s[g], p[To[g]], g)
  <2>1. CASE g = f
    BY <1>2, <1>3, <2>1
  <2>2. CASE g # f /\ To[g] = To[f]
    BY <1>2, <1>3, <2>2 DEF Listed, Agree
  <2>3. CASE g # f /\ To[g] # To[f]
    BY <1>1, <1>2, <1>3, <2>3 DEF Listed
  <2> QED
    BY <2>1, <2>2, <2>3
<1> QED
  BY <1>4, <1>5 DEF ListsOK, Listed, s, p

-----------------------------------------------------------------------------
(* The sink's records.                                                     *)
LEMMA AcceptFacts ==
  ASSUME NEW k \in Sinks, IsFiniteSet(k.rx), NEW seq \in Nat, ~Has(k, seq)
  PROVE  LET t == Accept(k, seq) IN
         /\ t \in Sinks /\ IsFiniteSet(t.rx) /\ k.expected <= t.expected
         /\ Received(t) = Received(k) \cup {seq} /\ seq \notin Received(k)
         /\ t.received = k.received /\ t.retx = k.retx /\ t.inPull = k.inPull
<1> DEFINE size == Cardinality(k.rx)
           all == seq + 1 .. seq + 1 + size
           S == {n \in all : n \notin k.rx}
           next == Least(S)
           above == {n \in k.rx : n > next}
           filled == [k EXCEPT !.expected = next, !.rx = above]
           more == k.rx \cup {seq}
           kept == [k EXCEPT !.rx = more]
<1>1. k.expected \in Nat /\ k.rx \subseteq Nat /\ size \in Nat
  BY FS_CardinalityType DEF Sinks
<1>2. ~(seq < k.expected) /\ seq \notin k.rx
  BY DEF Has
<1>3. S # {} /\ S \subseteq Nat
  <2>1. ASSUME S = {} PROVE FALSE
    <3>1. all \subseteq k.rx
      BY <2>1
    <3>2. Cardinality(all) = size + 1
      <4>1. seq + 1 \in Int /\ seq + 1 + size \in Int /\ ~(seq + 1 > seq + 1 + size)
        BY <1>1
      <4>2. (seq + 1 + size) - (seq + 1) + 1 = size + 1
        BY <1>1
      <4> QED
        BY <4>1, <4>2, FS_Interval
    <3> HIDE DEF all
    <3>3. Cardinality(all) <= size
      BY <3>1, FS_Subset
    <3> QED
      BY <1>1, <3>2, <3>3
  <2>2. S \subseteq Nat
    BY <1>1
  <2> QED
    BY <2>1, <2>2
<1> HIDE DEF S
<1>4. next \in S /\ \A n \in S : next <= n
  BY <1>3, LeastFacts
<1> HIDE DEF next
<1>5. next \in Nat /\ seq < next /\ next \notin k.rx
  BY <1>1, <1>4 DEF S
<1>6. \A n \in Nat : seq < n /\ n < next => n \in k.rx
  <2>1. next <= seq + 1 + size
    BY <1>1, <1>4 DEF S
  <2> HIDE DEF size
  <2> QED
    BY <1>1, <1>4, <1>5, <2>1 DEF S
<1> HIDE DEF size
<1>7. Accept(k, seq) = IF seq = k.expected THEN filled ELSE kept
  BY DEF Accept, next, S, size
<1>8. above \subseteq k.rx /\ IsFiniteSet(above) /\ IsFiniteSet(more) /\ more \subseteq Nat
  BY <1>1, FS_Subset, FS_AddElement
<1>9. /\ filled \in Sinks /\ filled.expected = next /\ filled.rx = above
      /\ filled.received = k.received /\ filled.retx = k.retx /\ filled.inPull = k.inPull
  <2> HIDE DEF above
  <2> QED
    BY <1>1, <1>5, <1>8 DEF Sinks
<1>10. /\ kept \in Sinks /\ kept.expected = k.expected /\ kept.rx = more
       /\ kept.received = k.received /\ kept.retx = k.retx /\ kept.inPull = k.inPull
  <2> HIDE DEF more
  <2> QED
    BY <1>8 DEF Sinks
<1> HIDE DEF filled, kept
<1>11. seq \notin Received(k)
  BY <1>1, <1>2 DEF Received
<1>12. Received(kept) = Received(k) \cup {seq}
  BY <1>10 DEF Received
<1>13. seq = k.expected => Received(filled) = Received(k) \cup {seq}
  BY <1>1, <1>5, <1>6, <1>9 DEF Received
<1> QED
  BY <1>1, <1>5, <1>7, <1>8, <1>9, <1>10, <1>11, <1>12, <1>13

(* A packet counted: its bytes when it carries data, none when it is an    *)
(* RTS.  What was received stays received.                                 *)
LEMMA CountedFacts ==
  ASSUME NEW s \in Sources, NEW k \in Sinks, SinkOK(s, k), NEW seq \in Sent(s), ~Has(k, seq),
         NEW c \in Sinks, c.rx = k.rx, c.expected = k.expected,
         c.received = k.received + PacketSize(s, seq) - Hdr
  PROVE  LET t == Accept(c, seq) IN
         /\ t \in Sinks /\ SinkOK(s, t) /\ k.expected <= t.expected
         /\ t.retx = c.retx /\ t.inPull = c.inPull
         /\ \A f \in Flow : DoneOK(s, k, f) => DoneOK(s, t, f)
<1> DEFINE t == Accept(c, seq)
           data == Received(k) \ s.rts
           more == Received(t) \ s.rts
<1>1. seq \in Nat /\ IsFiniteSet(c.rx) /\ ~Has(c, seq) /\ Received(c) = Received(k)
  BY DEF SinkOK, Sent, Sources, Has, Received
<1>2. /\ t \in Sinks /\ IsFiniteSet(t.rx) /\ c.expected <= t.expected
      /\ Received(t) = Received(c) \cup {seq} /\ seq \notin Received(c)
      /\ t.received = c.received /\ t.retx = c.retx /\ t.inPull = c.inPull
  BY <1>1, AcceptFacts
<1> HIDE DEF t
<1>3. IsFiniteSet(data)
  <2>1. IsFiniteSet(0 .. k.expected - 1)
    <3>1. k.expected - 1 \in Int
      BY DEF Sinks
    <3> QED
      BY <3>1, FS_Interval
  <2>2. IsFiniteSet(Received(k))
    BY <2>1, FS_Union DEF Received, SinkOK
  <2> QED
    BY <2>2, FS_Subset
<1>4. more = IF seq \in s.rts THEN data ELSE data \cup {seq}
  BY <1>1, <1>2
<1>5. seq \notin data
  BY <1>1, <1>2
<1> HIDE DEF data, more
<1>6. /\ Cardinality(data) \in Nat
      /\ Cardinality(more) = IF seq \in s.rts THEN Cardinality(data) ELSE Cardinality(data) + 1
  BY <1>3, <1>4, <1>5, FS_CardinalityType, FS_AddElement
<1>7. t.received = Mss * Cardinality(more)
  <2> DEFINE n == Cardinality(data)
  <2>1. n \in Nat /\ Mss \in Nat /\ Hdr \in Nat
    BY <1>6, EqdsConstants
  <2>2. t.received = Mss * n + PacketSize(s, seq) - Hdr
    BY <1>2 DEF SinkOK, data
  <2>3. Cardinality(more) = IF seq \in s.rts THEN n ELSE n + 1
    BY <1>6
  <2> HIDE DEF n
  <2>4. Mss * (n + 1) = Mss * n + Mss /\ Mss * n \in Nat
    BY <2>1
  <2> QED
    BY <2>1, <2>2, <2>3, <2>4 DEF PacketSize, Mtu
<1>8. SinkOK(s, t)
  BY <1>1, <1>2, <1>7 DEF SinkOK, more
<1>9. Cardinality(data) <= Cardinality(more) /\ Cardinality(more) \in Nat
  BY <1>6
<1>10. \A f \in Flow : DoneOK(s, k, f) => DoneOK(s, t, f)
  BY <1>6, <1>9, EqdsConstants DEF DoneOK, data, more
<1> QED
  BY <1>2, <1>8, <1>10 DEF t

(* Sinks that have received the same.                                      *)
Like(k, j) == j.expected = k.expected /\ j.rx = k.rx /\ j.received = k.received

LEMMA LikeOK ==
  ASSUME NEW k, NEW j, Like(k, j), NEW s
  PROVE  /\ SinkOK(s, k) => SinkOK(s, j)
         /\ \A f \in Flow : DoneOK(s, k, f) => DoneOK(s, j, f)
BY DEF Like, SinkOK, Received, DoneOK

LEMMA WorldSink ==
  ASSUME NEW late, NEW begun, NEW w, WorldOK(w, late, begun), NEW f \in Flow
  PROVE  /\ w.sink[f] \in Sinks /\ w.src[f] \in Sources /\ SinkOK(w.src[f], w.sink[f])
         /\ DoneOK(w.src[f], w.sink[f], f) /\ w.sink[f].expected \in Nat
         /\ w.pacer[To[f]] \in Pacers /\ To[f] \in Host /\ w.pacer \in [Host -> Pacers]
         /\ w.sink \in [Flow -> Sinks] /\ w \in Worlds
BY EqdsConstants DEF WorldOK, Worlds, Sinks

LEMMA LikeSink ==
  ASSUME NEW late, NEW begun, NEW w, WorldOK(w, late, begun), NEW f \in Flow, NEW k \in Sinks,
         Like(w.sink[f], k)
  PROVE  WorldOK(WithSink(w, f, k), late, begun)
<1>1. /\ SinkOK(w.src[f], w.sink[f]) /\ DoneOK(w.src[f], w.sink[f], f)
      /\ w.sink[f].expected \in Nat
  BY WorldSink
<1>2. SinkOK(w.src[f], k) /\ DoneOK(w.src[f], k, f)
  BY <1>1, LikeOK
<1>3. w.sink[f].expected <= k.expected
  BY <1>1 DEF Like
<1> QED
  BY <1>2, <1>3, SinkChanges

(* The requests of a sink.                                                 *)
LEMMA WakeFacts ==
  ASSUME NEW p \in Pacers, Awake(p)
  PROVE  /\ Wake(p) \in Pacers /\ Awake(Wake(p))
         /\ Wake(p).active = p.active /\ Wake(p).rtx = p.rtx /\ Wake(p).idle = p.idle
<1>1. CASE p.running
  BY <1>1 DEF Wake
<1>2. CASE ~p.running
  <2> DEFINE n == p.events + 1
             q == [p EXCEPT !.events = n, !.running = TRUE]
  <2>1. Wake(p) = q
    BY <1>2 DEF Wake
  <2>2. n = 1
    BY <1>2 DEF Awake
  <2> HIDE DEF n
  <2>3. /\ q \in Pacers /\ q.active = p.active /\ q.rtx = p.rtx /\ q.idle = p.idle
        /\ q.running = TRUE /\ q.events = n
    BY <2>2 DEF Pacers
  <2> HIDE DEF q
  <2> QED
    BY <2>1, <2>2, <2>3 DEF Awake
<1> QED
  BY <1>1, <1>2

LEMMA PacerLists ==
  ASSUME NEW p \in Pacers
  PROVE  /\ p.active \in Seq(Flow) /\ p.rtx \in Seq(Flow) /\ p.idle \in Seq(Flow)
         /\ p.running \in BOOLEAN /\ p.events \in Nat
BY DEF Pacers

AskedToPull(p, f) == Wake([p EXCEPT !.active = Append(@, f)])
AskedToRetransmit(p, f) == Wake([p EXCEPT !.rtx = Append(@, f)])

LEMMA AskedToPullFacts ==
  ASSUME NEW p \in Pacers, Awake(p), NEW f \in Flow, Tidy(p, To[f]), f \notin Range(p.active)
  PROVE  LET q == AskedToPull(p, f) IN
         /\ q \in Pacers /\ Awake(q) /\ Tidy(q, To[f]) /\ q.rtx = p.rtx
         /\ Range(q.active) = Range(p.active) \cup {f}
<1> DEFINE list == Append(p.active, f)
           q == [p EXCEPT !.active = list]
<1>1. p.active \in Seq(Flow)
  BY PacerLists
<1>2. list \in Seq(Flow) /\ Range(list) = Range(p.active) \cup {f} /\ Distinct(list)
  BY <1>1, SequenceFacts, DistinctAppend DEF Tidy
<1> HIDE DEF list
<1>3. /\ q \in Pacers /\ q.active = list /\ q.rtx = p.rtx /\ q.idle = p.idle
      /\ q.running = p.running /\ q.events = p.events
  BY <1>2 DEF Pacers
<1>4. AskedToPull(p, f) = Wake(q)
  BY DEF AskedToPull, list
<1> HIDE DEF q
<1>5. Awake(q)
  BY <1>3 DEF Awake
<1>6. /\ Wake(q) \in Pacers /\ Awake(Wake(q)) /\ Wake(q).active = q.active
      /\ Wake(q).rtx = q.rtx /\ Wake(q).idle = q.idle
  BY <1>3, <1>5, WakeFacts
<1>7. Tidy(Wake(q), To[f])
  BY <1>2, <1>3, <1>6 DEF Tidy
<1> QED
  BY <1>2, <1>3, <1>4, <1>6, <1>7

LEMMA AskedToRetransmitFacts ==
  ASSUME NEW p \in Pacers, Awake(p), NEW f \in Flow, Tidy(p, To[f]), f \notin Range(p.rtx)
  PROVE  LET q == AskedToRetransmit(p, f) IN
         /\ q \in Pacers /\ Awake(q) /\ Tidy(q, To[f]) /\ q.active = p.active
         /\ Range(q.rtx) = Range(p.rtx) \cup {f}
<1> DEFINE list == Append(p.rtx, f)
           q == [p EXCEPT !.rtx = list]
<1>1. p.rtx \in Seq(Flow)
  BY PacerLists
<1>2. list \in Seq(Flow) /\ Range(list) = Range(p.rtx) \cup {f} /\ Distinct(list)
  BY <1>1, SequenceFacts, DistinctAppend DEF Tidy
<1> HIDE DEF list
<1>3. /\ q \in Pacers /\ q.rtx = list /\ q.active = p.active /\ q.idle = p.idle
      /\ q.running = p.running /\ q.events = p.events
  BY <1>2 DEF Pacers
<1>4. AskedToRetransmit(p, f) = Wake(q)
  BY DEF AskedToRetransmit, list
<1> HIDE DEF q
<1>5. Awake(q)
  BY <1>3 DEF Awake
<1>6. /\ Wake(q) \in Pacers /\ Awake(Wake(q)) /\ Wake(q).active = q.active
      /\ Wake(q).rtx = q.rtx /\ Wake(q).idle = q.idle
  BY <1>3, <1>5, WakeFacts
<1>7. Tidy(Wake(q), To[f])
  BY <1>2, <1>3, <1>6 DEF Tidy
<1> QED
  BY <1>2, <1>3, <1>4, <1>6, <1>7

(* Worlds in which sinks and pacers agree as well.                         *)
Full(w, begun) == WorldOK(w, NoneLate, begun) /\ ListsOK(w.sink, w.pacer)

LEMMA FullCalls ==
  ASSUME NEW began, NEW w, NEW v, ListsOK(w.sink, w.pacer),
         Leaves(w, v, NoneLate, began)
  PROVE  Full(v, began)
BY DEF Full, Leaves

LEMMA FullPacer ==
  ASSUME NEW begun, NEW w, Full(w, begun), NEW f \in Flow
  PROVE  LET p == w.pacer[To[f]] IN
         /\ p \in Pacers /\ Awake(p) /\ Tidy(p, To[f]) /\ Agree(w.sink[f], p, f)
         /\ To[f] \in Host /\ Listed(w.sink, w.pacer)
         /\ \A h \in Host : Awake(w.pacer[h])
BY WorldSink DEF Full, ListsOK, Listed

LEMMA ListsSame ==
  ASSUME NEW snk \in [Flow -> Sinks], NEW pcr, ListsOK(snk, pcr), NEW f \in Flow, NEW k,
         k.inPull = snk[f].inPull, k.retx > 0 <=> snk[f].retx > 0
  PROVE  ListsOK([snk EXCEPT ![f] = k], pcr)
BY DEF ListsOK, Listed, Agree

LEMMA FullSink ==
  ASSUME NEW begun, NEW w, Full(w, begun), NEW f \in Flow, NEW k \in Sinks,
         w.sink[f].expected <= k.expected, SinkOK(w.src[f], k), DoneOK(w.src[f], k, f),
         k.inPull = w.sink[f].inPull, k.retx > 0 <=> w.sink[f].retx > 0
  PROVE  LET v == WithSink(w, f, k) IN
         Full(v, begun) /\ v.src = w.src /\ v.sink[f] = k /\ v.pacer = w.pacer
<1> DEFINE v == WithSink(w, f, k)
<1>1. w \in Worlds /\ w.sink \in [Flow -> Sinks] /\ WorldOK(w, NoneLate, begun)
  BY WorldSink DEF Full
<1>2. v.src = w.src /\ v.sink[f] = k /\ v.pacer = w.pacer
  BY <1>1, SinkField
<1>3. v.sink = [w.sink EXCEPT ![f] = k]
  BY <1>1 DEF WithSink, Worlds
<1>4. WorldOK(v, NoneLate, begun)
  BY <1>1, SinkChanges
<1> HIDE DEF v
<1>5. ListsOK(v.sink, v.pacer)
  BY <1>1, <1>2, <1>3, ListsSame DEF Full
<1> QED
  BY <1>2, <1>4, <1>5 DEF Full, v

LEMMA RequestPullFacts ==
  ASSUME NEW late, NEW begun, NEW w, WorldOK(w, late, begun), NEW f \in Flow,
         AskedToPull(w.pacer[To[f]], f) \in Pacers
  PROVE  LET v == RequestPull(w, f) IN
         /\ WorldOK(v, late, begun) /\ v.src = w.src /\ v.sink = w.sink
         /\ v.pacer = [w.pacer EXCEPT ![To[f]] = AskedToPull(w.pacer[To[f]], f)]
<1> DEFINE q == AskedToPull(w.pacer[To[f]], f)
           u == WithPacer(w, To[f], q)
           claim == w.sink[f].inPull /\ ~Contains(w.pacer[To[f]].active, f)
           v == Asserted(u, claim)
<1>1. RequestPull(w, f) = v
  BY DEF RequestPull, WithPacer, AskedToPull
<1>2. w \in Worlds /\ To[f] \in Host
  BY WorldSink
<1> HIDE DEF q, claim
<1>3. q \in Pacers
  BY DEF q
<1>4. WorldOK(u, late, begun)
  BY <1>2, <1>3, PacerOK
<1>5. u.src = w.src /\ u.sink = w.sink
  BY <1>2, PacerField
<1>6. u.pacer = [w.pacer EXCEPT ![To[f]] = q]
  BY <1>2 DEF WithPacer, Worlds
<1> HIDE DEF u
<1>7. WorldOK(v, late, begun)
  BY <1>4, AssertedOK
<1>8. u \in Worlds
  BY <1>4 DEF WorldOK
<1>9. v.src = u.src /\ v.sink = u.sink /\ v.pacer = u.pacer
  BY <1>8, AssertedField
<1> QED
  BY <1>1, <1>5, <1>6, <1>7, <1>9 DEF q

LEMMA RequestRetransmitFacts ==
  ASSUME NEW late, NEW begun, NEW w, WorldOK(w, late, begun), NEW f \in Flow,
         AskedToRetransmit(w.pacer[To[f]], f) \in Pacers
  PROVE  LET v == RequestRetransmit(w, f) IN
         /\ WorldOK(v, late, begun) /\ v.src = w.src /\ v.sink = w.sink
         /\ v.pacer = [w.pacer EXCEPT ![To[f]] = AskedToRetransmit(w.pacer[To[f]], f)]
<1> DEFINE q == AskedToRetransmit(w.pacer[To[f]], f)
           u == WithPacer(w, To[f], q)
           claim == ~Contains(w.pacer[To[f]].rtx, f)
           v == Asserted(u, claim)
<1>1. RequestRetransmit(w, f) = v
  BY DEF RequestRetransmit, WithPacer, AskedToRetransmit
<1>2. w \in Worlds /\ To[f] \in Host
  BY WorldSink
<1> HIDE DEF q, claim
<1>3. q \in Pacers
  BY DEF q
<1>4. WorldOK(u, late, begun)
  BY <1>2, <1>3, PacerOK
<1>5. u.src = w.src /\ u.sink = w.sink
  BY <1>2, PacerField
<1>6. u.pacer = [w.pacer EXCEPT ![To[f]] = q]
  BY <1>2 DEF WithPacer, Worlds
<1> HIDE DEF u
<1>7. WorldOK(v, late, begun)
  BY <1>4, AssertedOK
<1>8. u \in Worlds
  BY <1>4 DEF WorldOK
<1>9. v.src = u.src /\ v.sink = u.sink /\ v.pacer = u.pacer
  BY <1>8, AssertedField
<1> QED
  BY <1>1, <1>5, <1>6, <1>7, <1>9 DEF q

LEMMA HandleFacts ==
  ASSUME NEW begun, NEW w, Full(w, begun), NEW f \in Flow, NEW target \in Int
  PROVE  LET v == HandlePullTarget(w, f, target) IN
         /\ Full(v, begun) /\ v.src = w.src
         /\ Like(w.sink[f], v.sink[f]) /\ v.sink[f].retx = w.sink[f].retx
<1> DEFINE k == w.sink[f]
           j == [k EXCEPT !.highest = target]
           v == WithSink(w, f, j)
           i == [v.sink[f] EXCEPT !.inPull = TRUE]
           u == WithSink(v, f, i)
           x == RequestPull(u, f)
<1>1. HandlePullTarget(w, f, target) =
        IF target <= k.highest THEN w ELSE IF k.retx = 0 /\ ~k.inPull THEN x ELSE v
  BY DEF HandlePullTarget, WithSink
<1>2. k \in Sinks /\ WorldOK(w, NoneLate, begun)
  BY WorldSink DEF Full
<1>3. /\ SinkOK(w.src[f], k) /\ DoneOK(w.src[f], k, f) /\ k.expected \in Nat /\ k.inPull \in BOOLEAN
  BY <1>2, WorldSink DEF Sinks
<1>4. Like(k, k)
  BY DEF Like
<1> HIDE DEF k
<1>5. j \in Sinks /\ Like(k, j) /\ j.retx = k.retx /\ j.inPull = k.inPull
  BY <1>2 DEF Sinks, Like
<1> HIDE DEF j
<1>6. Full(v, begun) /\ v.src = w.src /\ v.sink[f] = j /\ v.pacer = w.pacer
  <2>1. SinkOK(w.src[f], j) /\ DoneOK(w.src[f], j, f)
    BY <1>3, <1>5, LikeOK
  <2>2. w.sink[f].expected <= j.expected
    BY <1>3, <1>5 DEF Like, k
  <2>3. j.inPull = w.sink[f].inPull /\ (j.retx > 0 <=> w.sink[f].retx > 0)
    BY <1>5 DEF k
  <2> QED
    BY <1>5, <2>1, <2>2, <2>3, FullSink
<1> HIDE DEF v
<1>7. i \in Sinks /\ Like(j, i) /\ i.retx = j.retx /\ i.inPull = TRUE
  BY <1>5, <1>6 DEF Sinks, Like
<1> HIDE DEF i
<1>8. ASSUME ~k.inPull
      PROVE  Full(x, begun) /\ x.src = v.src /\ x.sink[f] = i
  <2> DEFINE p == v.pacer[To[f]]
             q == AskedToPull(p, f)
  <2>1. v \in Worlds /\ WorldOK(v, NoneLate, begun) /\ v.sink \in [Flow -> Sinks]
        /\ v.pacer \in [Host -> Pacers] /\ To[f] \in Host
    BY <1>6, WorldSink DEF Full
  <2>2. WorldOK(u, NoneLate, begun)
    BY <1>6, <1>7, <2>1, LikeSink
  <2>3. /\ u.src = v.src /\ u.pacer = v.pacer /\ u.sink[f] = i
        /\ u.sink = [v.sink EXCEPT ![f] = i]
    BY <2>1, SinkField DEF WithSink, Worlds
  <2> HIDE DEF u
  <2>4. /\ p \in Pacers /\ Awake(p) /\ Tidy(p, To[f]) /\ Agree(v.sink[f], p, f)
        /\ Listed(v.sink, v.pacer) /\ \A h \in Host : Awake(v.pacer[h])
    BY <1>6, FullPacer
  <2>5. f \notin Range(p.active)
    BY <1>5, <1>6, <1>8, <2>4 DEF Agree
  <2> HIDE DEF p
  <2>6. /\ q \in Pacers /\ Awake(q) /\ Tidy(q, To[f]) /\ q.rtx = p.rtx
        /\ Range(q.active) = Range(p.active) \cup {f}
    BY <2>4, <2>5, AskedToPullFacts
  <2> HIDE DEF q
  <2>7. WorldOK(x, NoneLate, begun) /\ x.src = u.src /\ x.sink = u.sink
        /\ x.pacer = [u.pacer EXCEPT ![To[f]] = q]
    BY <2>2, <2>3, <2>6, RequestPullFacts DEF q, p
  <2> HIDE DEF x
  <2>8. Agree(i, q, f)
    BY <1>6, <1>7, <2>4, <2>6 DEF Agree
  <2>9. ListsOK([v.sink EXCEPT ![f] = i], [v.pacer EXCEPT ![To[f]] = q])
    <3>1. \A g \in Flow : g # f =>
            /\ g \in Range(q.active) <=> g \in Range(v.pacer[To[f]].active)
            /\ g \in Range(q.rtx) <=> g \in Range(v.pacer[To[f]].rtx)
      BY <2>6 DEF p
    <3> QED
      BY <2>1, <2>4, <2>6, <2>8, <3>1, ListsChange
  <2> QED
    BY <2>3, <2>7, <2>9 DEF Full
<1> HIDE DEF x
<1>9. Like(k, i)
  BY <1>5, <1>7 DEF Like
<1> QED
  BY <1>1, <1>3, <1>4, <1>5, <1>6, <1>7, <1>8, <1>9 DEF k

LEMMA FullControl ==
  ASSUME NEW begun, NEW w, Full(w, begun), NEW h \in Host, NEW packet \in Messages,
         PacketOK(w, packet)
  PROVE  Full(SendControlPacket(w, h, packet), begun)
<1>1. Keeps(w, SendControlPacket(w, h, packet), NoneLate, begun)
  BY KeepsSendControlPacket DEF Full
<1> QED
  BY <1>1 DEF Full, Keeps, Calls

(* An acknowledgement goes out and the count of bytes starts again.        *)
LEMMA SackFacts ==
  ASSUME NEW k \in Sinks, NEW f \in Flow, NEW base
  PROVE  LET p == Sack(k, f, base) IN
         p \in Messages /\ p.kind = "ack" /\ p.flow = f /\ p.cumulative = k.expected
<1> DEFINE sacks == {seq \in k.rx : base <= seq /\ seq <= base + 63}
<1>1. sacks \subseteq Nat /\ k.expected \in Nat
  BY DEF Sinks
<1>2. Sack(k, f, base) = [kind |-> "ack", flow |-> f, cumulative |-> k.expected, sacks |-> sacks]
  BY DEF Sack
<1> HIDE DEF sacks
<1> QED
  BY <1>1, <1>2 DEF Messages

LEMMA FullAnswer ==
  ASSUME NEW begun, NEW w, Full(w, begun), NEW f \in Flow, NEW k \in Sinks,
         w.sink[f].expected <= k.expected, SinkOK(w.src[f], k), DoneOK(w.src[f], k, f),
         k.inPull = w.sink[f].inPull, k.retx > 0 <=> w.sink[f].retx > 0, NEW base
  PROVE  Full(SendControlPacket([w EXCEPT !.sink[f] = [k EXCEPT !.accepted = 0]], To[f],
                                Sack(k, f, base)), begun)
<1> DEFINE j == [k EXCEPT !.accepted = 0]
           v == WithSink(w, f, j)
           packet == Sack(k, f, base)
<1>1. j \in Sinks /\ Like(k, j) /\ j.inPull = k.inPull /\ j.retx = k.retx
  BY DEF Sinks, Like
<1> HIDE DEF j
<1>2. SinkOK(w.src[f], j) /\ DoneOK(w.src[f], j, f) /\ w.sink[f].expected <= j.expected
  BY <1>1, LikeOK DEF Like
<1>3. Full(v, begun) /\ v.src = w.src /\ v.sink[f] = j
  BY <1>1, <1>2, FullSink
<1> HIDE DEF v
<1>4. /\ packet.kind = "ack" /\ packet.flow = f /\ packet.cumulative = k.expected
      /\ packet \in Messages
  BY SackFacts
<1> HIDE DEF packet
<1>5. PacketOK(v, packet)
  <2>1. k.expected \in Nat
    BY DEF Sinks
  <2> QED
    BY <1>1, <1>3, <1>4, <2>1 DEF PacketOK, Like
<1>6. To[f] \in Host
  BY EqdsConstants
<1>7. Full(SendControlPacket(v, To[f], packet), begun)
  BY <1>3, <1>4, <1>5, <1>6, FullControl
<1> QED
  BY <1>7 DEF v, WithSink, j, packet

LEMMA FullData ==
  ASSUME NEW begun, NEW w, Full(w, begun), NEW p \in Messages, PacketOK(w, p), p.kind = "data"
  PROVE  Full(ProcessData(w, p.flow, p), begun)
<1> DEFINE f == p.flow
           seq == p.seq
           v == HandlePullTarget(w, f, p.target)
           b == v.sink[f]
           k == [b EXCEPT !.accepted = @ + p.bytes]
           c == [k EXCEPT !.received = @ + p.bytes - Hdr, !.ackRequest = @ \/ p.ar]
           t == Accept(c, seq)
           closing == seq = k.expected /\ Drained(t)
           u == IF closing THEN [t EXCEPT !.ackRequest = FALSE] ELSE t
           ack == \/ u.accepted > AckThreshold
                  \/ k.received = 0 \/ p.ar \/ closing
           Answer(j, base) ==
               SendControlPacket([v EXCEPT !.sink[f] = [j EXCEPT !.accepted = 0]],
                                 To[f], Sack(j, f, base))
           last == Answer(u, IF p.ar THEN seq ELSE SackBase(u, seq))
           kept == WithSink(v, f, u)
           claim == u.received <= Size[f] * Mss
<1>1. ProcessData(w, f, p) = IF Has(k, seq) THEN Answer(k, SackBase(k, seq))
                             ELSE Asserted(IF ack THEN last ELSE kept, claim)
  BY DEF ProcessData, WithSink
<1>2. /\ f \in Flow /\ p.target \in Int /\ p.bytes \in Int /\ p.ar \in BOOLEAN /\ seq \in Nat
      /\ seq \in Sent(w.src[f]) /\ p.bytes = PacketSize(w.src[f], seq)
  <2>1. p \in [kind : {"data", "trimmed", "rts"}, flow : Flow, seq : Nat,
               target : Int, bytes : Int, ar : BOOLEAN]
    BY MessageKinds
  <2> QED
    BY <2>1 DEF PacketOK
<1> HIDE DEF f
<1>3. Full(v, begun) /\ v.src = w.src
  BY <1>2, HandleFacts
<1> HIDE DEF v
<1>4. /\ b \in Sinks /\ v.src[f] \in Sources /\ SinkOK(v.src[f], b) /\ DoneOK(v.src[f], b, f)
      /\ b.expected \in Nat
  BY <1>2, <1>3, WorldSink DEF Full
<1>5. b = v.sink[f]
  OBVIOUS
<1> HIDE DEF b
<1>6. k \in Sinks /\ Like(b, k) /\ k.retx = b.retx /\ k.inPull = b.inPull
  BY <1>2, <1>4 DEF Sinks, Like
<1> HIDE DEF k
<1>7. SinkOK(v.src[f], k) /\ DoneOK(v.src[f], k, f) /\ k.expected = b.expected
  <2>1. SinkOK(v.src[f], k) /\ DoneOK(v.src[f], k, f)
    BY <1>2, <1>4, <1>6, LikeOK
  <2> QED
    BY <1>6, <2>1 DEF Like
<1>8. Full(Answer(k, SackBase(k, seq)), begun)
  BY <1>2, <1>3, <1>4, <1>5, <1>6, <1>7, FullAnswer
<1>9. ASSUME ~Has(k, seq)
      PROVE  Full(last, begun) /\ Full(kept, begun)
  <2>1. /\ c \in Sinks /\ c.rx = k.rx /\ c.expected = k.expected
        /\ c.received = k.received + p.bytes - Hdr /\ c.retx = k.retx /\ c.inPull = k.inPull
    <3> DEFINE n == k.received + p.bytes - Hdr
               r == k.ackRequest \/ p.ar
    <3>1. n \in Int /\ r \in BOOLEAN /\ c = [k EXCEPT !.received = n, !.ackRequest = r]
      BY <1>2, <1>6, EqdsConstants DEF Sinks
    <3>2. n = k.received + p.bytes - Hdr
      OBVIOUS
    <3> HIDE DEF n, r, c
    <3> QED
      BY <1>6, <3>1, <3>2 DEF Sinks
  <2> HIDE DEF c
  <2>2. /\ t \in Sinks /\ SinkOK(v.src[f], t) /\ k.expected <= t.expected
        /\ t.retx = c.retx /\ t.inPull = c.inPull
        /\ \A g \in Flow : DoneOK(v.src[f], k, g) => DoneOK(v.src[f], t, g)
    <3>1. /\ c.received = k.received + PacketSize(v.src[f], seq) - Hdr
          /\ seq \in Sent(v.src[f])
      BY <1>2, <1>3, <2>1
    <3> QED
      BY <1>4, <1>6, <1>7, <1>9, <2>1, <3>1, CountedFacts
  <2> HIDE DEF t, closing
  <2>3. u \in Sinks /\ Like(t, u) /\ u.retx = t.retx /\ u.inPull = t.inPull
    BY <2>2 DEF Sinks, Like
  <2> HIDE DEF u
  <2>4. /\ SinkOK(v.src[f], u) /\ DoneOK(v.src[f], u, f) /\ v.sink[f].expected <= u.expected
        /\ u.inPull = v.sink[f].inPull /\ (u.retx > 0 <=> v.sink[f].retx > 0)
    BY <1>2, <1>5, <1>6, <1>7, <2>1, <2>2, <2>3, LikeOK DEF Like
  <2>5. Full(kept, begun)
    BY <1>2, <1>3, <2>3, <2>4, FullSink
  <2>6. Full(last, begun)
    BY <1>2, <1>3, <2>3, <2>4, FullAnswer
  <2> QED
    BY <2>5, <2>6
<1> HIDE DEF last, kept, ack, claim
<1>10. ASSUME NEW x, Full(x, begun) PROVE Full(Asserted(x, claim), begun)
  BY <1>10, AssertedOK, AssertedField DEF Full, WorldOK
<1>11. Full(ProcessData(w, f, p), begun)
  BY <1>1, <1>8, <1>9, <1>10
<1> QED
  BY <1>11 DEF f

LEMMA CreditPositive ==
  QuantizeCeil(Mtu) \in Nat \ {0}
<1> DEFINE b == Mtu + Quantum - 1
           q == b \div Quantum
<1>1. Quantum \in Nat \ {0} /\ b \in Nat /\ b >= Quantum
  BY EqdsConstants DEF Mtu
<1>2. QuantizeCeil(Mtu) = q
  BY <1>1 DEF QuantizeCeil
<1> HIDE DEF b
<1>3. q \in Int /\ b < Quantum * (q + 1)
  BY <1>1
<1> HIDE DEF q
<1>4. ASSUME q <= 0 PROVE FALSE
  <2>1. q + 1 <= 1 /\ Quantum * (q + 1) <= Quantum * 1
    BY <1>1, <1>3, <1>4
  <2> QED
    BY <1>1, <1>3, <2>1
<1> QED
  BY <1>2, <1>3, <1>4

(* A sink with retransmissions to pull: the pacer knows of it already, or  *)
(* is asked; it may be asked for a pull at the same time.                  *)
Credited(k) == [k EXCEPT !.retx = @ + QuantizeCeil(Mtu)]

LEMMA CreditedFacts ==
  ASSUME NEW k \in Sinks
  PROVE  LET j == Credited(k) IN
         /\ j \in Sinks /\ Like(k, j) /\ j.inPull = k.inPull /\ j.retx > 0
         /\ k.retx \in Nat
<1> DEFINE n == QuantizeCeil(Mtu)
           m == k.retx + n
           j == [k EXCEPT !.retx = m]
<1>1. n \in Nat \ {0}
  BY CreditPositive
<1> HIDE DEF n
<1>2. m \in Nat /\ m > 0 /\ k.retx \in Nat
  BY <1>1 DEF Sinks
<1>3. Credited(k) = j
  BY DEF Credited, n
<1> HIDE DEF m
<1>4. j \in Sinks /\ Like(k, j) /\ j.inPull = k.inPull /\ j.retx = m
  BY <1>2 DEF Sinks, Like
<1> QED
  BY <1>2, <1>3, <1>4

LEMMA FullCredited ==
  ASSUME NEW begun, NEW w, Full(w, begun), NEW f \in Flow, w.sink[f].retx > 0
  PROVE  LET v == WithSink(w, f, Credited(w.sink[f])) IN
         Full(v, begun) /\ v.src = w.src /\ v.sink[f] = Credited(w.sink[f])
<1> DEFINE k == w.sink[f]
           j == Credited(k)
<1>1. /\ k \in Sinks /\ SinkOK(w.src[f], k) /\ DoneOK(w.src[f], k, f) /\ k.expected \in Nat
  BY WorldSink DEF Full
<1>2. j \in Sinks /\ Like(k, j) /\ j.inPull = k.inPull /\ j.retx > 0
  BY <1>1, CreditedFacts
<1>3. k.retx > 0 /\ k = w.sink[f]
  OBVIOUS
<1> HIDE DEF j, k
<1>4. SinkOK(w.src[f], j) /\ DoneOK(w.src[f], j, f)
  BY <1>1, <1>2, LikeOK
<1>5. w.sink[f].expected <= j.expected
  BY <1>1, <1>2, <1>3 DEF Like
<1>6. LET v == WithSink(w, f, j) IN Full(v, begun) /\ v.src = w.src /\ v.sink[f] = j
  BY <1>2, <1>3, <1>4, <1>5, FullSink
<1> QED
  BY <1>6 DEF j, k

LEMMA FullTrimmed ==
  ASSUME NEW begun, NEW w, Full(w, begun), NEW p \in Messages, p.kind = "trimmed"
  PROVE  Full(ProcessTrimmed(w, p.flow, p), begun)
<1> DEFINE f == p.flow
           seq == p.seq
           k == w.sink[f]
           v == HandlePullTarget(w, f, p.target)
           j == Credited(v.sink[f])
           r == WithSink(v, f, j)
           nack == [kind |-> "nack", flow |-> f, seq |-> seq]
           u == SendControlPacket(r, To[f], nack)
           x == RequestRetransmit(u, f)
           sack == Sack(k, f, seq)
<1>1. ProcessTrimmed(w, f, p) = IF Has(k, seq) THEN SendOn(w, sack)
                                ELSE IF k.retx > 0 THEN u ELSE x
  BY DEF ProcessTrimmed, WithSink, Credited
<1>2. f \in Flow /\ p.target \in Int /\ seq \in Nat
  <2>1. p \in [kind : {"data", "trimmed", "rts"}, flow : Flow, seq : Nat,
               target : Int, bytes : Int, ar : BOOLEAN]
    BY MessageKinds
  <2> QED
    BY <2>1
<1> HIDE DEF f, seq
<1>3. Full(v, begun) /\ Like(k, v.sink[f]) /\ v.sink[f].retx = k.retx
  BY <1>2, HandleFacts
<1>4. /\ w \in Worlds /\ k \in Sinks /\ k.retx \in Nat /\ k.expected \in Nat
      /\ WorldOK(w, NoneLate, begun)
  BY <1>2, WorldSink DEF Full, Sinks
<1> HIDE DEF v
<1>5. nack \in Messages /\ nack.kind = "nack"
  BY <1>2 DEF Messages
<1>6. PacketOK(r, nack)
  BY <1>5 DEF PacketOK
<1>7. To[f] \in Host
  BY <1>2, EqdsConstants
<1> HIDE DEF nack
<1>8. Full(SendOn(w, sack), begun)
  <2>1. sack \in Messages /\ sack.kind = "ack" /\ sack.flow = f /\ sack.cumulative = k.expected
    BY <1>2, <1>4, SackFacts
  <2> HIDE DEF sack
  <2>2. PacketOK(w, sack)
    BY <1>4, <2>1 DEF PacketOK
  <2>3. WorldOK(SendOn(w, sack), NoneLate, begun)
    BY <1>4, <2>1, <2>2, SendOK
  <2> QED
    BY <1>4, <2>1, <2>3, SendField DEF Full
<1>9. ASSUME k.retx > 0 PROVE Full(u, begun)
  <2>1. Full(r, begun)
    BY <1>2, <1>3, <1>9, FullCredited
  <2> HIDE DEF r
  <2> QED
    BY <1>5, <1>6, <1>7, <2>1, FullControl
<1>10. ASSUME ~(k.retx > 0) PROVE Full(x, begun)
  <2> DEFINE b == v.sink[f]
             o == v.pacer[To[f]]
             q == AskedToRetransmit(o, f)
  <2>1. /\ v \in Worlds /\ WorldOK(v, NoneLate, begun) /\ v.sink \in [Flow -> Sinks]
        /\ v.pacer \in [Host -> Pacers] /\ b \in Sinks
    BY <1>2, <1>3, WorldSink DEF Full
  <2>2. j \in Sinks /\ Like(b, j) /\ j.inPull = b.inPull /\ j.retx > 0
    BY <2>1, CreditedFacts
  <2> HIDE DEF j
  <2>3. /\ o \in Pacers /\ Awake(o) /\ Tidy(o, To[f]) /\ Agree(b, o, f)
        /\ Listed(v.sink, v.pacer) /\ \A h \in Host : Awake(v.pacer[h])
    BY <1>2, <1>3, FullPacer
  <2>4. WorldOK(r, NoneLate, begun)
    BY <1>2, <2>1, <2>2, LikeSink
  <2>5. r.pacer = v.pacer /\ r.sink = [v.sink EXCEPT ![f] = j]
    BY <1>2, <2>1, SinkField DEF WithSink, Worlds
  <2> HIDE DEF r
  <2>6. Keeps(r, u, NoneLate, begun)
    BY <1>5, <1>6, <1>7, <2>4, KeepsSendControlPacket
  <2> HIDE DEF u
  <2>7. WorldOK(u, NoneLate, begun) /\ u.pacer = v.pacer /\ u.sink = [v.sink EXCEPT ![f] = j]
    BY <2>5, <2>6 DEF Keeps, Calls
  <2>8. f \notin Range(o.rtx)
    BY <1>3, <1>4, <1>10, <2>3 DEF Agree
  <2>9. o = v.pacer[To[f]] /\ b = v.sink[f]
    OBVIOUS
  <2> HIDE DEF o, b
  <2>10. /\ q \in Pacers /\ Awake(q) /\ Tidy(q, To[f]) /\ q.active = o.active
         /\ Range(q.rtx) = Range(o.rtx) \cup {f}
    BY <1>2, <2>3, <2>8, AskedToRetransmitFacts
  <2>11. WorldOK(x, NoneLate, begun) /\ x.sink = u.sink
         /\ x.pacer = [u.pacer EXCEPT ![To[f]] = AskedToRetransmit(u.pacer[To[f]], f)]
    BY <1>2, <2>7, <2>9, <2>10, RequestRetransmitFacts
  <2> HIDE DEF q, x
  <2>12. Agree(j, q, f)
    BY <2>2, <2>3, <2>10 DEF Agree
  <2>13. \A g \in Flow : g # f =>
            /\ g \in Range(q.active) <=> g \in Range(v.pacer[To[f]].active)
            /\ g \in Range(q.rtx) <=> g \in Range(v.pacer[To[f]].rtx)
    BY <2>9, <2>10
  <2>14. ListsOK([v.sink EXCEPT ![f] = j], [v.pacer EXCEPT ![To[f]] = q])
    BY <1>2, <2>1, <2>3, <2>10, <2>12, <2>13, ListsChange
  <2> QED
    BY <2>7, <2>9, <2>11, <2>14 DEF Full, q
<1>11. Full(ProcessTrimmed(w, f, p), begun)
  BY <1>1, <1>8, <1>9, <1>10
<1> QED
  BY <1>11 DEF f

(* An RTS puts an idle sink into both lists.                               *)
LEMMA FullRequested ==
  ASSUME NEW begun, NEW v, Full(v, begun), NEW f \in Flow, v.sink[f].retx = 0
  PROVE  LET r == WithSink(v, f, Credited(v.sink[f]))
             x == IF v.sink[f].inPull THEN r
                  ELSE RequestPull([r EXCEPT !.sink[f].inPull = TRUE], f)
             u == RequestRetransmit(x, f)
         IN  Full(u, begun) /\ u.src = v.src
<1> DEFINE b == v.sink[f]
           o == v.pacer[To[f]]
           j == Credited(b)
           i == [j EXCEPT !.inPull = TRUE]
           r == WithSink(v, f, j)
           a == WithSink(r, f, i)
           c == RequestPull(a, f)
           d == AskedToPull(o, f)
           x == IF b.inPull THEN r ELSE c
           m == IF b.inPull THEN o ELSE d
           n == IF b.inPull THEN j ELSE i
           q == AskedToRetransmit(m, f)
           u == RequestRetransmit(x, f)
<1>1. /\ v \in Worlds /\ WorldOK(v, NoneLate, begun) /\ v.sink \in [Flow -> Sinks]
      /\ v.pacer \in [Host -> Pacers] /\ b \in Sinks /\ To[f] \in Host
  BY WorldSink DEF Full
<1>2. j \in Sinks /\ Like(b, j) /\ j.inPull = b.inPull /\ j.retx > 0 /\ b.inPull \in BOOLEAN
  BY <1>1, CreditedFacts DEF Sinks
<1> HIDE DEF j
<1>3. i \in Sinks /\ Like(j, i) /\ i.inPull = TRUE /\ i.retx = j.retx
  BY <1>2 DEF Sinks, Like
<1>4. /\ o \in Pacers /\ Awake(o) /\ Tidy(o, To[f]) /\ Agree(b, o, f)
      /\ Listed(v.sink, v.pacer) /\ \A h \in Host : Awake(v.pacer[h])
  BY FullPacer
<1>5. WorldOK(r, NoneLate, begun)
  BY <1>1, <1>2, LikeSink
<1>6. /\ r.src = v.src /\ r.pacer = v.pacer /\ r.sink = [v.sink EXCEPT ![f] = j] /\ r.sink[f] = j
      /\ r \in Worlds
  <2>1. r.src = v.src /\ r.pacer = v.pacer /\ r.sink[f] = j /\ r \in Worlds
    BY <1>1, <1>2, SinkField
  <2>2. r.sink = [v.sink EXCEPT ![f] = j]
    BY <1>1 DEF WithSink, Worlds
  <2> QED
    BY <2>1, <2>2
<1>7. a = [r EXCEPT !.sink[f].inPull = TRUE]
  BY <1>6 DEF WithSink
<1>8. o = v.pacer[To[f]] /\ b = v.sink[f]
  OBVIOUS
<1> HIDE DEF r, i, o
<1>9. ASSUME ~b.inPull
      PROVE  /\ WorldOK(c, NoneLate, begun) /\ c.src = v.src /\ c.sink = [v.sink EXCEPT ![f] = i]
             /\ c.pacer = [v.pacer EXCEPT ![To[f]] = d] /\ d \in Pacers /\ Awake(d)
             /\ Tidy(d, To[f]) /\ d.rtx = o.rtx /\ Range(d.active) = Range(o.active) \cup {f}
  <2>1. WorldOK(a, NoneLate, begun)
    BY <1>3, <1>5, <1>6, LikeSink
  <2>2. a.src = v.src /\ a.pacer = v.pacer /\ a.sink = [v.sink EXCEPT ![f] = i]
    BY <1>1, <1>3, <1>6, SinkField DEF WithSink, Worlds
  <2> HIDE DEF a
  <2>3. f \notin Range(o.active)
    BY <1>4, <1>9 DEF Agree
  <2>4. /\ d \in Pacers /\ Awake(d) /\ Tidy(d, To[f]) /\ d.rtx = o.rtx
        /\ Range(d.active) = Range(o.active) \cup {f}
    BY <1>4, <2>3, AskedToPullFacts
  <2>5. WorldOK(c, NoneLate, begun) /\ c.src = a.src /\ c.sink = a.sink
        /\ c.pacer = [a.pacer EXCEPT ![To[f]] = AskedToPull(a.pacer[To[f]], f)]
    BY <1>8, <2>1, <2>2, <2>4, RequestPullFacts
  <2> HIDE DEF c
  <2> QED
    BY <1>8, <2>2, <2>4, <2>5
<1> HIDE DEF a, c, d
<1>10. /\ WorldOK(x, NoneLate, begun) /\ x.src = v.src /\ x.sink = [v.sink EXCEPT ![f] = n]
       /\ x.pacer = [v.pacer EXCEPT ![To[f]] = m] /\ x.pacer[To[f]] = m
       /\ m \in Pacers /\ Awake(m) /\ Tidy(m, To[f]) /\ m.rtx = o.rtx
       /\ Range(m.active) = IF b.inPull THEN Range(o.active) ELSE Range(o.active) \cup {f}
       /\ n.inPull = TRUE /\ n.retx > 0
  <2>1. CASE b.inPull
    <3>1. x = r /\ m = o /\ n = j
      BY <2>1
    <3>2. v.pacer = [v.pacer EXCEPT ![To[f]] = o]
      BY <1>1, <1>8
    <3> QED
      BY <1>1, <1>2, <1>4, <1>5, <1>6, <1>8, <2>1, <3>1, <3>2
  <2>2. CASE ~b.inPull
    <3>1. x = c /\ m = d /\ n = i
      BY <2>2
    <3> QED
      BY <1>1, <1>2, <1>3, <1>9, <2>2, <3>1
  <2> QED
    BY <2>1, <2>2
<1> HIDE DEF x, m, n
<1>11. f \notin Range(m.rtx)
  BY <1>1, <1>4, <1>8, <1>10 DEF Agree, Sinks
<1>12. /\ q \in Pacers /\ Awake(q) /\ Tidy(q, To[f]) /\ q.active = m.active
       /\ Range(q.rtx) = Range(m.rtx) \cup {f}
  BY <1>10, <1>11, AskedToRetransmitFacts
<1>13. WorldOK(u, NoneLate, begun) /\ u.src = x.src /\ u.sink = x.sink
       /\ u.pacer = [x.pacer EXCEPT ![To[f]] = AskedToRetransmit(x.pacer[To[f]], f)]
  <2>1. AskedToRetransmit(x.pacer[To[f]], f) \in Pacers
    BY <1>10, <1>12
  <2>2. WorldOK(x, NoneLate, begun)
    BY <1>10
  <2> QED
    BY <2>1, <2>2, RequestRetransmitFacts
<1>14. u.pacer = [v.pacer EXCEPT ![To[f]] = q]
  BY <1>10, <1>13
<1> HIDE DEF q
<1>15. Agree(n, q, f)
  BY <1>4, <1>10, <1>12 DEF Agree
<1>16. \A g \in Flow : g # f =>
          /\ g \in Range(q.active) <=> g \in Range(v.pacer[To[f]].active)
          /\ g \in Range(q.rtx) <=> g \in Range(v.pacer[To[f]].rtx)
  BY <1>8, <1>10, <1>12
<1>17. ListsOK([v.sink EXCEPT ![f] = n], [v.pacer EXCEPT ![To[f]] = q])
  BY <1>1, <1>4, <1>12, <1>15, <1>16, ListsChange
<1>18. Full(u, begun) /\ u.src = v.src
  BY <1>10, <1>13, <1>14, <1>17 DEF Full
<1> HIDE DEF u
<1>19. u = LET y == WithSink(v, f, Credited(v.sink[f]))
               z == IF v.sink[f].inPull THEN y
                    ELSE RequestPull([y EXCEPT !.sink[f].inPull = TRUE], f)
           IN  RequestRetransmit(z, f)
  BY <1>7 DEF u, x, c, r, j, b
<1> QED
  BY <1>18, <1>19

LEMMA FullRts ==
  ASSUME NEW begun, NEW w, Full(w, begun), NEW p \in Messages, PacketOK(w, p), p.kind = "rts"
  PROVE  Full(ProcessRts(w, p.flow, p), begun)
<1> DEFINE f == p.flow
           seq == p.seq
           v == HandlePullTarget(w, f, p.target)
           r == WithSink(v, f, Credited(v.sink[f]))
           x == IF v.sink[f].inPull THEN r
                ELSE RequestPull([r EXCEPT !.sink[f].inPull = TRUE], f)
           u == IF v.sink[f].retx = 0 THEN RequestRetransmit(x, f) ELSE r
           k == u.sink[f]
           c == [k EXCEPT !.received = @ + p.bytes - Hdr]
           t == Accept(c, seq)
           b == [t EXCEPT !.ackRequest = @ /\ ~(seq = k.expected /\ Drained(t))]
           j == IF Has(k, seq) THEN k ELSE b
           last == SendControlPacket([u EXCEPT !.sink[f] = [j EXCEPT !.accepted = 0]],
                                     To[f], Sack(j, f, seq))
<1>1. ProcessRts(w, f, p) = last
  BY DEF ProcessRts, WithSink, Credited
<1>2. /\ f \in Flow /\ p.target \in Int /\ p.bytes \in Int /\ seq \in Nat
      /\ seq \in Sent(w.src[f]) /\ p.bytes = PacketSize(w.src[f], seq)
  <2>1. p \in [kind : {"data", "trimmed", "rts"}, flow : Flow, seq : Nat,
               target : Int, bytes : Int, ar : BOOLEAN]
    BY MessageKinds
  <2> QED
    BY <2>1 DEF PacketOK
<1> HIDE DEF f
<1>3. Full(v, begun) /\ v.src = w.src
  BY <1>2, HandleFacts
<1> HIDE DEF v
<1>4. Full(u, begun) /\ u.src = w.src
  <2>1. CASE v.sink[f].retx = 0
    <3>1. u = RequestRetransmit(x, f)
      BY <2>1
    <3> HIDE DEF u
    <3> QED
      BY <1>2, <1>3, <2>1, <3>1, FullRequested
  <2>2. CASE v.sink[f].retx # 0
    <3>1. v.sink[f].retx > 0
      BY <1>2, <1>3, <2>2, WorldSink DEF Full, Sinks
    <3>2. u = r
      BY <2>2
    <3> HIDE DEF u
    <3> QED
      BY <1>2, <1>3, <3>1, <3>2, FullCredited
  <2> QED
    BY <2>1, <2>2
<1> HIDE DEF u
<1>5. /\ k \in Sinks /\ u.src[f] \in Sources /\ SinkOK(u.src[f], k) /\ DoneOK(u.src[f], k, f)
      /\ k.expected \in Nat
  BY <1>2, <1>4, WorldSink DEF Full
<1>6. k = u.sink[f]
  OBVIOUS
<1> HIDE DEF k
<1>7. ASSUME ~Has(k, seq)
      PROVE  /\ b \in Sinks /\ SinkOK(u.src[f], b) /\ DoneOK(u.src[f], b, f)
             /\ k.expected <= b.expected /\ b.inPull = k.inPull /\ b.retx = k.retx
  <2>1. /\ c \in Sinks /\ c.rx = k.rx /\ c.expected = k.expected
        /\ c.received = k.received + p.bytes - Hdr /\ c.retx = k.retx /\ c.inPull = k.inPull
    <3> DEFINE n == k.received + p.bytes - Hdr
    <3>1. n \in Int /\ c = [k EXCEPT !.received = n]
      BY <1>2, <1>5, EqdsConstants DEF Sinks
    <3>2. n = k.received + p.bytes - Hdr
      OBVIOUS
    <3> HIDE DEF n, c
    <3> QED
      BY <1>5, <3>1, <3>2 DEF Sinks
  <2> HIDE DEF c
  <2>2. /\ t \in Sinks /\ SinkOK(u.src[f], t) /\ k.expected <= t.expected
        /\ t.retx = c.retx /\ t.inPull = c.inPull
        /\ \A g \in Flow : DoneOK(u.src[f], k, g) => DoneOK(u.src[f], t, g)
    <3>1. /\ c.received = k.received + PacketSize(u.src[f], seq) - Hdr
          /\ seq \in Sent(u.src[f])
      BY <1>2, <1>4, <2>1
    <3> QED
      BY <1>5, <1>7, <2>1, <3>1, CountedFacts
  <2> HIDE DEF t
  <2>3. b \in Sinks /\ Like(t, b) /\ b.retx = t.retx /\ b.inPull = t.inPull
    BY <2>2 DEF Sinks, Like
  <2> HIDE DEF b
  <2>4. SinkOK(u.src[f], b) /\ DoneOK(u.src[f], b, f)
    BY <1>2, <1>5, <2>2, <2>3, LikeOK
  <2> QED
    BY <2>1, <2>2, <2>3, <2>4 DEF Like
<1> HIDE DEF b
<1>8. /\ j \in Sinks /\ SinkOK(u.src[f], j) /\ DoneOK(u.src[f], j, f)
      /\ u.sink[f].expected <= j.expected
      /\ j.inPull = u.sink[f].inPull /\ (j.retx > 0 <=> u.sink[f].retx > 0)
  BY <1>5, <1>6, <1>7
<1> HIDE DEF j
<1>9. Full(last, begun)
  BY <1>2, <1>4, <1>8, FullAnswer
<1> QED
  BY <1>1, <1>9 DEF f
-----------------------------------------------------------------------------
(* The pacer's turn: its event has been taken, and another one follows a   *)
(* pull.                                                                   *)
Turning(w, h, begun) ==
    /\ WorldOK(w, NoneLate, begun) /\ Listed(w.sink, w.pacer)
    /\ w.pacer[h].events = 0
    /\ \A g \in Host : g # h => Awake(w.pacer[g])

LEMMA FullPull ==
  ASSUME NEW begun, NEW h \in Host, NEW w, Turning(w, h, begun), NEW f \in Flow, To[f] = h,
         NEW k \in Sinks, Like(w.sink[f], k), NEW q \in Pacers, q.events = 0,
         Tidy(q, h), Agree(k, q, f),
         \A g \in Flow : g # f =>
            /\ g \in Range(q.active) <=> g \in Range(w.pacer[h].active)
            /\ g \in Range(q.rtx) <=> g \in Range(w.pacer[h].rtx)
  PROVE  Full(SendControlPacket(
                [w EXCEPT !.sink[f] = k,
                          !.pacer[h] = [q EXCEPT !.running = TRUE, !.events = @ + 1]],
                h, [kind |-> "pull", flow |-> f, no |-> k.latest]), begun)
<1> DEFINE o == [q EXCEPT !.running = TRUE, !.events = @ + 1]
           u == WithSink(w, f, k)
           v == WithPacer(u, h, o)
           packet == [kind |-> "pull", flow |-> f, no |-> k.latest]
<1>1. /\ w \in Worlds /\ WorldOK(w, NoneLate, begun) /\ w.sink \in [Flow -> Sinks]
      /\ w.pacer \in [Host -> Pacers]
  BY WorldSink DEF Turning
<1>2. v = [w EXCEPT !.sink[f] = k, !.pacer[h] = o]
  <2> HIDE DEF o
  <2> QED
    BY <1>1 DEF WithPacer, WithSink, Worlds
<1>3. /\ o \in Pacers /\ o.active = q.active /\ o.rtx = q.rtx /\ o.idle = q.idle
      /\ o.running = TRUE /\ o.events = 1
  <2> DEFINE n == q.events + 1
  <2>1. o = [q EXCEPT !.running = TRUE, !.events = n] /\ n = 1
    OBVIOUS
  <2> HIDE DEF n, o
  <2> QED
    BY <2>1 DEF Pacers
<1>4. q.running \in BOOLEAN
  BY DEF Pacers
<1> HIDE DEF o
<1>5. Awake(o) /\ Tidy(o, h) /\ Agree(k, o, f)
  BY <1>3 DEF Awake, Tidy, Agree
<1>6. WorldOK(u, NoneLate, begun)
  BY <1>1, LikeSink
<1>7. u.pacer = w.pacer /\ u.sink = [w.sink EXCEPT ![f] = k] /\ u \in Worlds
  <2>1. u.pacer = w.pacer /\ u \in Worlds
    BY <1>1, SinkField
  <2> QED
    BY <1>1, <2>1 DEF WithSink, Worlds
<1> HIDE DEF u
<1>8. WorldOK(v, NoneLate, begun)
  BY <1>3, <1>6, PacerOK
<1>9. v.sink = [w.sink EXCEPT ![f] = k] /\ v.pacer = [w.pacer EXCEPT ![h] = o]
  <2>1. v.sink = u.sink
    BY <1>7, PacerField
  <2>2. v.pacer = [u.pacer EXCEPT ![h] = o]
    BY <1>7 DEF WithPacer, Worlds
  <2> QED
    BY <1>7, <2>1, <2>2
<1>10. ListsOK([w.sink EXCEPT ![f] = k], [w.pacer EXCEPT ![To[f]] = o])
  <2>1. \A g \in Flow : g # f =>
            /\ g \in Range(o.active) <=> g \in Range(w.pacer[To[f]].active)
            /\ g \in Range(o.rtx) <=> g \in Range(w.pacer[To[f]].rtx)
    BY <1>3
  <2>2. Listed(w.sink, w.pacer) /\ \A g \in Host : g # To[f] => Awake(w.pacer[g])
    BY DEF Turning
  <2>3. Tidy(o, To[f])
    BY <1>5
  <2> QED
    BY <1>1, <1>5, <2>1, <2>2, <2>3, ListsChange
<1>11. packet \in Messages /\ packet.kind = "pull"
  BY DEF Messages, Sinks
<1> HIDE DEF packet
<1>12. PacketOK(v, packet)
  BY <1>11 DEF PacketOK
<1>13. Full(v, begun)
  BY <1>8, <1>9, <1>10 DEF Full
<1> HIDE DEF v
<1>14. Full(SendControlPacket(v, h, packet), begun)
  BY <1>11, <1>12, <1>13, FullControl
<1> QED
  BY <1>2, <1>14 DEF packet, o

LEMMA PulledFacts ==
  ASSUME NEW k \in Sinks
  PROVE  LET j == Pulled(k) IN
         /\ j \in Sinks /\ Like(k, j) /\ j.inPull = k.inPull
         /\ k.retx = 0 => j.retx = 0
<1> DEFINE n == IF k.retx > CreditPerPull THEN k.retx - CreditPerPull ELSE 0
           m == k.latest + CreditPerPull
           j == [k EXCEPT !.retx = n, !.latest = m]
<1>1. n \in Nat /\ m \in Nat /\ (k.retx = 0 => n = 0)
  BY SinkConstants DEF Sinks
<1>2. Pulled(k) = j
  BY DEF Pulled
<1> HIDE DEF n, m
<1>3. j \in Sinks /\ Like(k, j) /\ j.inPull = k.inPull /\ j.retx = n
  BY <1>1 DEF Sinks, Like
<1> QED
  BY <1>1, <1>2, <1>3

(* The list a pull was taken from: its head goes to the end or leaves.     *)
LEMMA TurnedFacts ==
  ASSUME NEW s \in Seq(Flow), Distinct(s), s # <<>>, NEW b \in BOOLEAN
  PROVE  LET t == IF b THEN Append(Tail(s), Head(s)) ELSE Tail(s) IN
         /\ t \in Seq(Flow) /\ Distinct(t) /\ Head(s) \in Flow /\ Head(s) \in Range(s)
         /\ Range(t) = IF b THEN Range(s) ELSE Range(s) \ {Head(s)}
<1>1. /\ Distinct(Tail(s)) /\ Tail(s) \in Seq(Flow) /\ Head(s) \in Flow
      /\ Head(s) \in Range(s) /\ Range(Tail(s)) = Range(s) \ {Head(s)}
  BY DistinctTail
<1> DEFINE t == Tail(s)
           x == Head(s)
<1> HIDE DEF t, x
<1>2. Append(t, x) \in Seq(Flow) /\ Range(Append(t, x)) = Range(t) \cup {x}
  BY <1>1, SequenceFacts DEF t, x
<1>3. Distinct(Append(t, x))
  BY <1>1, DistinctAppend DEF t, x
<1> QED
  BY <1>1, <1>2, <1>3 DEF t, x

LEMMA TurningFacts ==
  ASSUME NEW begun, NEW h \in Host, NEW w, Turning(w, h, begun)
  PROVE  /\ w.pacer[h] \in Pacers /\ w.pacer[h].events = 0 /\ Tidy(w.pacer[h], h)
         /\ w.pacer[h].active \in Seq(Flow) /\ w.pacer[h].rtx \in Seq(Flow)
         /\ w.pacer[h].idle \in Seq(Flow)
<1> DEFINE p == w.pacer[h]
<1>1. p \in Pacers /\ p.events = 0 /\ Tidy(p, h)
  BY DEF Turning, WorldOK, Worlds, Listed
<1> HIDE DEF p
<1>2. p.active \in Seq(Flow) /\ p.rtx \in Seq(Flow) /\ p.idle \in Seq(Flow)
  BY <1>1, PacerLists
<1> QED
  BY <1>1, <1>2 DEF p

LEMMA TurningFlows ==
  ASSUME NEW begun, NEW h \in Host, NEW w, Turning(w, h, begun)
  PROVE  \A f \in Flow : To[f] = h => w.sink[f] \in Sinks /\ Agree(w.sink[f], w.pacer[h], f)
BY DEF Turning, WorldOK, Worlds, Listed

LEMMA TidyFlows ==
  ASSUME NEW p \in Pacers, NEW h, Tidy(p, h)
  PROVE  \A f \in Range(p.active) \cup Range(p.rtx) \cup Range(p.idle) : f \in Flow /\ To[f] = h
<1>1. p.active \in Seq(Flow) /\ p.rtx \in Seq(Flow) /\ p.idle \in Seq(Flow)
  BY PacerLists
<1>2. Range(p.active) \subseteq Flow /\ Range(p.rtx) \subseteq Flow /\ Range(p.idle) \subseteq Flow
  BY <1>1, SequenceFacts
<1> QED
  BY <1>2 DEF Tidy

LEMMA RangeEmpty ==
  ASSUME NEW f PROVE f \notin Range(<<>>)
BY DEF Range

PullTo(w, h, f, k, q) ==
    SendControlPacket(
        [w EXCEPT !.sink[f] = k,
                  !.pacer[h] = [q EXCEPT !.running = TRUE, !.events = @ + 1]],
        h, [kind |-> "pull", flow |-> f, no |-> k.latest])

LEMMA FullRetransmitting ==
  ASSUME NEW begun, NEW h \in Host, NEW w, Turning(w, h, begun), w.pacer[h].rtx # <<>>
  PROVE  LET p == w.pacer[h]
             f == Head(p.rtx)
             k == Pulled(w.sink[f])
         IN  Full(PullTo(w, h, f, k, [p EXCEPT !.rtx =
                    IF k.retx > 0 THEN Append(Tail(@), f) ELSE Tail(@)]), begun)
<1> DEFINE p == w.pacer[h]
           f == Head(p.rtx)
           s == w.sink[f]
           k == Pulled(s)
           more == k.retx > 0
           list == IF more THEN Append(Tail(p.rtx), Head(p.rtx)) ELSE Tail(p.rtx)
           q == [p EXCEPT !.rtx = list]
<1>0. p = w.pacer[h] /\ w.pacer[h].rtx # <<>>
  OBVIOUS
<1> HIDE DEF p
<1>1. /\ p \in Pacers /\ p.events = 0 /\ Tidy(p, h) /\ p.rtx \in Seq(Flow)
      /\ \A g \in Flow : To[g] = h => w.sink[g] \in Sinks /\ Agree(w.sink[g], p, g)
      /\ \A g \in Range(p.active) \cup Range(p.rtx) \cup Range(p.idle) : g \in Flow /\ To[g] = h
  <2>1. /\ p \in Pacers /\ p.events = 0 /\ Tidy(p, h)
        /\ p.rtx \in Seq(Flow)
    BY <1>0, TurningFacts
  <2>2. \A g \in Flow : To[g] = h => w.sink[g] \in Sinks /\ Agree(w.sink[g], p, g)
    BY <1>0, TurningFlows
  <2> QED
    BY <2>1, <2>2, TidyFlows
<1>2. p.rtx # <<>> /\ p = w.pacer[h] /\ more \in BOOLEAN /\ more = (k.retx > 0)
  BY <1>0
<1> HIDE DEF more
<1>3. /\ list \in Seq(Flow) /\ Distinct(list) /\ f \in Flow /\ f \in Range(p.rtx)
      /\ Range(list) = IF more THEN Range(p.rtx) ELSE Range(p.rtx) \ {f}
  BY <1>1, <1>2, TurnedFacts DEF Tidy
<1> HIDE DEF list, f
<1>4. To[f] = h /\ s \in Sinks /\ Agree(s, p, f)
  BY <1>1, <1>3
<1>5. k \in Sinks /\ Like(s, k) /\ k.inPull = s.inPull
  BY <1>4, PulledFacts
<1>6. s = w.sink[f]
  OBVIOUS
<1> HIDE DEF k, s
<1>7. /\ q \in Pacers /\ q.rtx = list /\ q.active = p.active /\ q.idle = p.idle
      /\ q.events = 0
  BY <1>1, <1>3 DEF Pacers
<1> HIDE DEF q
<1>8. Tidy(q, h)
  BY <1>1, <1>3, <1>4, <1>7 DEF Tidy
<1>9. Agree(k, q, f)
  BY <1>2, <1>3, <1>4, <1>5, <1>7 DEF Agree
<1>10. \A g \in Flow : g # f =>
          /\ g \in Range(q.active) <=> g \in Range(w.pacer[h].active)
          /\ g \in Range(q.rtx) <=> g \in Range(w.pacer[h].rtx)
  BY <1>2, <1>3, <1>7
<1>11. Full(PullTo(w, h, f, k, q), begun)
  BY <1>3, <1>4, <1>5, <1>6, <1>7, <1>8, <1>9, <1>10, FullPull DEF PullTo
<1> QED
  BY <1>11 DEF p, f, s, k, more, list, q

LEMMA FullActive ==
  ASSUME NEW begun, NEW h \in Host, NEW w, Turning(w, h, begun),
         w.pacer[h].rtx = <<>>, w.pacer[h].active # <<>>
  PROVE  LET p == w.pacer[h]
             f == Head(p.active)
             k == Pulled(w.sink[f])
         IN  /\ Full(PullTo(w, h, f, k, [p EXCEPT !.active = Append(Tail(@), f)]), begun)
             /\ Full(PullTo(w, h, f, [k EXCEPT !.inPull = FALSE, !.inSlow = TRUE],
                            [p EXCEPT !.active = Tail(@), !.idle = Append(@, f)]), begun)
<1> DEFINE p == w.pacer[h]
           f == Head(p.active)
           s == w.sink[f]
           k == Pulled(s)
           j == [k EXCEPT !.inPull = FALSE, !.inSlow = TRUE]
           longer == Append(Tail(p.active), f)
           shorter == Tail(p.active)
           idle == Append(p.idle, f)
           q == [p EXCEPT !.active = longer]
           r == [p EXCEPT !.active = shorter, !.idle = idle]
<1>0. p = w.pacer[h] /\ w.pacer[h].rtx = <<>> /\ w.pacer[h].active # <<>>
  OBVIOUS
<1> HIDE DEF p
<1>1. /\ p \in Pacers /\ p.events = 0 /\ Tidy(p, h)
      /\ p.active \in Seq(Flow) /\ p.idle \in Seq(Flow)
      /\ \A g \in Flow : To[g] = h => w.sink[g] \in Sinks /\ Agree(w.sink[g], p, g)
      /\ \A g \in Range(p.active) \cup Range(p.rtx) \cup Range(p.idle) : g \in Flow /\ To[g] = h
  <2>1. /\ p \in Pacers /\ p.events = 0 /\ Tidy(p, h)
        /\ p.active \in Seq(Flow) /\ p.idle \in Seq(Flow)
    BY <1>0, TurningFacts
  <2>2. \A g \in Flow : To[g] = h => w.sink[g] \in Sinks /\ Agree(w.sink[g], p, g)
    BY <1>0, TurningFlows
  <2> QED
    BY <2>1, <2>2, TidyFlows
<1>2. p.rtx = <<>> /\ p.active # <<>> /\ p = w.pacer[h]
  BY <1>0
<1>3. /\ longer \in Seq(Flow) /\ Distinct(longer) /\ f \in Flow /\ f \in Range(p.active)
      /\ Range(longer) = Range(p.active)
  BY <1>1, <1>2, TurnedFacts, Zenon DEF Tidy
<1>4. /\ shorter \in Seq(Flow) /\ Distinct(shorter) /\ Range(shorter) = Range(p.active) \ {f}
  BY <1>1, <1>2, TurnedFacts, Zenon DEF Tidy
<1>5. idle \in Seq(Flow) /\ Range(idle) = Range(p.idle) \cup {f}
  BY <1>1, <1>3, SequenceFacts
<1> HIDE DEF longer, shorter, idle, f
<1>6. To[f] = h /\ s \in Sinks /\ Agree(s, p, f)
  BY <1>1, <1>3
<1>7. s.inPull = TRUE /\ s.retx = 0
  BY <1>2, <1>3, <1>6, RangeEmpty DEF Agree, Sinks
<1>8. k \in Sinks /\ Like(s, k) /\ k.inPull = TRUE /\ k.retx = 0
  BY <1>6, <1>7, PulledFacts
<1>9. s = w.sink[f]
  OBVIOUS
<1> HIDE DEF k, s
<1>10. j \in Sinks /\ Like(k, j) /\ j.inPull = FALSE /\ j.retx = 0
  BY <1>8 DEF Sinks, Like
<1> HIDE DEF j
<1>11. /\ q \in Pacers /\ q.rtx = p.rtx /\ q.active = longer /\ q.idle = p.idle
       /\ q.events = 0
  BY <1>1, <1>3 DEF Pacers
<1>12. /\ r \in Pacers /\ r.rtx = p.rtx /\ r.active = shorter /\ r.idle = idle
       /\ r.events = 0
  BY <1>1, <1>4, <1>5 DEF Pacers
<1> HIDE DEF q, r
<1>13. Tidy(q, h) /\ Tidy(r, h)
  BY <1>1, <1>3, <1>4, <1>5, <1>6, <1>11, <1>12 DEF Tidy
<1>14. f \notin Range(p.rtx)
  BY <1>2, RangeEmpty
<1>15. Agree(k, q, f) /\ Agree(j, r, f)
  BY <1>3, <1>4, <1>8, <1>10, <1>11, <1>12, <1>14 DEF Agree
<1>16. \A g \in Flow : g # f =>
          /\ g \in Range(q.active) <=> g \in Range(w.pacer[h].active)
          /\ g \in Range(q.rtx) <=> g \in Range(w.pacer[h].rtx)
  BY <1>2, <1>3, <1>11
<1>17. \A g \in Flow : g # f =>
          /\ g \in Range(r.active) <=> g \in Range(w.pacer[h].active)
          /\ g \in Range(r.rtx) <=> g \in Range(w.pacer[h].rtx)
  BY <1>2, <1>4, <1>12
<1>18. Full(PullTo(w, h, f, k, q), begun)
  BY <1>3, <1>6, <1>8, <1>9, <1>11, <1>13, <1>15, <1>16, FullPull DEF PullTo
<1>19. Like(s, j)
  BY <1>8, <1>10 DEF Like
<1>20. Full(PullTo(w, h, f, j, r), begun)
  BY <1>3, <1>6, <1>9, <1>10, <1>12, <1>13, <1>15, <1>17, <1>19, FullPull DEF PullTo
<1> QED
  BY <1>18, <1>20 DEF p, f, s, k, j, longer, shorter, idle, q, r

LEMMA FullIdle ==
  ASSUME NEW begun, NEW h \in Host, NEW w, Turning(w, h, begun),
         w.pacer[h].rtx = <<>>, w.pacer[h].active = <<>>, w.pacer[h].idle # <<>>
  PROVE  LET p == w.pacer[h]
             f == Head(p.idle)
             s == w.sink[f]
             k == Pulled(IF s.inSlow THEN s
                         ELSE [s EXCEPT !.inPull = FALSE, !.inSlow = TRUE])
         IN  /\ Full(PullTo(w, h, f, k, [p EXCEPT !.idle = Append(Tail(@), f)]), begun)
             /\ Full(PullTo(w, h, f, [k EXCEPT !.inPull = FALSE, !.inSlow = FALSE],
                            [p EXCEPT !.idle = Tail(@)]), begun)
<1> DEFINE p == w.pacer[h]
           f == Head(p.idle)
           s == w.sink[f]
           a == IF s.inSlow THEN s ELSE [s EXCEPT !.inPull = FALSE, !.inSlow = TRUE]
           k == Pulled(a)
           j == [k EXCEPT !.inPull = FALSE, !.inSlow = FALSE]
           longer == Append(Tail(p.idle), f)
           shorter == Tail(p.idle)
           q == [p EXCEPT !.idle = longer]
           r == [p EXCEPT !.idle = shorter]
<1>0. /\ p = w.pacer[h] /\ w.pacer[h].rtx = <<>> /\ w.pacer[h].active = <<>>
      /\ w.pacer[h].idle # <<>>
  OBVIOUS
<1> HIDE DEF p
<1>1. /\ p \in Pacers /\ p.events = 0 /\ Tidy(p, h) /\ p.idle \in Seq(Flow)
  BY <1>0, TurningFacts
<1>2. \A g \in Flow : To[g] = h => w.sink[g] \in Sinks /\ Agree(w.sink[g], p, g)
  BY <1>0, TurningFlows
<1>3. \A g \in Range(p.idle) : g \in Flow /\ To[g] = h
  BY <1>1, TidyFlows
<1>4. p.rtx = <<>> /\ p.active = <<>> /\ p.idle # <<>> /\ p = w.pacer[h]
  BY <1>0
<1>5. /\ shorter \in Seq(Flow) /\ f \in Flow /\ f \in Range(p.idle)
      /\ Range(shorter) \subseteq Range(p.idle)
  <2>1. shorter \in Seq(Flow) /\ Range(shorter) \subseteq Range(p.idle) /\ f \in Range(p.idle)
    BY <1>1, <1>4, SequenceFacts
  <2> QED
    BY <1>3, <2>1
<1> HIDE DEF shorter
<1>6. longer \in Seq(Flow) /\ Range(longer) \subseteq Range(p.idle)
  <2>1. longer = Append(shorter, f)
    BY DEF shorter
  <2> HIDE DEF longer, f
  <2>2. Append(shorter, f) \in Seq(Flow) /\ Range(Append(shorter, f)) = Range(shorter) \cup {f}
    BY <1>5, SequenceFacts
  <2> QED
    BY <1>5, <2>1, <2>2
<1> HIDE DEF longer, f
<1>7. To[f] = h /\ s \in Sinks /\ Agree(s, p, f)
  BY <1>2, <1>3, <1>5
<1>8. s.inPull = FALSE /\ s.retx = 0
  BY <1>4, <1>7, RangeEmpty DEF Agree, Sinks
<1>9. s = w.sink[f]
  OBVIOUS
<1> HIDE DEF s
<1>10. a \in Sinks /\ Like(s, a) /\ a.inPull = FALSE /\ a.retx = 0
  BY <1>7, <1>8 DEF Sinks, Like
<1> HIDE DEF a
<1>11. k \in Sinks /\ Like(a, k) /\ k.inPull = FALSE /\ k.retx = 0
  BY <1>10, PulledFacts
<1> HIDE DEF k
<1>12. j \in Sinks /\ Like(k, j) /\ j.inPull = FALSE /\ j.retx = 0
  BY <1>11 DEF Sinks, Like
<1> HIDE DEF j
<1>13. Like(s, k) /\ Like(s, j)
  BY <1>10, <1>11, <1>12 DEF Like
<1>14. q \in Pacers /\ q.rtx = p.rtx /\ q.active = p.active /\ q.idle = longer /\ q.events = 0
  BY <1>1, <1>6 DEF Pacers
<1>15. r \in Pacers /\ r.rtx = p.rtx /\ r.active = p.active /\ r.idle = shorter /\ r.events = 0
  BY <1>1, <1>5 DEF Pacers
<1> HIDE DEF q, r
<1>16. Tidy(q, h) /\ Tidy(r, h)
  BY <1>1, <1>5, <1>6, <1>14, <1>15 DEF Tidy
<1>17. Agree(k, q, f) /\ Agree(j, r, f)
  BY <1>4, <1>11, <1>12, <1>14, <1>15, RangeEmpty DEF Agree
<1>18. \A g \in Flow : g # f =>
          /\ g \in Range(q.active) <=> g \in Range(w.pacer[h].active)
          /\ g \in Range(q.rtx) <=> g \in Range(w.pacer[h].rtx)
  BY <1>4, <1>14
<1>19. \A g \in Flow : g # f =>
          /\ g \in Range(r.active) <=> g \in Range(w.pacer[h].active)
          /\ g \in Range(r.rtx) <=> g \in Range(w.pacer[h].rtx)
  BY <1>4, <1>15
<1>20. Full(PullTo(w, h, f, k, q), begun)
  BY <1>5, <1>7, <1>9, <1>11, <1>13, <1>14, <1>16, <1>17, <1>18, FullPull DEF PullTo
<1>21. Full(PullTo(w, h, f, j, r), begun)
  BY <1>5, <1>7, <1>9, <1>12, <1>13, <1>15, <1>16, <1>17, <1>19, FullPull DEF PullTo
<1> QED
  BY <1>20, <1>21 DEF p, f, s, a, k, j, longer, shorter, q, r

LEMMA FullAsserted ==
  ASSUME NEW begun, NEW w, Full(w, begun), NEW claim
  PROVE  Full(Asserted(w, claim), begun)
BY AssertedOK, AssertedField DEF Full, WorldOK

LEMMA FullPacerTurn ==
  ASSUME NEW begun, NEW h \in Host, NEW w, Turning(w, h, begun)
  PROVE  Full(PacerTurn(w, h), begun)
<1> DEFINE p == w.pacer[h]
<1>1. CASE p.rtx # <<>>
  <2> DEFINE f == Head(p.rtx)
             k == Pulled(w.sink[f])
             v == PullTo(w, h, f, k, [p EXCEPT !.rtx =
                      IF k.retx > 0 THEN Append(Tail(@), f) ELSE Tail(@)])
  <2>1. PacerTurn(w, h) = v
    BY <1>1, Zenon DEF PacerTurn, PullTo
  <2>2. Full(v, begun)
    BY <1>1, FullRetransmitting
  <2> QED
    BY <2>1, <2>2
<1>2. CASE p.rtx = <<>> /\ p.active # <<>>
  <2> DEFINE f == Head(p.active)
             k == Pulled(w.sink[f])
             u == PullTo(w, h, f, k, [p EXCEPT !.active = Append(Tail(@), f)])
             v == PullTo(w, h, f, [k EXCEPT !.inPull = FALSE, !.inSlow = TRUE],
                         [p EXCEPT !.active = Tail(@), !.idle = Append(@, f)])
  <2>1. PacerTurn(w, h) = Asserted(IF Backlog(k) > 0 THEN u ELSE v, k.inPull)
    BY <1>2, Zenon DEF PacerTurn, PullTo
  <2>2. Full(u, begun) /\ Full(v, begun)
    BY <1>2, FullActive
  <2> QED
    BY <2>1, <2>2, FullAsserted
<1>3. CASE p.rtx = <<>> /\ p.active = <<>> /\ p.idle # <<>>
  <2> DEFINE f == Head(p.idle)
             s == w.sink[f]
             k == Pulled(IF s.inSlow THEN s
                         ELSE [s EXCEPT !.inPull = FALSE, !.inSlow = TRUE])
             more == /\ Backlog(k) = 0
                     /\ SlowCredit(k) < (Window * Mtu) \div Quantum
             u == PullTo(w, h, f, k, [p EXCEPT !.idle = Append(Tail(@), f)])
             v == PullTo(w, h, f, [k EXCEPT !.inPull = FALSE, !.inSlow = FALSE],
                         [p EXCEPT !.idle = Tail(@)])
  <2>1. PacerTurn(w, h) = IF more THEN u ELSE v
    BY <1>3, Zenon DEF PacerTurn, PullTo
  <2>2. Full(u, begun) /\ Full(v, begun)
    BY <1>3, FullIdle
  <2> QED
    BY <2>1, <2>2
<1>4. CASE p.rtx = <<>> /\ p.active = <<>> /\ p.idle = <<>>
  <2> DEFINE q == [p EXCEPT !.running = FALSE]
             v == WithPacer(w, h, q)
  <2>1. PacerTurn(w, h) = v
    BY <1>4 DEF PacerTurn, WithPacer
  <2>2. /\ p \in Pacers /\ p.events = 0 /\ Tidy(p, h)
    BY TurningFacts
  <2>3. p = w.pacer[h]
    OBVIOUS
  <2> HIDE DEF p
  <2>4. /\ q \in Pacers /\ q.rtx = p.rtx /\ q.active = p.active /\ q.idle = p.idle
        /\ q.events = 0 /\ q.running = FALSE
    BY <2>2 DEF Pacers
  <2> HIDE DEF q
  <2>5. Tidy(q, h) /\ Awake(q)
    BY <2>2, <2>4 DEF Tidy, Awake
  <2>6. w \in Worlds /\ WorldOK(w, NoneLate, begun) /\ Listed(w.sink, w.pacer)
        /\ \A g \in Host : g # h => Awake(w.pacer[g])
    BY DEF Turning, WorldOK
  <2>7. WorldOK(v, NoneLate, begun)
    BY <2>4, <2>6, PacerOK
  <2>8. v.sink = w.sink /\ v.pacer[h] = q /\ \A g \in Host : g # h => v.pacer[g] = w.pacer[g]
    BY <2>6, PacerField
  <2> HIDE DEF v
  <2>9. \A g \in Host : Tidy(v.pacer[g], g) /\ Awake(v.pacer[g])
    BY <2>5, <2>6, <2>8 DEF Listed
  <2>10. ASSUME NEW f \in Flow PROVE Agree(v.sink[f], v.pacer[To[f]], f)
    <3>1. To[f] \in Host
      BY EqdsConstants
    <3>2. Agree(w.sink[f], w.pacer[To[f]], f)
      BY <2>6 DEF Listed
    <3> QED
      BY <2>3, <2>4, <2>8, <3>1, <3>2 DEF Agree
  <2> QED
    BY <2>1, <2>7, <2>9, <2>10 DEF Full, ListsOK, Listed
<1> QED
  BY <1>1, <1>2, <1>3, <1>4
-----------------------------------------------------------------------------
(* The instants in use are finitely many; renumbered, they serve the       *)
(* sources as before.                                                      *)
LEMMA ImageFinite ==
  ASSUME NEW S, IsFiniteSet(S), NEW g
  PROVE  IsFiniteSet({g[x] : x \in S})
<1> DEFINE T == {g[x] : x \in S}
           m == [x \in S |-> g[x]]
<1>1. m \in Surjection(S, T)
  BY DEF Surjection
<1> HIDE DEF T, m
<1>2. IsFiniteSet(T)
  BY <1>1, FS_Surjection
<1> QED
  BY <1>2 DEF T

LEMMA NumberFacts ==
  ASSUME NEW S \in SUBSET Instants, IsFiniteSet(S)
  PROVE  /\ \A t : Number(S, t) \in Nat
         /\ Number(S, 0) = 0
         /\ \A t \in S : Number(S, t) \in Instants
<1>1. ASSUME NEW t PROVE Number(S, t) \in Nat
  <2>1. IsFiniteSet({u \in S : u <= t})
    BY FS_Subset
  <2> QED
    BY <2>1, FS_CardinalityType DEF Number
<1>2. Number(S, 0) = 0
  <2>1. ASSUME NEW u \in S, u <= 0 PROVE FALSE
    <3>1. u \in Nat \ {0}
      BY DEF Instants
    <3> QED
      BY <2>1, <3>1
  <2>2. {u \in S : u <= 0} = {}
    BY <2>1
  <2> QED
    BY <2>2, FS_EmptySet DEF Number
<1>3. ASSUME NEW t \in S PROVE Number(S, t) \in Instants
  <2> DEFINE B == {u \in S : u <= t}
  <2>1. IsFiniteSet(B)
    BY FS_Subset
  <2>2. t \in B
    BY DEF Instants
  <2>3. Number(S, t) = Cardinality(B)
    BY DEF Number
  <2> HIDE DEF B
  <2>4. Cardinality(B) # 0
    BY <2>1, <2>2, FS_EmptySet
  <2> QED
    BY <1>1, <2>3, <2>4 DEF Instants
<1> QED
  BY <1>1, <1>2, <1>3

LEMMA RenumberedFacts ==
  ASSUME NEW s \in Sources, NEW limit, SourceOK(s, {}, limit),
         NEW S \in SUBSET Instants, IsFiniteSet(S),
         DOMAIN s.times \subseteq S, \A seq \in DOMAIN s.tx : s.tx[seq] \in S
  PROVE  LET t == Renumbered(s, S) IN
         /\ t \in Sources /\ SourceOK(t, {}, limit)
         /\ t.rts = s.rts /\ t.highest = s.highest /\ t.done = s.done
<1> DEFINE tx == [seq \in DOMAIN s.tx |-> Number(S, s.tx[seq])]
           D == {Number(S, t) : t \in DOMAIN s.times}
           times == [n \in D |-> s.times[CHOOSE t \in DOMAIN s.times : Number(S, t) = n]]
           timer == Number(S, s.timer)
           last == Number(S, s.lastRts)
           t == [s EXCEPT !.tx = tx, !.times = times, !.timer = timer, !.lastRts = last]
<1>1. Renumbered(s, S) = t
  BY DEF Renumbered
<1>2. /\ s.tx \in Table(Nat, Instants) /\ s.times \in Table(Instants, Nat)
      /\ DOMAIN s.tx \subseteq Nat
  BY TableEntry DEF Sources
<1>3. tx \in Table(Nat, Instants) /\ DOMAIN tx = DOMAIN s.tx
  <2>1. tx \in [DOMAIN s.tx -> Instants]
    BY NumberFacts
  <2> QED
    BY <1>2, <2>1, TableEntry
<1>4. D \subseteq Instants
  BY NumberFacts
<1>5. IsFiniteSet(D)
  <2> DEFINE g == [u \in DOMAIN s.times |-> Number(S, u)]
  <2>1. D = {g[u] : u \in DOMAIN s.times}
    OBVIOUS
  <2> HIDE DEF g, D
  <2> QED
    BY <2>1, ImageFinite DEF SourceOK
<1>6. ASSUME NEW n \in D PROVE times[n] \in Nat /\ times[n] \in Sent(s)
  <2> DEFINE c == CHOOSE u \in DOMAIN s.times : Number(S, u) = n
  <2>1. c \in DOMAIN s.times
    OBVIOUS
  <2>2. times[n] = s.times[c]
    OBVIOUS
  <2> HIDE DEF c, times
  <2> QED
    BY <2>1, <2>2 DEF SourceOK, Sent, Sources
<1>7. times \in Table(Instants, Nat) /\ DOMAIN times = D
  <2>1. DOMAIN times = D
    OBVIOUS
  <2>2. times = [n \in D |-> times[n]]
    OBVIOUS
  <2> HIDE DEF times, D
  <2>3. times \in [D -> Nat]
    BY <1>6, <2>2
  <2> QED
    BY <1>4, <2>1, <2>3, TableEntry
<1>8. timer \in D \cup {0} /\ timer \in Nat /\ last \in Nat
  BY NumberFacts DEF SourceOK
<1> HIDE DEF tx, D, times, timer, last
<1>9. /\ t \in Sources /\ t.rts = s.rts /\ t.rtx = s.rtx /\ t.tx = tx /\ t.times = times
      /\ t.timer = timer /\ t.highest = s.highest /\ t.unsent = s.unsent /\ t.done = s.done
  BY <1>3, <1>7, <1>8 DEF Sources
<1> HIDE DEF t
<1>10. SourceOK(t, {}, limit)
  BY <1>3, <1>5, <1>6, <1>7, <1>8, <1>9 DEF SourceOK, Sent, DataSent
<1> QED
  BY <1>1, <1>9, <1>10

LEMMA InUseFacts ==
  ASSUME NEW begun, NEW v, WorldOK(v, NoneLate, begun)
  PROVE  /\ InUse(v) \subseteq Instants /\ IsFiniteSet(InUse(v))
         /\ \A f \in Flow : /\ DOMAIN v.src[f].times \subseteq InUse(v)
                            /\ \A seq \in DOMAIN v.src[f].tx : v.src[f].tx[seq] \in InUse(v)
<1> DEFINE part == [f \in Flow |-> DOMAIN v.src[f].times \cup Range(v.src[f].tx)
                                      \cup {v.src[f].lastRts}]
           all == UNION {part[f] : f \in Flow}
<1>1. InUse(v) = all \ {0}
  <2>1. \A f \in Flow : part[f] = DOMAIN v.src[f].times \cup Range(v.src[f].tx)
                                      \cup {v.src[f].lastRts}
    OBVIOUS
  <2> HIDE DEF part
  <2>2. {part[f] : f \in Flow} = {DOMAIN v.src[f].times \cup Range(v.src[f].tx)
                                      \cup {v.src[f].lastRts} : f \in Flow}
    BY <2>1
  <2> DEFINE other == {DOMAIN v.src[f].times \cup Range(v.src[f].tx)
                          \cup {v.src[f].lastRts} : f \in Flow}
  <2>3. InUse(v) = (UNION other) \ {0}
    BY Zenon DEF InUse
  <2> HIDE DEF other
  <2>4. {part[f] : f \in Flow} = other
    BY <2>2 DEF other
  <2> QED
    BY <2>3, <2>4
<1>2. ASSUME NEW f \in Flow
      PROVE  /\ IsFiniteSet(part[f]) /\ part[f] \subseteq Nat
             /\ DOMAIN v.src[f].times \subseteq part[f] \ {0}
             /\ \A seq \in DOMAIN v.src[f].tx : v.src[f].tx[seq] \in part[f] \ {0}
  <2> DEFINE s == v.src[f]
  <2>1. s \in Sources /\ SourceOK(s, {}, Limit(f, begun))
    BY DEF WorldOK, Worlds, NoneLate, Limit
  <2>2. part[f] = DOMAIN s.times \cup Range(s.tx) \cup {s.lastRts}
    OBVIOUS
  <2> HIDE DEF part, s
  <2>3. /\ DOMAIN s.times \subseteq Instants /\ s.lastRts \in Nat /\ s.highest \in Nat
        /\ \A seq \in DOMAIN s.tx : s.tx[seq] \in Instants
    BY <2>1, TableEntry DEF Sources
  <2>4. IsFiniteSet(DOMAIN s.tx)
    <3>1. IsFiniteSet(Sent(s))
      BY <2>3, FS_Interval DEF Sent
    <3> QED
      BY <2>1, <3>1, FS_Subset DEF SourceOK
  <2>5. Range(s.tx) = {s.tx[seq] : seq \in DOMAIN s.tx}
    BY DEF Range
  <2>6. IsFiniteSet(Range(s.tx))
    BY <2>4, <2>5, ImageFinite
  <2>7. IsFiniteSet(part[f])
    <3>1. IsFiniteSet(DOMAIN s.times)
      BY <2>1 DEF SourceOK
    <3>2. IsFiniteSet(DOMAIN s.times \cup Range(s.tx))
      BY <2>6, <3>1, FS_Union
    <3> QED
      BY <2>2, <3>2, FS_AddElement
  <2> QED
    BY <2>2, <2>3, <2>5, <2>7 DEF Instants, s
<1> HIDE DEF part
<1>3. IsFiniteSet(all)
  <2>1. IsFiniteSet({part[f] : f \in Flow})
    BY ImageFinite, EqdsConstants
  <2> QED
    BY <1>2, <2>1, FS_UNION
<1>4. IsFiniteSet(all \ {0})
  BY <1>3, FS_Subset
<1>5. all \subseteq Nat
  BY <1>2
<1> QED
  BY <1>1, <1>2, <1>4, <1>5 DEF Instants

LEMMA TickFacts ==
  ASSUME NEW begun, NEW v, WorldOK(v, NoneLate, begun)
  PROVE  /\ WorldOK(Tick(v), NoneLate, begun)
         /\ Tick(v).sink = v.sink /\ Tick(v).pacer = v.pacer
<1> DEFINE S == InUse(v)
           source == [f \in Flow |-> Renumbered(v.src[f], S)]
           n == Cardinality(S) + 1
           t == [v EXCEPT !.src = source, !.now = n]
<1>1. Tick(v) = t
  BY DEF Tick
<1>2. /\ S \in SUBSET Instants /\ IsFiniteSet(S)
      /\ \A f \in Flow : /\ DOMAIN v.src[f].times \subseteq S
                         /\ \A seq \in DOMAIN v.src[f].tx : v.src[f].tx[seq] \in S
  BY InUseFacts
<1>3. v \in Worlds
  BY DEF WorldOK
<1>4. n \in Instants
  BY <1>2, FS_CardinalityType DEF Instants
<1> HIDE DEF S, n
<1>5. ASSUME NEW f \in Flow
      PROVE  /\ v.src[f] \in Sources /\ SinkOK(v.src[f], v.sink[f])
             /\ DoneOK(v.src[f], v.sink[f], f) /\ SourceOK(v.src[f], {}, Limit(f, begun))
  BY DEF WorldOK, Worlds, NoneLate, Limit
<1>6. ASSUME NEW f \in Flow
      PROVE  /\ source[f] \in Sources /\ SourceOK(source[f], {}, Limit(f, begun))
             /\ source[f].rts = v.src[f].rts /\ source[f].highest = v.src[f].highest
             /\ source[f].done = v.src[f].done
  <2>1. source[f] = Renumbered(v.src[f], S)
    OBVIOUS
  <2> HIDE DEF source
  <2> QED
    BY <1>2, <1>5, <2>1, RenumberedFacts
<1>7. source \in [Flow -> Sources]
  <2>1. source = [f \in Flow |-> source[f]]
    OBVIOUS
  <2> HIDE DEF source
  <2> QED
    BY <1>6, <2>1
<1> HIDE DEF source
<1>8. /\ t \in Worlds /\ t.src = source /\ t.sink = v.sink /\ t.pacer = v.pacer
      /\ t.nic = v.nic /\ t.net = v.net
  BY <1>3, <1>4, <1>7 DEF Worlds
<1> HIDE DEF t
<1>9. ASSUME NEW f \in Flow
      PROVE  /\ SourceOK(t.src[f], {}, Limit(f, begun))
             /\ SinkOK(t.src[f], t.sink[f]) /\ DoneOK(t.src[f], t.sink[f], f)
  BY <1>5, <1>6, <1>8 DEF SinkOK, DoneOK, Sent
<1>10. ASSUME NEW p \in DOMAIN t.net \cup Controls(t) PROVE PacketOK(t, p)
  <2>1. p \in Messages /\ PacketOK(v, p) /\ p.flow \in Flow
    BY <1>3, <1>8, PacketTypes, MessageKinds DEF WorldOK, Controls
  <2> QED
    BY <1>6, <1>8, <2>1 DEF PacketOK, Sent, PacketSize
<1>11. WorldOK(t, NoneLate, begun)
  BY <1>8, <1>9, <1>10 DEF WorldOK, Limit, NoneLate
<1> QED
  BY <1>1, <1>8, <1>11
-----------------------------------------------------------------------------
(* The events.                                                             *)
LEMMA EventFull ==
  ASSUME NEW began, NEW v, Full(v, began), Event(v)
  PROVE  WorldOK(World', NoneLate, began) /\ ListsOK(sink', pacer')
<1> DEFINE t == Tick(v)
<1>1. WorldOK(t, NoneLate, began) /\ t.sink = v.sink /\ t.pacer = v.pacer
  BY TickFacts DEF Full
<1>2. /\ src' = t.src /\ nic' = t.nic /\ sink' = t.sink /\ pacer' = t.pacer
      /\ net' = t.net /\ now' = t.now /\ ok' = t.ok
  BY DEF Event
<1> HIDE DEF t
<1>3. World' = t
  BY <1>1, <1>2 DEF World, WorldOK, Worlds
<1> QED
  BY <1>1, <1>2, <1>3 DEF Full

LEMMA FullWorld ==
  ASSUME IInv
  PROVE  /\ Full(World, started) /\ World \in Worlds
         /\ World.src = src /\ World.nic = nic /\ World.sink = sink /\ World.pacer = pacer
         /\ World.net = net
<1>1. /\ World.src = src /\ World.nic = nic /\ World.sink = sink /\ World.pacer = pacer
      /\ World.net = net
  BY DEF World
<1> QED
  BY <1>1 DEF IInv, Full, WorldOK

LEMMA FullTake ==
  ASSUME IInv, NEW p \in Flying
  PROVE  /\ Full(Take(p), started) /\ p \in Messages
         /\ PacketOK(Take(p), p)
<1> DEFINE bag == InFlight!BagRemove(World.net, p)
           v == WithNet(World, bag)
<1>1. Take(p) = v
  BY DEF Take, WithNet
<1>2. Full(World, started) /\ World \in Worlds /\ World.net = net
  BY FullWorld
<1>3. p \in DOMAIN World.net
  BY <1>2 DEF Flying
<1>4. p \in Messages /\ PacketOK(World, p)
  BY <1>2, <1>3, PacketTypes DEF Full, WorldOK
<1>5. WorldOK(v, NoneLate, started)
  BY <1>2, <1>4, TakeOK DEF Full
<1>6. v.src = World.src /\ v.sink = World.sink /\ v.pacer = World.pacer
  BY <1>2, <1>4, TakeField
<1> HIDE DEF v
<1> QED
  BY <1>1, <1>2, <1>4, <1>5, <1>6 DEF Full, PacketOK

LEMMA StepStart ==
  ASSUME IInv, NEW f \in Flow, Start(f)
  PROVE  IInv'
<1> DEFINE v == StartFlow(World, f)
<1>1. /\ f \notin started /\ Event(v) /\ started' = started \cup {f}
  BY DEF Start
<1>2. Full(World, started)
  BY FullWorld
<1>3. Leaves(World, v, NoneLate, started \cup {f})
  BY <1>1, <1>2, LeavesStartFlow DEF Full
<1> HIDE DEF v
<1>4. Full(v, started \cup {f})
  BY <1>2, <1>3, FullCalls DEF Full
<1>5. WorldOK(World', NoneLate, started \cup {f}) /\ ListsOK(sink', pacer')
  BY <1>1, <1>4, EventFull
<1> QED
  BY <1>1, <1>5 DEF IInv

LEMMA StepTimeout ==
  ASSUME IInv, NEW f \in Flow, Timeout(f)
  PROVE  IInv'
<1> DEFINE s == src[f]
           r == [s EXCEPT !.timer = 0]
           w == WithSource(World, f, r)
           v == RtxTimerExpired(w, f)
<1>1. World.src = src /\ Full(World, started) /\ World \in Worlds
  BY FullWorld
<1>2. s.timer # 0 /\ Event(v) /\ started' = started
  BY <1>1 DEF Timeout, WithSource
<1>3. s \in Sources /\ SourceOK(s, {}, Limit(f, started))
  BY <1>1 DEF Full, WorldOK, Worlds, NoneLate, Limit
<1>4. World.src[f] = s
  BY <1>1
<1> HIDE DEF s
<1>5. /\ r \in Sources /\ r.rts = s.rts /\ r.rtx = s.rtx /\ r.tx = s.tx /\ r.times = s.times
      /\ r.timer = 0 /\ r.highest = s.highest /\ r.unsent = s.unsent /\ r.done = s.done
  BY <1>3 DEF Sources
<1> HIDE DEF r
<1>6. SourceOK(r, {}, Limit(f, started)) /\ Grows(s, r) /\ DOMAIN r.times # {}
  BY <1>2, <1>3, <1>5 DEF SourceOK, Sent, DataSent, Grows, Sources
<1>7. Keeps(World, w, NoneLate, started) /\ w.src[f] = r
  <2>1. SourceOK(r, NoneLate[f], Limit(f, started))
    BY <1>6 DEF NoneLate
  <2>2. WorldOK(World, NoneLate, started)
    BY <1>1 DEF Full
  <2> QED
    BY <1>4, <1>5, <1>6, <2>1, <2>2, KeepsSource
<1> HIDE DEF w
<1>8. Leaves(w, v, NoneLate, started)
  BY <1>6, <1>7, LeavesRtxTimerExpired DEF Keeps
<1> HIDE DEF v
<1>9. ListsOK(w.sink, w.pacer)
  BY <1>1, <1>7 DEF Full, Keeps, Calls
<1>10. Full(v, started)
  BY <1>8, <1>9, FullCalls
<1>11. WorldOK(World', NoneLate, started) /\ ListsOK(sink', pacer')
  BY <1>2, <1>10, EventFull
<1> QED
  BY <1>2, <1>11 DEF IInv

LEMMA FullKeeps ==
  ASSUME NEW begun, NEW w, NEW v, Full(w, begun), Keeps(w, v, NoneLate, begun)
  PROVE  Full(v, begun)
BY DEF Full, Keeps, Calls

LEMMA StepCard ==
  ASSUME IInv, NEW h \in Host, CardEvent(h) \/ CardIdle(h)
  PROVE  IInv'
<1> DEFINE n == nic[h]
           m == n.events - 1
           a == [n EXCEPT !.events = m, !.phase = "ending"]
           b == [n EXCEPT !.phase = "idle"]
           u == WithCard(World, h, a)
           v == CardTurn(u, h)
           w == WithCard(World, h, b)
<1>1. World.nic = nic /\ Full(World, started) /\ World \in Worlds
  BY FullWorld
<1>2. n \in Cards /\ n.events \in Nat
  BY <1>1 DEF Worlds, Cards
<1>3. b \in Cards /\ b.control = n.control
  BY <1>2 DEF Cards
<1>4. World.nic[h] = n
  BY <1>1
<1>5. CASE CardEvent(h)
  <2>1. n.events > 0 /\ Event(v) /\ started' = started
    <3>1. u = [World EXCEPT !.nic[h].events = @ - 1, !.nic[h].phase = "ending"]
      BY <1>1 DEF WithCard, World, Worlds
    <3> QED
      BY <1>5, <3>1 DEF CardEvent
  <2>2. m \in Nat
    BY <1>2, <2>1
  <2> HIDE DEF m
  <2>3. a \in Cards /\ a.control = n.control
    BY <1>2, <2>2 DEF Cards
  <2> HIDE DEF n, a
  <2>4. Keeps(World, u, NoneLate, started)
    BY <1>1, <1>4, <2>3, KeepsCard DEF Full
  <2> HIDE DEF u
  <2>5. Keeps(u, v, NoneLate, started)
    BY <2>4, KeepsCardTurn DEF Keeps
  <2> HIDE DEF v
  <2>6. Full(v, started)
    BY <1>1, <2>4, <2>5, FullKeeps, KeepsTwice
  <2>7. WorldOK(World', NoneLate, started) /\ ListsOK(sink', pacer')
    BY <2>1, <2>6, EventFull
  <2> QED
    BY <2>1, <2>7 DEF IInv
<1>6. CASE CardIdle(h)
  <2>1. Event(w) /\ started' = started
    <3>1. w = [World EXCEPT !.nic[h].phase = "idle"]
      BY <1>1 DEF WithCard
    <3> QED
      BY <1>6, <3>1 DEF CardIdle
  <2> HIDE DEF n, b
  <2>2. Keeps(World, w, NoneLate, started)
    BY <1>1, <1>3, <1>4, KeepsCard DEF Full
  <2> HIDE DEF w
  <2>3. Full(w, started)
    BY <1>1, <2>2, FullKeeps
  <2>4. WorldOK(World', NoneLate, started) /\ ListsOK(sink', pacer')
    BY <2>1, <2>3, EventFull
  <2> QED
    BY <2>1, <2>4 DEF IInv
<1> QED
  BY <1>5, <1>6

LEMMA StepPacer ==
  ASSUME IInv, NEW h \in Host, PacerEvent(h)
  PROVE  IInv'
<1> DEFINE p == pacer[h]
           m == p.events - 1
           q == [p EXCEPT !.events = m]
           w == WithPacer(World, h, q)
           v == PacerTurn(w, h)
<1>1. World.pacer = pacer /\ Full(World, started) /\ World \in Worlds
  BY FullWorld
<1>2. p \in Pacers /\ World.pacer[h] = p
  BY <1>1 DEF Worlds
<1>3. p.events > 0 /\ Event(v) /\ started' = started
  <2>1. w = [World EXCEPT !.pacer[h].events = @ - 1]
    BY <1>1 DEF WithPacer
  <2> QED
    BY <2>1 DEF PacerEvent
<1>4. Awake(p) /\ Tidy(p, h)
  BY <1>1, <1>2 DEF Full, ListsOK, Listed
<1>5. m = 0 /\ m \in Nat
  BY <1>2, <1>3, <1>4 DEF Awake
<1> HIDE DEF p, m
<1>6. /\ q \in Pacers /\ q.events = 0 /\ q.active = p.active /\ q.rtx = p.rtx
      /\ q.idle = p.idle
  BY <1>2, <1>5 DEF Pacers
<1> HIDE DEF q
<1>7. WorldOK(w, NoneLate, started)
  BY <1>1, <1>6, PacerOK DEF Full
<1>8. /\ w.sink = World.sink /\ w.pacer[h] = q
      /\ \A g \in Host : g # h => w.pacer[g] = World.pacer[g]
  BY <1>1, PacerField
<1> HIDE DEF w
<1>9. Listed(w.sink, w.pacer)
  <2>1. \A g \in Host : Tidy(w.pacer[g], g)
    BY <1>1, <1>4, <1>6, <1>8 DEF Full, ListsOK, Listed, Tidy
  <2>2. ASSUME NEW f \in Flow PROVE Agree(w.sink[f], w.pacer[To[f]], f)
    <3>1. To[f] \in Host
      BY EqdsConstants
    <3>2. Agree(World.sink[f], World.pacer[To[f]], f)
      BY <1>1 DEF Full, ListsOK, Listed
    <3> QED
      BY <1>2, <1>6, <1>8, <3>1, <3>2 DEF Agree
  <2> QED
    BY <2>1, <2>2 DEF Listed
<1>10. \A g \in Host : g # h => Awake(w.pacer[g])
  BY <1>1, <1>8 DEF Full, ListsOK
<1>11. Turning(w, h, started)
  BY <1>6, <1>7, <1>8, <1>9, <1>10 DEF Turning
<1>12. Full(v, started)
  BY <1>11, FullPacerTurn
<1> HIDE DEF v
<1>13. WorldOK(World', NoneLate, started) /\ ListsOK(sink', pacer')
  BY <1>3, <1>12, EventFull
<1> QED
  BY <1>3, <1>13 DEF IInv

LEMMA StepPacket ==
  ASSUME IInv, NEW p \in Flying, Feedback(p) \/ Arrive(p)
  PROVE  IInv'
<1> DEFINE w == Take(p)
<1>1. Full(w, started) /\ p \in Messages /\ PacketOK(w, p)
  BY FullTake
<1> HIDE DEF w
<1>2. WorldOK(w, NoneLate, started) /\ ListsOK(w.sink, w.pacer)
  BY <1>1 DEF Full
<1>3. PICK v : Full(v, started) /\ Event(v)
  <2>1. CASE p.kind = "ack" /\ Event(ProcessAck(w, p.flow, p))
    <3>1. Leaves(w, ProcessAck(w, p.flow, p), NoneLate, started)
      BY <1>1, <1>2, <2>1, LeavesProcessAck
    <3> QED
      BY <1>2, <2>1, <3>1, FullCalls
  <2>2. CASE p.kind = "nack" /\ Event(ProcessNack(w, p.flow, p))
    <3>1. Leaves(w, ProcessNack(w, p.flow, p), NoneLate, started)
      BY <1>1, <1>2, <2>2, LeavesProcessNack
    <3> QED
      BY <1>2, <2>2, <3>1, FullCalls
  <2>3. CASE p.kind = "pull" /\ Event(ProcessPull(w, p.flow, p))
    <3>1. Leaves(w, ProcessPull(w, p.flow, p), NoneLate, started)
      BY <1>1, <1>2, <2>3, LeavesProcessPull
    <3> QED
      BY <1>2, <2>3, <3>1, FullCalls
  <2>4. CASE p.kind = "data" /\ Event(ProcessData(w, p.flow, p))
    BY <1>1, <2>4, FullData
  <2>5. CASE p.kind = "trimmed" /\ Event(ProcessTrimmed(w, p.flow, p))
    BY <1>1, <2>5, FullTrimmed
  <2>6. CASE p.kind = "rts" /\ Event(ProcessRts(w, p.flow, p))
    BY <1>1, <2>6, FullRts
  <2> QED
    BY <2>1, <2>2, <2>3, <2>4, <2>5, <2>6 DEF Feedback, Arrive, w
<1>4. WorldOK(World', NoneLate, started) /\ ListsOK(sink', pacer')
  BY <1>3, EventFull
<1>5. started' = started
  BY DEF Feedback, Arrive
<1> QED
  BY <1>4, <1>5 DEF IInv

LEMMA StepFault ==
  ASSUME IInv, NEW p \in Flying, Trim(p) \/ Drop(p)
  PROVE  IInv'
<1> DEFINE w == Take(p)
           q == [p EXCEPT !.kind = "trimmed", !.bytes = Hdr]
           v == SendOn(w, q)
<1>1. Full(w, started) /\ p \in Messages
  BY FullTake
<1> HIDE DEF w
<1>2. WorldOK(w, NoneLate, started) /\ w \in Worlds
  BY <1>1 DEF Full, WorldOK
<1>3. CASE Trim(p)
  <2>1. p.kind = "data" /\ Event(v) /\ started' = started
    BY <1>3 DEF Trim, w
  <2>2. q \in Messages /\ q.kind = "trimmed"
    <3>1. p \in [kind : {"data", "trimmed", "rts"}, flow : Flow, seq : Nat,
                 target : Int, bytes : Int, ar : BOOLEAN]
      BY <1>1, <2>1, MessageKinds
    <3>0. Hdr \in Int
      BY EqdsConstants
    <3>2. q \in [kind : {"data", "trimmed", "rts"}, flow : Flow, seq : Nat,
                 target : Int, bytes : Int, ar : BOOLEAN]
      BY <3>0, <3>1
    <3>3. q.kind = "trimmed"
      BY <3>1
    <3> HIDE DEF q
    <3> QED
      BY <3>2, <3>3 DEF Messages
  <2> HIDE DEF q
  <2>3. PacketOK(w, q)
    BY <2>2 DEF PacketOK
  <2>4. WorldOK(v, NoneLate, started)
    BY <1>2, <2>2, <2>3, SendOK
  <2>5. v.sink = w.sink /\ v.pacer = w.pacer
    BY <1>2, <2>2, SendField
  <2> HIDE DEF v
  <2>6. Full(v, started)
    BY <1>1, <2>4, <2>5 DEF Full
  <2>7. WorldOK(World', NoneLate, started) /\ ListsOK(sink', pacer')
    BY <2>1, <2>6, EventFull
  <2> QED
    BY <2>1, <2>7 DEF IInv
<1>4. CASE Drop(p)
  <2>1. Event(w) /\ started' = started
    BY <1>4 DEF Drop, w
  <2>2. WorldOK(World', NoneLate, started) /\ ListsOK(sink', pacer')
    BY <1>1, <2>1, EventFull
  <2> QED
    BY <2>1, <2>2 DEF IInv
<1> QED
  BY <1>3, <1>4

LEMMA StutterKeepsInv ==
  ASSUME IInv, UNCHANGED vars
  PROVE  IInv'
<1>1. World' = World /\ started' = started /\ sink' = sink /\ pacer' = pacer
  BY DEF vars, World
<1> QED
  BY <1>1 DEF IInv

LEMMA NextKeepsInv ==
  ASSUME IInv, [Next]_vars
  PROVE  IInv'
BY StepStart, StepTimeout, StepCard, StepPacer, StepPacket, StepFault, StutterKeepsInv DEF Next

LEMMA InitIInv ==
  ASSUME Init
  PROVE  IInv
<1>1. <<>> \in Table(Nat, Instants) /\ <<>> \in Table(Instants, Nat) /\ <<>> \in Table(Messages, Instants)
      /\ DOMAIN <<>> = {}
  <2>1. /\ <<>> \in [{} -> Instants] /\ <<>> \in [{} -> Nat] /\ DOMAIN <<>> = {}
    OBVIOUS
  <2> QED
    BY <2>1, TableEntry
<1>2. Source \in Sources
  <2> DEFINE e == <<>>
             credit == Window * Mtu
  <2>1. e \in Table(Nat, Instants) /\ e \in Table(Instants, Nat) /\ credit \in Int
    BY <1>1, EqdsConstants DEF Mtu
  <2>2. Source = [state |-> "INITIALIZE_CREDIT", speculating |-> FALSE,
           unsent |-> 0, creditPull |-> 0, creditSpec |-> credit,
           pull |-> 0, pullTarget |-> 0, highest |-> 0, rts |-> {},
           tx |-> e, times |-> e, rtx |-> {}, blocked |-> FALSE,
           timer |-> 0, lastRts |-> 0, done |-> FALSE]
    BY DEF Source
  <2> HIDE DEF e, credit
  <2> QED
    BY <2>1, <2>2 DEF Sources
<1>3. Card \in Cards /\ Range(Card.control) = {}
  BY DEF Card, Cards, Range
<1>4. Sink \in Sinks /\ Pacer \in Pacers
  BY DEF Sink, Sinks, Pacer, Pacers
<1>5. World \in Worlds
  <2>1. /\ src \in [Flow -> Sources] /\ nic \in [Host -> Cards] /\ sink \in [Flow -> Sinks]
        /\ pacer \in [Host -> Pacers] /\ net \in Table(Messages, Instants)
        /\ now \in Instants /\ ok \in BOOLEAN
    BY <1>1, <1>2, <1>3, <1>4 DEF Init, Instants
  <2> QED
    BY <2>1 DEF World, Worlds
<1>6. /\ World.src = src /\ World.nic = nic /\ World.sink = sink /\ World.net = net
  BY DEF World
<1>7. ASSUME NEW f \in Flow
      PROVE  /\ SourceOK(src[f], {}, 0) /\ SinkOK(src[f], sink[f]) /\ DoneOK(src[f], sink[f], f)
  <2> DEFINE s == src[f]
             k == sink[f]
  <2>1. /\ s.rts = {} /\ s.rtx = {} /\ DOMAIN s.tx = {} /\ DOMAIN s.times = {} /\ s.timer = 0
        /\ s.highest = 0 /\ s.unsent = 0 /\ s.done = FALSE
    BY <1>1 DEF Init, Source
  <2>2. k.expected = 0 /\ k.rx = {} /\ k.received = 0
    BY DEF Init, Sink
  <2> HIDE DEF s, k
  <2>3. Sent(s) = {} /\ DataSent(s) = {} /\ Received(k) = {}
    BY <2>1, <2>2 DEF Sent, DataSent, Received
  <2>4. IsFiniteSet({}) /\ Cardinality({}) = 0
    BY FS_EmptySet
  <2>5. SourceOK(s, {}, 0)
    BY <2>1, <2>3, <2>4 DEF SourceOK
  <2>6. SinkOK(s, k)
    <3>1. Mss * 0 = 0 /\ {} \ s.rts = {}
      BY EqdsConstants
    <3> QED
      BY <2>2, <2>3, <2>4, <3>1 DEF SinkOK
  <2> QED
    BY <2>1, <2>5, <2>6 DEF DoneOK, s, k
<1>8. DOMAIN World.net \cup Controls(World) = {}
  <2>1. DOMAIN World.net = {}
    BY <1>1, <1>6 DEF Init
  <2>2. \A h \in Host : Range(World.nic[h].control) = {}
    BY <1>3, <1>6 DEF Init
  <2> QED
    BY <2>1, <2>2 DEF Controls
<1>9. started = {}
  BY DEF Init
<1>10. WorldOK(World, NoneLate, started)
  BY <1>5, <1>6, <1>7, <1>8, <1>9 DEF WorldOK, NoneLate
<1>11. ListsOK(sink, pacer)
  <2>1. ASSUME NEW h \in Host PROVE Tidy(pacer[h], h) /\ Awake(pacer[h])
    <3>1. /\ pacer[h].active = <<>> /\ pacer[h].rtx = <<>> /\ pacer[h].idle = <<>>
          /\ pacer[h].running = FALSE /\ pacer[h].events = 0
      BY DEF Init, Pacer
    <3> QED
      BY <1>1, <3>1, RangeEmpty DEF Tidy, Awake, Distinct
  <2>2. ASSUME NEW f \in Flow PROVE Agree(sink[f], pacer[To[f]], f)
    <3>1. To[f] \in Host
      BY EqdsConstants
    <3>2. pacer[To[f]].active = <<>> /\ pacer[To[f]].rtx = <<>>
      BY <3>1 DEF Init, Pacer
    <3>3. sink[f].inPull = FALSE /\ sink[f].retx = 0
      BY DEF Init, Sink
    <3> QED
      BY <3>2, <3>3, RangeEmpty DEF Agree
  <2> QED
    BY <2>1, <2>2 DEF ListsOK, Listed
<1> QED
  BY <1>10, <1>11 DEF IInv
-----------------------------------------------------------------------------
(* The cards call back what waits for them.  Between two events a card is  *)
(* Ready; in its own event, with the entry for it gone from the event list *)
(* and the next not made yet, it is OnTurn.                                *)
At(h) == {f \in Flow : From[f] = h}
Fields == {"phase", "queue", "control", "events", "crt"}
Kept(n, h) == /\ Fields \subseteq DOMAIN n
              /\ n.queue \in Seq(At(h)) /\ \E S : n.control \in Seq(S)
Ready(n, h) == /\ Kept(n, h)
               /\ n.events = IF Waiting(n) THEN 1 ELSE 0
               /\ n.phase = "idle" => ~Waiting(n)
OnTurn(n, h) == Kept(n, h) /\ n.events = 0 /\ n.phase # "idle"

HasCards(w) == "nic" \in DOMAIN w /\ DOMAIN w.nic = Host
CardsReady(w) == HasCards(w) /\ \A h \in Host : Ready(w.nic[h], h)
CardOnTurn(w, h) ==
    HasCards(w) /\ OnTurn(w.nic[h], h) /\ \A g \in Host : g # h => Ready(w.nic[g], g)
SameCards(w, v) == DOMAIN v = DOMAIN w /\ v.nic = w.nic

(* What an append and a tail leave of a queue.                             *)
LEMMA WiderSeq ==
  ASSUME NEW S, NEW T, S \subseteq T, NEW s \in Seq(S)
  PROVE  s \in Seq(T)
<1>1. s \in [1..Len(s) -> S] /\ Len(s) \in Nat
  BY LenProperties
<1>2. s \in [1..Len(s) -> T]
  BY <1>1
<1> QED
  BY <1>1, <1>2, SeqDef

LEMMA LongerSeq ==
  ASSUME NEW S, NEW s \in Seq(S), NEW x
  PROVE  Append(s, x) # <<>> /\ \E T : Append(s, x) \in Seq(T)
<1>1. s \in Seq(S \cup {x})
  BY WiderSeq
<1>2. Append(s, x) \in Seq(S \cup {x}) /\ Len(Append(s, x)) = Len(s) + 1 /\ Len(s) \in Nat
  BY <1>1, AppendProperties, LenProperties
<1>3. Append(s, x) # <<>>
  BY <1>2, EmptySeq
<1> QED
  BY <1>2, <1>3

LEMMA ShorterSeq ==
  ASSUME NEW S, NEW s \in Seq(S), s # <<>>
  PROVE  Tail(s) \in Seq(S) /\ Len(Tail(s)) = Len(s) - 1
BY HeadTailProperties

(* One card.                                                               *)
LEMMA JoinCard ==
  ASSUME NEW h, NEW n, Ready(n, h), n.phase # "idle", NEW f \in At(h)
  PROVE  LET q == [n EXCEPT !.queue = Append(@, f)] IN
         Ready(IF Waiting(n) THEN q ELSE [q EXCEPT !.events = @ + 1], h)
<1> DEFINE longer == Append(n.queue, f)
           q == [n EXCEPT !.queue = longer]
           e == q.events + 1
           r == [q EXCEPT !.events = e]
<1>1. longer \in Seq(At(h)) /\ longer # <<>>
  BY LongerSeq, AppendProperties DEF Ready, Kept
<1> HIDE DEF longer
<1>2. /\ Fields \subseteq DOMAIN q /\ q.queue = longer /\ q.control = n.control
      /\ q.events = n.events /\ q.phase = n.phase
  BY DEF Ready, Kept, Fields
<1> HIDE DEF q
<1>3. /\ Fields \subseteq DOMAIN r /\ r.queue = longer /\ r.control = n.control
      /\ r.events = n.events + 1 /\ r.phase = n.phase
  BY <1>2 DEF Fields
<1> HIDE DEF r
<1>4. Waiting(n) => Ready(q, h)
  BY <1>1, <1>2 DEF Ready, Kept, Waiting
<1>5. ~Waiting(n) => Ready(r, h)
  BY <1>1, <1>3 DEF Ready, Kept, Waiting
<1> QED
  BY <1>4, <1>5 DEF r, q, e, longer

LEMMA QueueControl ==
  ASSUME NEW h, NEW n, Ready(n, h), n.phase # "idle", NEW p
  PROVE  LET q == [n EXCEPT !.control = Append(@, p)] IN
         Ready(IF Waiting(n) THEN q ELSE [q EXCEPT !.events = @ + 1], h)
<1> DEFINE longer == Append(n.control, p)
           q == [n EXCEPT !.control = longer]
           e == q.events + 1
           r == [q EXCEPT !.events = e]
<1>1. (\E S : longer \in Seq(S)) /\ longer # <<>>
  BY LongerSeq DEF Ready, Kept
<1> HIDE DEF longer
<1>2. /\ Fields \subseteq DOMAIN q /\ q.queue = n.queue /\ q.control = longer
      /\ q.events = n.events /\ q.phase = n.phase
  BY DEF Ready, Kept, Fields
<1> HIDE DEF q
<1>3. /\ Fields \subseteq DOMAIN r /\ r.queue = n.queue /\ r.control = longer
      /\ r.events = n.events + 1 /\ r.phase = n.phase
  BY <1>2 DEF Fields
<1> HIDE DEF r
<1>4. Waiting(n) => Ready(q, h)
  BY <1>1, <1>2 DEF Ready, Kept, Waiting
<1>5. ~Waiting(n) => Ready(r, h)
  BY <1>1, <1>3 DEF Ready, Kept, Waiting
<1> QED
  BY <1>4, <1>5 DEF r, q, e, longer

(* A card that sends, whichever queue is shorter for it.                   *)
LEMMA SendingCard ==
  ASSUME NEW h, NEW n, Fields \subseteq DOMAIN n, n.events = 0, n.phase = "sending",
         n.queue \in Seq(At(h)), \E S : n.control \in Seq(S)
  PROVE  Ready(Scheduled(n), h) /\ Scheduled(n).phase = "sending"
<1> DEFINE e == n.events + 1
           r == [n EXCEPT !.events = e]
<1>1. /\ Fields \subseteq DOMAIN r /\ r.queue = n.queue /\ r.control = n.control
      /\ r.events = 1 /\ r.phase = n.phase
  BY DEF Fields
<1>2. Scheduled(n) = IF Waiting(n) THEN r ELSE n
  BY DEF Scheduled
<1> HIDE DEF r
<1>3. Waiting(n) => Ready(r, h)
  BY <1>1 DEF Ready, Kept, Waiting
<1>4. ~Waiting(n) => Ready(n, h)
  BY DEF Ready, Kept, Waiting
<1> QED
  BY <1>1, <1>2, <1>3, <1>4

-----------------------------------------------------------------------------
(* What does not touch the cards.                                          *)
LEMMA SameSource ==
  ASSUME NEW w, HasCards(w), NEW f, NEW s
  PROVE  SameCards(w, [w EXCEPT !.src[f] = s])
BY DEF SameCards, HasCards

LEMMA SameAsserted ==
  ASSUME NEW w, HasCards(w), NEW claim
  PROVE  SameCards(w, Asserted(w, claim))
BY DEF SameCards, HasCards, Asserted

LEMMA SameSent ==
  ASSUME NEW w, HasCards(w), NEW p
  PROVE  SameCards(w, SendOn(w, p))
BY DEF SameCards, HasCards, SendOn

LEMMA SameLaunch ==
  ASSUME NEW w, HasCards(w), NEW f, NEW seq, NEW target, NEW ar
  PROVE  SameCards(w, CreateSendRecord(w, f, seq)) /\ SameCards(w, Launch(w, f, seq, target, ar))
<1> DEFINE s == w.src[f]
           t == [s EXCEPT !.tx = Emplace(@, seq, w.now), !.times = Emplace(@, w.now, seq)]
           u == [w EXCEPT !.src[f] = t]
           v == CreateSendRecord(w, f, seq)
           p == [kind |-> "data", flow |-> f, seq |-> seq, target |-> target,
                 bytes |-> PacketSize(w.src[f], seq), ar |-> ar]
           x == SendOn(v, p)
           r == StartRTO(x.src[f], w.now)
<1>1. v = Asserted(u, seq \notin DOMAIN s.tx)
  BY DEF CreateSendRecord
<1>2. Launch(w, f, seq, target, ar) = [x EXCEPT !.src[f] = r]
  BY DEF Launch
<1> HIDE DEF t
<1>3. SameCards(w, u)
  BY SameSource
<1> HIDE DEF u, v
<1>4. SameCards(w, v)
  BY <1>1, <1>3, SameAsserted DEF SameCards, HasCards
<1> HIDE DEF p
<1>5. SameCards(w, x)
  BY <1>4, SameSent DEF SameCards, HasCards
<1> HIDE DEF x, r
<1>6. SameCards(w, [x EXCEPT !.src[f] = r])
  BY <1>5, SameSource DEF SameCards, HasCards
<1> QED
  BY <1>2, <1>4, <1>6 DEF v

LEMMA SameSendPacket ==
  ASSUME NEW w, HasCards(w), NEW f
  PROVE  /\ SameCards(w, SendNewPacket(w, f)) /\ SameCards(w, SendRtxPacket(w, f))
         /\ SameCards(w, SendPacket(w, f))
<1>1. SameCards(w, SendNewPacket(w, f))
  <2> DEFINE s == w.src[f]
             spent == SpendCredit(s, Mtu)
             taken == [spent EXCEPT !.unsent = @ - 1, !.highest = @ + 1]
             t == [taken EXCEPT !.pullTarget = ComputePullTarget(taken)]
             v == Asserted(w, /\ s.unsent > 0 /\ MaySpend(s)
                              /\ s.highest - Cardinality(s.rts) < Size[f])
             x == [v EXCEPT !.src[f] = t]
             y == Launch(x, f, s.highest, t.pullTarget, t.unsent = 0 \/ t.creditPull < 0)
             z == [v EXCEPT !.src[f] = spent]
  <2>1. SendNewPacket(w, f) = IF SpendKind(s) = "none" THEN z ELSE y
    BY DEF SendNewPacket
  <2>2. SameCards(w, v)
    BY SameAsserted
  <2> HIDE DEF s, spent, taken, t, v
  <2>3. SameCards(w, x) /\ SameCards(w, z)
    BY <2>2, SameSource DEF SameCards, HasCards
  <2> HIDE DEF x, z
  <2>4. SameCards(x, y)
    BY <2>3, SameLaunch DEF SameCards, HasCards
  <2> HIDE DEF y
  <2> QED
    BY <2>1, <2>3, <2>4 DEF SameCards
<1>2. SameCards(w, SendRtxPacket(w, f))
  <2> DEFINE s == w.src[f]
             seq == Least(s.rtx)
             spent == SpendCredit(s, PacketSize(s, seq))
             v == Asserted(w, MaySpend(s) /\ SpendKind(s) # "spec")
             x == [v EXCEPT !.src[f] = [spent EXCEPT !.rtx = @ \ {seq}]]
             target == s.pullTarget
             ar == TRUE
             y == Launch(x, f, seq, target, ar)
             z == [v EXCEPT !.src[f] = spent]
             a == Asserted(w, FALSE)
  <2>1. SendRtxPacket(w, f) = IF s.rtx = {} THEN a
                              ELSE IF SpendKind(s) = "none" THEN z ELSE y
    BY DEF SendRtxPacket
  <2>2. SameCards(w, v) /\ SameCards(w, a)
    BY SameAsserted
  <2> DEFINE r == [spent EXCEPT !.rtx = @ \ {seq}]
  <2>5. x = [v EXCEPT !.src[f] = r]
    OBVIOUS
  <2> HIDE DEF s, seq, spent, v, a, r, target, ar
  <2>3. SameCards(w, x) /\ SameCards(w, z)
    BY <2>2, <2>5, SameSource DEF SameCards, HasCards
  <2> HIDE DEF x, z
  <2>4. SameCards(x, y)
    BY <2>3, SameLaunch DEF SameCards, HasCards
  <2> HIDE DEF y
  <2> QED
    BY <2>1, <2>2, <2>3, <2>4 DEF SameCards
<1> QED
  BY <1>1, <1>2 DEF SendPacket

(* The card's operations.                                                  *)
LEMMA PutCard ==
  ASSUME NEW w, HasCards(w), NEW h \in Host, NEW n
  PROVE  LET v == WithCard(w, h, n) IN
         /\ HasCards(v) /\ DOMAIN v = DOMAIN w /\ v.nic[h] = n
         /\ \A g \in Host : g # h => v.nic[g] = w.nic[g]
BY DEF HasCards, WithCard

LEMMA PutReady ==
  ASSUME NEW w, HasCards(w), NEW h \in Host, NEW n, Ready(n, h),
         \A g \in Host : g # h => Ready(w.nic[g], g)
  PROVE  CardsReady(WithCard(w, h, n)) /\ WithCard(w, h, n).nic[h] = n
<1> DEFINE v == WithCard(w, h, n)
<1>1. /\ HasCards(v) /\ v.nic[h] = n
      /\ \A g \in Host : g # h => v.nic[g] = w.nic[g]
  BY PutCard
<1> HIDE DEF v
<1>2. CardsReady(v) /\ v.nic[h] = n
  BY <1>1 DEF CardsReady
<1> QED
  BY <1>2 DEF v

LEMMA SameReady ==
  ASSUME NEW w, NEW v, SameCards(w, v)
  PROVE  /\ HasCards(w) => HasCards(v)
         /\ CardsReady(w) => CardsReady(v)
         /\ \A h : CardOnTurn(w, h) => CardOnTurn(v, h)
BY DEF SameCards, HasCards, CardsReady, CardOnTurn

LEMMA ReadyJoinQueue ==
  ASSUME NEW w, CardsReady(w), NEW f \in Flow, w.nic[From[f]].phase # "idle"
  PROVE  /\ CardsReady(JoinQueue(w, f))
         /\ CardsReady([JoinQueue(w, f) EXCEPT !.src[f].blocked = TRUE])
<1> DEFINE h == From[f]
           n == w.nic[h]
           q == [n EXCEPT !.queue = Append(@, f)]
           m == IF Waiting(n) THEN q ELSE [q EXCEPT !.events = @ + 1]
           v == WithCard(w, h, m)
           s == v.src[f]
           t == [s EXCEPT !.blocked = TRUE]
           u == [v EXCEPT !.src[f] = t]
<1>1. h \in Host /\ f \in At(h)
  BY EqdsConstants DEF At
<1>2. JoinQueue(w, f) = v
  BY DEF JoinQueue, WithCard
<1>3. Ready(n, h)
  BY <1>1 DEF CardsReady
<1>4. Ready(m, h)
  BY <1>1, <1>3, JoinCard
<1> HIDE DEF m
<1>5. CardsReady(v)
  BY <1>1, <1>4, PutReady DEF CardsReady
<1>6. u = [v EXCEPT !.src[f].blocked = TRUE]
  OBVIOUS
<1> HIDE DEF v, t
<1>7. CardsReady(u)
  BY <1>5, SameSource, SameReady DEF CardsReady
<1> QED
  BY <1>2, <1>5, <1>6, <1>7

(* Leave to send is used at once: the card was idle, or it is its turn.    *)
MayStart(w, h) == CardOnTurn(w, h) \/ (CardsReady(w) /\ w.nic[h].phase = "idle")

LEMMA ReadyStartSending ==
  ASSUME NEW w, NEW f \in Flow, MayStart(w, From[f])
  PROVE  LET v == StartSending(w, f) IN CardsReady(v) /\ v.nic[From[f]].phase = "sending"
<1> DEFINE h == From[f]
           n == w.nic[h]
           rest == IF n.queue = <<>> THEN <<>> ELSE Tail(n.queue)
           k == [n EXCEPT !.queue = rest, !.phase = "sending"]
           m == Scheduled(k)
           v == WithCard(w, h, m)
           claim == n.phase # "sending" /\ (n.queue # <<>> => Head(n.queue) = f)
           x == Asserted(v, claim)
<1>1. h \in Host
  BY EqdsConstants
<1>2. StartSending(w, f) = x
  BY DEF StartSending, WithCard
<1>3. HasCards(w) /\ Kept(n, h) /\ n.events = 0 /\ \A g \in Host : g # h => Ready(w.nic[g], g)
  BY <1>1 DEF MayStart, CardOnTurn, CardsReady, OnTurn, Ready
<1>4. rest \in Seq(At(h))
  <2>1. <<>> \in Seq(At(h))
    BY EmptySeq
  <2> QED
    BY <1>3, <2>1, ShorterSeq DEF Kept
<1> HIDE DEF h, rest
<1>5. /\ Fields \subseteq DOMAIN k /\ k.events = 0 /\ k.phase = "sending"
      /\ k.queue = rest /\ k.control = n.control
  BY <1>3 DEF Kept, Fields
<1> HIDE DEF k
<1>6. Ready(m, h) /\ m.phase = "sending"
  BY <1>3, <1>4, <1>5, SendingCard DEF Kept
<1> HIDE DEF m
<1>7. CardsReady(v) /\ v.nic[h] = m
  BY <1>1, <1>3, <1>6, PutReady
<1> HIDE DEF v, claim
<1>8. SameCards(v, x)
  BY <1>7, SameAsserted DEF CardsReady
<1> HIDE DEF x
<1>9. CardsReady(x) /\ x.nic[h].phase = "sending"
  BY <1>6, <1>7, <1>8, SameReady DEF SameCards
<1> QED
  BY <1>2, <1>9 DEF h

LEMMA ReadySendControl ==
  ASSUME NEW w, NEW h \in Host, CardOnTurn(w, h), w.nic[h].control # <<>>
  PROVE  CardsReady(SendControl(w, h))
<1> DEFINE n == w.nic[h]
           rest == Tail(n.control)
           k == [n EXCEPT !.control = rest, !.phase = "sending"]
           m == Scheduled(k)
           v == WithCard(w, h, m)
           p == Head(n.control)
<1>2. SendControl(w, h) = SendOn(v, p)
  BY DEF SendControl, WithCard
<1>3. HasCards(w) /\ Kept(n, h) /\ n.events = 0 /\ \A g \in Host : g # h => Ready(w.nic[g], g)
  BY DEF CardOnTurn, OnTurn
<1>4. \E S : rest \in Seq(S)
  BY <1>3, ShorterSeq DEF Kept
<1> HIDE DEF rest
<1>5. /\ Fields \subseteq DOMAIN k /\ k.events = 0 /\ k.phase = "sending"
      /\ k.queue = n.queue /\ k.control = rest
  BY <1>3 DEF Kept, Fields
<1> HIDE DEF k
<1>6. Ready(m, h)
  BY <1>3, <1>4, <1>5, SendingCard DEF Kept
<1> HIDE DEF m
<1>7. CardsReady(v)
  BY <1>3, <1>6, PutReady
<1> HIDE DEF v, p
<1>8. CardsReady(SendOn(v, p))
  BY <1>7, SameSent, SameReady DEF CardsReady
<1> QED
  BY <1>2, <1>8

(* A source that declines leaves the queue; the card is still on turn.     *)
Shortened(n, m) ==
    /\ m.control = n.control
    /\ m.queue = IF n.queue = <<>> THEN <<>> ELSE Tail(n.queue)

LEMMA TurnPopped ==
  ASSUME NEW w, NEW f \in Flow, CardOnTurn(w, From[f])
  PROVE  LET v == Popped(w, f) IN
         CardOnTurn(v, From[f]) /\ Shortened(w.nic[From[f]], v.nic[From[f]])
<1> DEFINE h == From[f]
           n == w.nic[h]
           rest == Tail(n.queue)
           m == [n EXCEPT !.queue = rest]
           v == WithCard(w, h, m)
           claim == Head(n.queue) = f /\ n.phase # "sending"
           x == Asserted(v, claim)
<1>1. h \in Host
  BY EqdsConstants
<1>2. Popped(w, f) = IF n.queue = <<>> THEN w ELSE x
  BY DEF Popped, WithCard
<1>3. /\ HasCards(w) /\ Kept(n, h) /\ n.events = 0 /\ n.phase # "idle"
      /\ \A g \in Host : g # h => Ready(w.nic[g], g)
  BY DEF CardOnTurn, OnTurn
<1> HIDE DEF h
<1>4. ASSUME n.queue # <<>>
      PROVE  CardOnTurn(x, h) /\ Shortened(n, x.nic[h])
  <2>1. rest \in Seq(At(h))
    BY <1>3, <1>4, ShorterSeq DEF Kept
  <2> HIDE DEF rest
  <2>2. /\ Fields \subseteq DOMAIN m /\ m.events = 0 /\ m.phase = n.phase
        /\ m.queue = rest /\ m.control = n.control
    BY <1>3 DEF Kept, Fields
  <2> HIDE DEF m
  <2>3. OnTurn(m, h)
    BY <1>3, <2>1, <2>2 DEF OnTurn, Kept
  <2>4. /\ HasCards(v) /\ v.nic[h] = m
        /\ \A g \in Host : g # h => v.nic[g] = w.nic[g]
    BY <1>1, <1>3, PutCard
  <2> HIDE DEF v, claim
  <2>5. CardOnTurn(v, h)
    BY <1>3, <2>3, <2>4 DEF CardOnTurn
  <2>6. SameCards(v, x)
    BY <2>4, SameAsserted
  <2> HIDE DEF x
  <2>7. CardOnTurn(x, h) /\ x.nic[h] = m
    BY <2>4, <2>5, <2>6, SameReady DEF SameCards
  <2> QED
    BY <1>4, <2>2, <2>7 DEF Shortened, rest
<1>5. n.queue = <<>> => Shortened(n, n)
  BY DEF Shortened
<1> QED
  BY <1>2, <1>4, <1>5 DEF h

LEMMA TurnDeclined ==
  ASSUME NEW w, NEW f \in Flow, CardOnTurn(w, From[f])
  PROVE  LET v == Declined(w, f) IN
         CardOnTurn(v, From[f]) /\ Shortened(w.nic[From[f]], v.nic[From[f]])
<1> DEFINE h == From[f]
           s == w.src[f]
           t == [s EXCEPT !.blocked = FALSE]
           u == [w EXCEPT !.src[f] = t]
           x == SendPacket(u, f)
           v == IF NothingToSend(s) THEN w ELSE IF Credit(s) <= 0 THEN u ELSE x
<1>1. Declined(w, f) = Popped(v, f)
  <2>1. u = [w EXCEPT !.src[f].blocked = FALSE]
    OBVIOUS
  <2> QED
    BY <2>1 DEF Declined
<1>2. HasCards(w)
  BY DEF CardOnTurn
<1> HIDE DEF h, t
<1>3. SameCards(w, u)
  BY <1>2, SameSource
<1> HIDE DEF u
<1>4. SameCards(w, x)
  BY <1>2, <1>3, SameSendPacket, SameReady DEF SameCards
<1> HIDE DEF x
<1>5. SameCards(w, v)
  BY <1>3, <1>4 DEF SameCards
<1> HIDE DEF v
<1>6. CardOnTurn(v, h) /\ v.nic[h] = w.nic[h]
  BY <1>5, SameReady DEF SameCards, h
<1> QED
  BY <1>1, <1>6, TurnPopped DEF h

LEMMA TurnFacts ==
  ASSUME NEW w, NEW h, CardOnTurn(w, h)
  PROVE  w.nic[h].queue \in Seq(At(h)) /\ (Len(w.nic[h].queue) = 0 => w.nic[h].queue = <<>>)
<1>1. OnTurn(w.nic[h], h)
  BY DEF CardOnTurn
<1>2. w.nic[h].queue \in Seq(At(h))
  BY <1>1 DEF OnTurn, Kept
<1> QED
  BY <1>2, EmptySeq

LEMMA TurnAsked ==
  ASSUME NEW w, NEW h \in Host, CardOnTurn(w, h)
  PROVE  LET q == w.nic[h].queue IN
         \A i \in Nat : i <= Len(q) =>
            LET v == Asked(w, h)[i] IN
            /\ CardOnTurn(v, h) /\ v.nic[h].control = w.nic[h].control
            /\ Len(v.nic[h].queue) = Len(q) - i
<1> DEFINE q == w.nic[h].queue
           A == Asked(w, h)
           Fine(v, i) == /\ CardOnTurn(v, h) /\ v.nic[h].control = w.nic[h].control
                         /\ Len(v.nic[h].queue) = Len(q) - i
           Bad == {i \in Nat : i <= Len(q) /\ ~Fine(A[i], i)}
           i == Least(Bad)
<1> SUFFICES ASSUME Bad # {} PROVE FALSE
  OBVIOUS
<1>1. i \in Bad /\ \A j \in Bad : i <= j
  BY LeastFacts
<1>2. A[0] = w /\ \A j \in Nat \ {0} : A[j] = Declined(A[j - 1], q[j])
  BY AskedFacts
<1>3. q \in Seq(At(h)) /\ Len(q) \in Nat
  <2>1. q \in Seq(At(h))
    BY DEF CardOnTurn, OnTurn, Kept
  <2> QED
    BY <2>1, LenProperties
<1>0. Fine(w, 0)
  BY <1>3
<1> HIDE DEF i, A
<1>4. i # 0
  BY <1>1, <1>2, <1>0
<1>5. i \in Nat \ {0} /\ i - 1 \in Nat /\ i - 1 <= Len(q) /\ ~(i <= i - 1) /\ i \in 1..Len(q)
  BY <1>1, <1>3, <1>4
<1>6. Fine(A[i - 1], i - 1)
  BY <1>1, <1>5
<1>7. q[i] \in Flow /\ From[q[i]] = h
  <2>1. q[i] \in At(h)
    BY <1>3, <1>5, ElementOfSeq
  <2> QED
    BY <2>1 DEF At
<1> DEFINE u == A[i - 1]
           v == Declined(u, q[i])
<1>8. CardOnTurn(v, h) /\ Shortened(u.nic[h], v.nic[h])
  BY <1>6, <1>7, TurnDeclined
<1>9. v = A[i]
  BY <1>2, <1>5
<1> HIDE DEF u, v, q
<1>10. Len(u.nic[h].queue) = Len(q) - (i - 1) /\ u.nic[h].queue \in Seq(At(h))
  BY <1>6 DEF CardOnTurn, OnTurn, Kept, u
<1>11. u.nic[h].queue # <<>>
  <2>1. Len(u.nic[h].queue) # 0
    BY <1>3, <1>5, <1>10
  <2> QED
    BY <1>10, <2>1, EmptySeq
<1>12. Len(v.nic[h].queue) = Len(q) - i
  BY <1>3, <1>5, <1>8, <1>10, <1>11, ShorterSeq DEF Shortened
<1>13. v.nic[h].control = w.nic[h].control
  BY <1>6, <1>8 DEF Shortened, u
<1>14. Fine(A[i], i)
  BY <1>8, <1>9, <1>12, <1>13
<1> QED
  BY <1>1, <1>14

LEMMA ReadyTakeTurn ==
  ASSUME NEW w, NEW f \in Flow, CardOnTurn(w, From[f])
  PROVE  CardsReady(TakeTurn(w, f))
<1> DEFINE s == w.src[f]
           r == [s EXCEPT !.blocked = FALSE]
           u == [w EXCEPT !.src[f] = r]
           t == SendPacket(u, f)
           v == StartSending(t, f)
           y == [JoinQueue(v, f) EXCEPT !.src[f].blocked = TRUE]
<1>1. TakeTurn(w, f) = IF Credit(v.src[f]) <= 0 \/ NothingToSend(v.src[f]) THEN v ELSE y
  <2>1. u = [w EXCEPT !.src[f].blocked = FALSE]
    OBVIOUS
  <2> QED
    BY <2>1 DEF TakeTurn
<1>2. HasCards(w)
  BY DEF CardOnTurn
<1> HIDE DEF r
<1>3. SameCards(w, u)
  BY <1>2, SameSource
<1> HIDE DEF u
<1>4. SameCards(w, t)
  BY <1>2, <1>3, SameSendPacket, SameReady DEF SameCards
<1> HIDE DEF t
<1>5. CardsReady(v) /\ v.nic[From[f]].phase = "sending"
  BY <1>4, SameReady, ReadyStartSending DEF MayStart
<1> HIDE DEF v
<1>6. CardsReady(y)
  BY <1>5, ReadyJoinQueue
<1> QED
  BY <1>1, <1>5, <1>6

LEMMA ReadyTimeToSend ==
  ASSUME NEW w, NEW h \in Host, CardOnTurn(w, h)
  PROVE  CardsReady(TimeToSend(w, h))
<1> DEFINE q == w.nic[h].queue
           A == Asked(w, h)
           takers == {i \in DOMAIN q : ~Declines(A[i - 1].src[q[i]])}
           first == Least(takers)
           rest == A[Len(q)]
<1>1. TimeToSend(w, h) =
        IF takers # {} THEN TakeTurn(A[first - 1], q[first])
        ELSE IF rest.nic[h].control # <<>> THEN SendControl(rest, h) ELSE rest
  BY DEF TimeToSend
<1>2. \A i \in Nat : i <= Len(q) =>
         /\ CardOnTurn(A[i], h) /\ A[i].nic[h].control = w.nic[h].control
         /\ Len(A[i].nic[h].queue) = Len(q) - i
  BY TurnAsked
<1>3. q \in Seq(At(h)) /\ Len(q) \in Nat /\ DOMAIN q = 1..Len(q)
  <2>1. q \in Seq(At(h))
    BY DEF CardOnTurn, OnTurn, Kept
  <2> QED
    BY <2>1, LenProperties
<1> HIDE DEF A, q
<1>4. CASE takers # {}
  <2>1. takers \subseteq Nat
    BY <1>3
  <2>2. first \in takers
    BY <1>4, <2>1, LeastFacts
  <2> HIDE DEF first
  <2>3. first \in 1..Len(q) /\ first - 1 \in Nat /\ first - 1 <= Len(q)
    BY <1>3, <2>2
  <2>4. q[first] \in Flow /\ From[q[first]] = h
    <3>1. q[first] \in At(h)
      BY <1>3, <2>3, ElementOfSeq
    <3> QED
      BY <3>1 DEF At
  <2>5. CardOnTurn(A[first - 1], h)
    BY <1>2, <2>3
  <2>6. CardsReady(TakeTurn(A[first - 1], q[first]))
    BY <2>4, <2>5, ReadyTakeTurn
  <2> QED
    BY <1>1, <1>4, <2>6
<1>5. CASE takers = {}
  <2>0. Len(q) \in Nat /\ Len(q) <= Len(q) /\ Len(q) - Len(q) = 0
    BY <1>3
  <2>1. CardOnTurn(rest, h) /\ Len(rest.nic[h].queue) = 0
    <3>1. CardOnTurn(A[Len(q)], h)
      BY <1>2, <2>0
    <3>2. Len(A[Len(q)].nic[h].queue) = Len(q) - Len(q)
      BY <1>2, <2>0
    <3> QED
      BY <2>0, <3>1, <3>2
  <2> HIDE DEF rest
  <2>2. CASE rest.nic[h].control # <<>>
    BY <1>1, <1>5, <2>1, <2>2, ReadySendControl
  <2>3. CASE rest.nic[h].control = <<>>
    <3>1. rest.nic[h].queue = <<>>
      BY <2>1, TurnFacts
    <3>2. Ready(rest.nic[h], h)
      BY <2>1, <2>3, <3>1 DEF CardOnTurn, OnTurn, Ready, Waiting
    <3>3. CardsReady(rest)
      BY <2>1, <3>2 DEF CardOnTurn, CardsReady
    <3> QED
      BY <1>1, <1>5, <2>3, <3>3
  <2> QED
    BY <2>2, <2>3
<1> QED
  BY <1>4, <1>5

(* An idle card has nobody to ask instead of the source that cannot send.  *)
LEMMA ReadyCantSend ==
  ASSUME NEW w, CardsReady(w), NEW f \in Flow, w.nic[From[f]].phase = "idle"
  PROVE  CantSend(w, f) = w
<1> DEFINE h == From[f]
           q == w.nic[h].queue
           A == Asked(w, h)
           takers == {i \in DOMAIN q : ~Declines(A[i - 1].src[q[i]])}
<1>1. h \in Host
  BY EqdsConstants
<1>2. q = <<>> /\ w.nic[h].control = <<>>
  BY <1>1 DEF CardsReady, Ready, Waiting
<1>3. Popped(w, f) = w
  BY <1>2 DEF Popped
<1>4. TimeToSend(w, h) =
        IF takers # {} THEN TakeTurn(A[Least(takers) - 1], q[Least(takers)])
        ELSE IF A[Len(q)].nic[h].control # <<>> THEN SendControl(A[Len(q)], h) ELSE A[Len(q)]
  BY DEF TimeToSend
<1>5. Len(q) = 0 /\ DOMAIN q = {}
  BY <1>2
<1>6. A[0] = w
  BY AskedFacts
<1> HIDE DEF q, A
<1>7. TimeToSend(w, h) = w
  BY <1>2, <1>4, <1>5, <1>6
<1> QED
  BY <1>3, <1>7 DEF CantSend

LEMMA ReadyAttempt ==
  ASSUME NEW w, NEW v, CardsReady(w), SameCards(w, v), NEW f \in Flow,
         w.nic[From[f]].phase = "idle", NEW none
  PROVE  /\ CardsReady(IF none THEN CantSend(v, f) ELSE StartSending(v, f))
         /\ StartSending(v, f).nic[From[f]].phase = "sending"
<1>1. CardsReady(v) /\ v.nic[From[f]].phase = "idle"
  BY SameReady DEF SameCards
<1>2. CantSend(v, f) = v
  BY <1>1, ReadyCantSend
<1>3. CardsReady(StartSending(v, f)) /\ StartSending(v, f).nic[From[f]].phase = "sending"
  BY <1>1, ReadyStartSending DEF MayStart
<1> QED
  BY <1>1, <1>2, <1>3

LEMMA ReadySendIfPermitted ==
  ASSUME NEW w, CardsReady(w), NEW f \in Flow
  PROVE  CardsReady(SendIfPermitted(w, f))
<1> DEFINE s == w.src[f]
           v == Granted(w, f)
           t == SendPacket(v, f)
           x == [JoinQueue(w, f) EXCEPT !.src[f].blocked = TRUE]
           none == SpendKind(v.src[f]) = "none"
           y == IF none THEN CantSend(t, f) ELSE StartSending(t, f)
<1>1. SendIfPermitted(w, f) =
        IF Credit(s) <= 0 \/ NothingToSend(s) \/ s.blocked THEN w
        ELSE IF w.nic[From[f]].phase # "idle" THEN x ELSE y
  BY DEF SendIfPermitted, Busy, Attempt
<1>2. HasCards(w)
  BY DEF CardsReady
<1>3. SameCards(w, v)
  BY <1>2, SameAsserted DEF Granted
<1> HIDE DEF v
<1>4. SameCards(w, t)
  BY <1>2, <1>3, SameSendPacket, SameReady DEF SameCards
<1> HIDE DEF t, none
<1>5. w.nic[From[f]].phase # "idle" => CardsReady(x)
  BY ReadyJoinQueue
<1>6. w.nic[From[f]].phase = "idle" => CardsReady(y)
  BY <1>4, ReadyAttempt
<1> QED
  BY <1>1, <1>5, <1>6

(* EqdsNIC::doNextEvent uses up its event and makes the next.              *)
LEMMA ReadyCardTurn ==
  ASSUME NEW w, NEW h \in Host, CardOnTurn(w, h)
  PROVE  CardsReady(CardTurn(w, h))
<1> DEFINE n == w.nic[h]
           both == n.queue # <<>> /\ n.control # <<>>
           crt == IF both THEN (n.crt + 1) % (ControlTurns + DataTurns) ELSE n.crt
           m == [n EXCEPT !.crt = crt]
           u == WithCard(w, h, m)
           claim == n.phase = "ending" /\ Waiting(n)
           v == Asserted(u, claim)
<1>1. CardTurn(w, h) =
        IF ~Waiting(n) THEN v
        ELSE IF n.queue # <<>> /\ (both => crt < DataTurns) THEN TimeToSend(v, h)
        ELSE SendControl(v, h)
  <2>1. u = [w EXCEPT !.nic[h].crt = crt]
    BY DEF WithCard
  <2> QED
    BY <2>1 DEF CardTurn
<1>2. /\ HasCards(w) /\ Kept(n, h) /\ n.events = 0 /\ n.phase # "idle"
      /\ \A g \in Host : g # h => Ready(w.nic[g], g)
  BY DEF CardOnTurn, OnTurn
<1> HIDE DEF crt
<1>3. /\ Fields \subseteq DOMAIN m /\ m.events = n.events /\ m.phase = n.phase
      /\ m.queue = n.queue /\ m.control = n.control
  BY <1>2 DEF Kept, Fields
<1> HIDE DEF m
<1>4. OnTurn(m, h)
  BY <1>2, <1>3 DEF OnTurn, Kept
<1>5. /\ HasCards(u) /\ u.nic[h] = m
      /\ \A g \in Host : g # h => u.nic[g] = w.nic[g]
  BY <1>2, PutCard
<1> HIDE DEF u, claim
<1>6. SameCards(u, v)
  BY <1>5, SameAsserted
<1>7. CardOnTurn(v, h) /\ v.nic[h] = m
  <2>1. CardOnTurn(u, h)
    BY <1>2, <1>4, <1>5 DEF CardOnTurn
  <2> QED
    BY <1>5, <1>6, <2>1, SameReady DEF SameCards
<1> HIDE DEF v
<1>8. CASE ~Waiting(n)
  <2>1. Ready(m, h)
    BY <1>3, <1>4, <1>8 DEF Ready, OnTurn, Waiting
  <2>2. CardsReady(v)
    BY <1>7, <2>1 DEF CardOnTurn, CardsReady
  <2> QED
    BY <1>1, <1>8, <2>2
<1>9. CardsReady(TimeToSend(v, h))
  BY <1>7, ReadyTimeToSend
<1>10. n.control # <<>> => CardsReady(SendControl(v, h))
  BY <1>3, <1>7, ReadySendControl
<1> QED
  BY <1>1, <1>8, <1>9, <1>10 DEF Waiting

LEMMA ReadySendControlPacket ==
  ASSUME NEW w, CardsReady(w), NEW h \in Host, NEW p
  PROVE  CardsReady(SendControlPacket(w, h, p))
<1> DEFINE n == w.nic[h]
           q == [n EXCEPT !.control = Append(@, p)]
           a == [q EXCEPT !.phase = "ending"]
           u == WithCard(w, h, a)
           m == IF Waiting(n) THEN q ELSE [q EXCEPT !.events = @ + 1]
           v == WithCard(w, h, m)
<1>1. SendControlPacket(w, h, p) = IF n.phase = "idle" THEN CardTurn(u, h) ELSE v
  BY DEF SendControlPacket, WithCard
<1>2. HasCards(w) /\ Ready(n, h) /\ \A g \in Host : g # h => Ready(w.nic[g], g)
  BY DEF CardsReady
<1>3. CASE n.phase = "idle"
  <2> DEFINE longer == Append(n.control, p)
  <2>1. \E S : longer \in Seq(S)
    BY <1>2, LongerSeq DEF Ready, Kept
  <2> HIDE DEF longer
  <2>2. /\ Fields \subseteq DOMAIN a /\ a.events = n.events /\ a.phase = "ending"
        /\ a.queue = n.queue /\ a.control = longer
    BY <1>2 DEF Ready, Kept, Fields, longer
  <2> HIDE DEF a
  <2>3. OnTurn(a, h)
    BY <1>2, <1>3, <2>1, <2>2 DEF Ready, OnTurn, Kept
  <2>4. /\ HasCards(u) /\ u.nic[h] = a
        /\ \A g \in Host : g # h => u.nic[g] = w.nic[g]
    BY <1>2, PutCard
  <2> HIDE DEF u
  <2>5. CardOnTurn(u, h)
    BY <1>2, <2>3, <2>4 DEF CardOnTurn
  <2> QED
    BY <1>1, <1>3, <2>5, ReadyCardTurn
<1>4. CASE n.phase # "idle"
  <2>1. Ready(m, h)
    BY <1>2, <1>4, QueueControl
  <2> HIDE DEF m
  <2>2. CardsReady(v)
    BY <1>2, <2>1, PutReady
  <2> QED
    BY <1>1, <1>4, <2>2
<1> QED
  BY <1>3, <1>4

(* The handlers of sources and sinks.                                      *)
LEMMA ReadySame ==
  ASSUME NEW w, CardsReady(w)
  PROVE  /\ \A f, s : CardsReady([w EXCEPT !.src[f] = s])
         /\ \A claim : CardsReady(Asserted(w, claim))
         /\ \A p : CardsReady(SendOn(w, p))
         /\ \A f, seq : CardsReady(CreateSendRecord(w, f, seq))
         /\ \A f : CardsReady(SendNewPacket(w, f)) /\ CardsReady(SendRtxPacket(w, f))
<1>1. HasCards(w)
  BY DEF CardsReady
<1>2. \A f, s : CardsReady([w EXCEPT !.src[f] = s])
  BY <1>1, SameSource, SameReady
<1>3. \A claim : CardsReady(Asserted(w, claim))
  BY <1>1, SameAsserted, SameReady
<1>4. \A p : CardsReady(SendOn(w, p))
  BY <1>1, SameSent, SameReady
<1>5. ASSUME NEW f, NEW seq PROVE CardsReady(CreateSendRecord(w, f, seq))
  <2>1. SameCards(w, CreateSendRecord(w, f, seq))
    BY <1>1, SameLaunch
  <2> QED
    BY <2>1, SameReady
<1>6. \A f : CardsReady(SendNewPacket(w, f)) /\ CardsReady(SendRtxPacket(w, f))
  BY <1>1, SameSendPacket, SameReady
<1> QED
  BY <1>2, <1>3, <1>4, <1>5, <1>6

LEMMA ReadySink ==
  ASSUME NEW w, CardsReady(w), NEW f, NEW k, NEW h, NEW p
  PROVE  CardsReady([w EXCEPT !.sink[f] = k]) /\ CardsReady([w EXCEPT !.pacer[h] = p])
<1>1. SameCards(w, [w EXCEPT !.sink[f] = k]) /\ SameCards(w, [w EXCEPT !.pacer[h] = p])
  BY DEF CardsReady, HasCards, SameCards
<1> QED
  BY <1>1, SameReady

(* Speculative credit is there when a flow starts: its source sends, or    *)
(* waits for a busy card.                                                  *)
LEMMA ReadyStartFlow ==
  ASSUME NEW w \in Worlds, CardsReady(w), NEW f \in Flow
  PROVE  CardsReady(StartFlow(w, f))
<1> DEFINE c == Window * Mtu
           s == [w.src[f] EXCEPT !.unsent = Size[f], !.state = "SPECULATING",
                                 !.speculating = TRUE, !.creditSpec = c]
           u == [w EXCEPT !.src[f] = s]
           x == Granted(u, f)
           t == SendNewPacket(x, f)
           sent == StartSending(t, f)
           v == IF u.nic[From[f]].phase # "idle" THEN u
                ELSE IF SpendKind(x.src[f]) = "none" THEN CantSend(t, f) ELSE sent
           y == [JoinQueue(v, f) EXCEPT !.src[f].blocked = TRUE]
<1>1. StartFlow(w, f) = IF Credit(v.src[f]) > 0 /\ v.src[f].unsent > 0 THEN y ELSE v
  BY DEF StartFlow, Busy, Attempt
<1>2. c > 0 /\ c \in Nat
  BY EqdsConstants DEF Mtu
<1>3. /\ s.speculating = TRUE /\ s.creditSpec = c
  <2>1. w.src[f] \in Sources
    BY DEF Worlds
  <2> HIDE DEF c
  <2> QED
    BY <2>1 DEF Sources
<1> HIDE DEF c, s
<1>4. u.src[f] = s
  BY DEF Worlds
<1>5. CardsReady(u)
  BY ReadySame
<1> HIDE DEF u
<1>6. CardsReady(x) /\ x.src = u.src /\ SameCards(u, x)
  <2>1. x.src = u.src
    BY <1>5 DEF Granted, Asserted
  <2> QED
    BY <1>5, <2>1, SameAsserted, SameReady DEF Granted, CardsReady
<1> HIDE DEF x
<1>7. SpendKind(x.src[f]) # "none"
  BY <1>2, <1>3, <1>4, <1>6 DEF SpendKind
<1>8. SameCards(u, t)
  BY <1>6, SameSendPacket DEF CardsReady, SameCards
<1> HIDE DEF t
<1>9. u.nic[From[f]].phase = "idle" => CardsReady(sent) /\ sent.nic[From[f]].phase = "sending"
  BY <1>5, <1>8, ReadyAttempt
<1> HIDE DEF sent
<1>10. CardsReady(v) /\ v.nic[From[f]].phase # "idle"
  BY <1>5, <1>7, <1>9
<1> HIDE DEF v
<1>11. CardsReady(y)
  BY <1>10, ReadyJoinQueue
<1> QED
  BY <1>1, <1>10, <1>11

LEMMA ReadyQueueForRtx ==
  ASSUME NEW w, CardsReady(w), NEW f \in Flow, NEW seq
  PROVE  CardsReady(QueueForRtx(w, f, seq))
<1> DEFINE s == w.src[f]
           t == [s EXCEPT !.rtx = @ \cup {seq}]
           u == [w EXCEPT !.src[f] = t]
           v == Asserted(u, seq \notin s.rtx)
<1>1. QueueForRtx(w, f, seq) = SendIfPermitted(v, f)
  <2>1. u = [w EXCEPT !.src[f].rtx = @ \cup {seq}]
    OBVIOUS
  <2> QED
    BY <2>1 DEF QueueForRtx
<1> HIDE DEF t
<1>2. CardsReady(u)
  BY ReadySame
<1> HIDE DEF u
<1>3. CardsReady(v)
  BY <1>2, ReadySame
<1> HIDE DEF v
<1> QED
  BY <1>1, <1>3, ReadySendIfPermitted

LEMMA ReadySendRTS ==
  ASSUME NEW w, CardsReady(w), NEW f \in Flow, NEW expired
  PROVE  CardsReady(SendRTS(w, f, expired))
<1> DEFINE s == w.src[f]
           t == [s EXCEPT !.rts = @ \cup {s.highest}, !.highest = @ + 1, !.lastRts = w.now]
           x == [w EXCEPT !.src[f] = t]
           v == CreateSendRecord(x, f, s.highest)
           p == [kind |-> "rts", flow |-> f, seq |-> s.highest,
                 target |-> RtsTarget, bytes |-> Hdr, ar |-> TRUE]
           u == SendControlPacket(v, From[f], p)
           r == StartRTO(u.src[f], w.now)
           y == [u EXCEPT !.src[f] = r]
<1>1. SendRTS(w, f, expired) = IF s.lastRts > expired THEN w ELSE y
  BY DEF SendRTS
<1>2. From[f] \in Host
  BY EqdsConstants
<1> HIDE DEF t
<1>3. CardsReady(x)
  BY ReadySame
<1> HIDE DEF x
<1>4. CardsReady(v)
  BY <1>3, ReadySame
<1> HIDE DEF v, p
<1>5. CardsReady(u)
  BY <1>2, <1>4, ReadySendControlPacket
<1> HIDE DEF u, r
<1>6. CardsReady(y)
  BY <1>5, ReadySame
<1> QED
  BY <1>1, <1>6

LEMMA ReadyRtxTimerExpired ==
  ASSUME NEW w, CardsReady(w), NEW f \in Flow
  PROVE  CardsReady(RtxTimerExpired(w, f))
<1> DEFINE s == w.src[f]
           first == Least(DOMAIN s.times)
           seq == s.times[first]
           rest == [s EXCEPT !.times = Without(@, {first}), !.tx = Without(@, {seq})]
           t == RecalculateRTO(rest)
           a == [w EXCEPT !.src[f] = t]
           u == Asserted(a, seq \in DOMAIN s.tx)
           v == QueueForRtx(u, f, seq)
           x == Granted(v, f)
           z == SendRtxPacket(x, f)
           none == SpendKind(x.src[f]) = "none"
           y == IF none THEN CantSend(z, f) ELSE StartSending(z, f)
<1>1. RtxTimerExpired(w, f) =
        IF s.rtx # {} \/ Credit(v.src[f]) <= 0 THEN SendRTS(v, f, first)
        ELSE IF v.nic[From[f]].phase # "idle" THEN JoinQueue(v, f) ELSE y
  BY DEF RtxTimerExpired, Busy, Attempt
<1> HIDE DEF t, first
<1>2. CardsReady(a)
  BY ReadySame
<1> HIDE DEF a
<1>3. CardsReady(u)
  BY <1>2, ReadySame
<1> HIDE DEF u, seq
<1>4. CardsReady(v)
  BY <1>3, ReadyQueueForRtx
<1> HIDE DEF v
<1>5. SameCards(v, x)
  BY <1>4, SameAsserted DEF Granted, CardsReady
<1> HIDE DEF x, none
<1>6. SameCards(v, z)
  BY <1>4, <1>5, SameSendPacket, SameReady DEF CardsReady, SameCards
<1> HIDE DEF z
<1>7. v.nic[From[f]].phase = "idle" => CardsReady(y)
  BY <1>4, <1>6, ReadyAttempt
<1>8. v.nic[From[f]].phase # "idle" => CardsReady(JoinQueue(v, f))
  BY <1>4, ReadyJoinQueue
<1>9. CardsReady(SendRTS(v, f, first))
  BY <1>4, ReadySendRTS
<1> QED
  BY <1>1, <1>7, <1>8, <1>9

LEMMA ReadyFeedback ==
  ASSUME NEW w, CardsReady(w), NEW f \in Flow, NEW p
  PROVE  /\ CardsReady(ProcessAck(w, f, p)) /\ CardsReady(ProcessNack(w, f, p))
         /\ CardsReady(ProcessPull(w, f, p))
<1>1. CardsReady(ProcessAck(w, f, p))
  <2> DEFINE s == w.src[f]
             seqs == {seq \in DOMAIN s.tx : seq < p.cumulative \/ seq \in p.sacks}
             t == CheckFinished(Acknowledged([s EXCEPT !.rtx =
                      {seq \in @ : seq >= p.cumulative}], seqs), f, p.cumulative)
             r == StopSpeculating(t)
             v == [w EXCEPT !.src[f] = r]
  <2>1. ProcessAck(w, f, p) = IF t.done THEN v ELSE SendIfPermitted(v, f)
    BY DEF ProcessAck
  <2> HIDE DEF r, t
  <2>2. CardsReady(v)
    BY ReadySame
  <2> HIDE DEF v
  <2> QED
    BY <2>1, <2>2, ReadySendIfPermitted
<1>2. CardsReady(ProcessNack(w, f, p))
  <2> DEFINE s == w.src[f]
             at == s.tx[p.seq]
             rest == [s EXCEPT !.tx = Without(@, {p.seq}), !.times = Without(@, {at})]
             a == [w EXCEPT !.src[f] = rest]
             v == QueueForRtx(a, f, p.seq)
             r == RecalculateRTO(v.src[f])
             b == [v EXCEPT !.src[f] = r]
             u == IF at = v.src[f].timer THEN b ELSE v
             c == StopSpeculating(u.src[f])
             d == [u EXCEPT !.src[f] = c]
  <2>1. ProcessNack(w, f, p) = IF p.seq \notin DOMAIN s.tx THEN Asserted(w, FALSE)
                               ELSE SendIfPermitted(d, f)
    BY DEF ProcessNack
  <2> HIDE DEF rest
  <2>2. CardsReady(a)
    BY ReadySame
  <2> HIDE DEF a
  <2>3. CardsReady(v)
    BY <2>2, ReadyQueueForRtx
  <2> HIDE DEF v, r
  <2>4. CardsReady(b)
    BY <2>3, ReadySame
  <2> HIDE DEF b
  <2>5. CardsReady(u)
    BY <2>3, <2>4
  <2> HIDE DEF u, c
  <2>6. CardsReady(d)
    BY <2>5, ReadySame
  <2> HIDE DEF d
  <2>7. CardsReady(Asserted(w, FALSE))
    BY ReadySame
  <2> QED
    BY <2>1, <2>6, <2>7, ReadySendIfPermitted
<1>3. CardsReady(ProcessPull(w, f, p))
  <2> DEFINE s == w.src[f]
             t == IF p.no > s.pull
                  THEN [s EXCEPT !.creditPull = @ + Unquantize(p.no - s.pull),
                                 !.pull = p.no]
                  ELSE s
             r == StopSpeculating(t)
             v == [w EXCEPT !.src[f] = r]
  <2>1. ProcessPull(w, f, p) = SendIfPermitted(v, f)
    BY DEF ProcessPull
  <2> HIDE DEF r
  <2>2. CardsReady(v)
    BY ReadySame
  <2> HIDE DEF v
  <2> QED
    BY <2>1, <2>2, ReadySendIfPermitted
<1> QED
  BY <1>1, <1>2, <1>3

LEMMA ReadyRequests ==
  ASSUME NEW w, CardsReady(w), NEW f
  PROVE  CardsReady(RequestPull(w, f)) /\ CardsReady(RequestRetransmit(w, f))
<1> DEFINE p == w.pacer[To[f]]
           a == Wake([p EXCEPT !.active = Append(@, f)])
           b == Wake([p EXCEPT !.rtx = Append(@, f)])
           u == [w EXCEPT !.pacer[To[f]] = a]
           v == [w EXCEPT !.pacer[To[f]] = b]
<1>1. /\ RequestPull(w, f) = Asserted(u, w.sink[f].inPull /\ ~Contains(p.active, f))
      /\ RequestRetransmit(w, f) = Asserted(v, ~Contains(p.rtx, f))
  BY DEF RequestPull, RequestRetransmit
<1> HIDE DEF a, b
<1>2. CardsReady(u) /\ CardsReady(v)
  BY ReadySink
<1> HIDE DEF u, v
<1> QED
  BY <1>1, <1>2, ReadySame

LEMMA ReadyHandlePullTarget ==
  ASSUME NEW w, CardsReady(w), NEW f, NEW target
  PROVE  CardsReady(HandlePullTarget(w, f, target))
<1> DEFINE k == w.sink[f]
           a == [k EXCEPT !.highest = target]
           v == [w EXCEPT !.sink[f] = a]
           b == [v.sink[f] EXCEPT !.inPull = TRUE]
           u == [v EXCEPT !.sink[f] = b]
<1>1. HandlePullTarget(w, f, target) =
        IF target <= k.highest THEN w
        ELSE IF k.retx = 0 /\ ~k.inPull THEN RequestPull(u, f) ELSE v
  <2>1. v = [w EXCEPT !.sink[f].highest = target]
    OBVIOUS
  <2>2. u = [v EXCEPT !.sink[f].inPull = TRUE]
    OBVIOUS
  <2> HIDE DEF v, u
  <2> QED
    BY <2>1, <2>2 DEF HandlePullTarget
<1> HIDE DEF a
<1>2. CardsReady(v)
  BY ReadySink
<1> HIDE DEF v, b
<1>3. CardsReady(u)
  BY <1>2, ReadySink
<1> HIDE DEF u
<1> QED
  BY <1>1, <1>2, <1>3, ReadyRequests

LEMMA ReadyAnswer ==
  ASSUME NEW w, CardsReady(w), NEW f \in Flow, NEW k, NEW p
  PROVE  CardsReady(SendControlPacket([w EXCEPT !.sink[f] = k], To[f], p))
<1> DEFINE v == [w EXCEPT !.sink[f] = k]
<1>1. CardsReady(v) /\ To[f] \in Host
  BY ReadySink, EqdsConstants
<1> HIDE DEF v
<1>2. CardsReady(SendControlPacket(v, To[f], p))
  BY <1>1, ReadySendControlPacket
<1> QED
  BY <1>2 DEF v

LEMMA ReadyProcessData ==
  ASSUME NEW w, CardsReady(w), NEW f \in Flow, NEW p
  PROVE  CardsReady(ProcessData(w, f, p))
<1> DEFINE v == HandlePullTarget(w, f, p.target)
           k == [v.sink[f] EXCEPT !.accepted = @ + p.bytes]
           counted == [k EXCEPT !.received = @ + p.bytes - Hdr,
                                !.ackRequest = @ \/ p.ar]
           t == Accept(counted, p.seq)
           closing == p.seq = k.expected /\ Drained(t)
           u == IF closing THEN [t EXCEPT !.ackRequest = FALSE] ELSE t
           ack == \/ u.accepted > AckThreshold
                  \/ k.received = 0 \/ p.ar \/ closing
           m == SackBase(k, p.seq)
           n == IF p.ar THEN p.seq ELSE SackBase(u, p.seq)
           a == [k EXCEPT !.accepted = 0]
           b == [u EXCEPT !.accepted = 0]
           x == SendControlPacket([v EXCEPT !.sink[f] = a], To[f], Sack(k, f, m))
           y == SendControlPacket([v EXCEPT !.sink[f] = b], To[f], Sack(u, f, n))
           z == [v EXCEPT !.sink[f] = u]
           claim == u.received <= Size[f] * Mss
<1>1. ProcessData(w, f, p) =
        IF Has(k, p.seq) THEN x ELSE Asserted(IF ack THEN y ELSE z, claim)
  BY Zenon DEF ProcessData
<1>2. CardsReady(v)
  BY ReadyHandlePullTarget
<1> HIDE DEF v, k, u, m, n, a, b, ack, claim
<1>3. CardsReady(x) /\ CardsReady(y) /\ CardsReady(z)
  BY <1>2, ReadyAnswer, ReadySink
<1> HIDE DEF x, y, z
<1>4. CardsReady(Asserted(y, claim)) /\ CardsReady(Asserted(z, claim))
  BY <1>3, ReadySame
<1> QED
  BY <1>1, <1>3, <1>4

LEMMA ReadyProcessTrimmed ==
  ASSUME NEW w, CardsReady(w), NEW f \in Flow, NEW p
  PROVE  CardsReady(ProcessTrimmed(w, f, p))
<1> DEFINE k == w.sink[f]
           v == HandlePullTarget(w, f, p.target)
           s == v.sink[f]
           a == [s EXCEPT !.retx = @ + QuantizeCeil(Mtu)]
           nack == [kind |-> "nack", flow |-> f, seq |-> p.seq]
           u == SendControlPacket([v EXCEPT !.sink[f] = a], To[f], nack)
           ack == Sack(k, f, p.seq)
<1>1. ProcessTrimmed(w, f, p) =
        IF Has(k, p.seq) THEN SendOn(w, ack)
        ELSE IF k.retx > 0 THEN u ELSE RequestRetransmit(u, f)
  <2>1. [v EXCEPT !.sink[f] = a] = [v EXCEPT !.sink[f].retx = @ + QuantizeCeil(Mtu)]
    OBVIOUS
  <2> HIDE DEF a
  <2> QED
    BY <2>1 DEF ProcessTrimmed
<1>2. CardsReady(v)
  BY ReadyHandlePullTarget
<1> HIDE DEF v, a, nack, ack
<1>3. CardsReady(u)
  BY <1>2, ReadyAnswer
<1> HIDE DEF u
<1> QED
  BY <1>1, <1>3, ReadySame, ReadyRequests

LEMMA ReadyProcessRts ==
  ASSUME NEW w, CardsReady(w), NEW f \in Flow, NEW p
  PROVE  CardsReady(ProcessRts(w, f, p))
<1> DEFINE v == HandlePullTarget(w, f, p.target)
           a == [v.sink[f] EXCEPT !.retx = @ + QuantizeCeil(Mtu)]
           credited == [v EXCEPT !.sink[f] = a]
           b == [credited.sink[f] EXCEPT !.inPull = TRUE]
           asked == [credited EXCEPT !.sink[f] = b]
           pulled == IF v.sink[f].inPull THEN credited ELSE RequestPull(asked, f)
           u == IF v.sink[f].retx = 0 THEN RequestRetransmit(pulled, f) ELSE credited
           k == u.sink[f]
           t == Accept([k EXCEPT !.received = @ + p.bytes - Hdr], p.seq)
           drained == [t EXCEPT !.ackRequest = @ /\ ~(p.seq = k.expected /\ Drained(t))]
           j == IF Has(k, p.seq) THEN k ELSE drained
           c == [j EXCEPT !.accepted = 0]
           ack == Sack(j, f, p.seq)
<1>1. ProcessRts(w, f, p) = SendControlPacket([u EXCEPT !.sink[f] = c], To[f], ack)
  <2>1. credited = [v EXCEPT !.sink[f].retx = @ + QuantizeCeil(Mtu)]
    OBVIOUS
  <2> HIDE DEF credited
  <2>2. asked = [credited EXCEPT !.sink[f].inPull = TRUE]
    OBVIOUS
  <2> HIDE DEF asked
  <2> QED
    BY <2>1, <2>2 DEF ProcessRts
<1>2. CardsReady(v)
  BY ReadyHandlePullTarget
<1> HIDE DEF v, a
<1>3. CardsReady(credited)
  BY <1>2, ReadySink
<1> HIDE DEF credited, b
<1>4. CardsReady(asked)
  BY <1>3, ReadySink
<1> HIDE DEF asked
<1>5. CardsReady(pulled)
  BY <1>3, <1>4, ReadyRequests
<1> HIDE DEF pulled
<1>6. CardsReady(u)
  BY <1>3, <1>5, ReadyRequests
<1> HIDE DEF u, c, ack
<1> QED
  BY <1>1, <1>6, ReadyAnswer

LEMMA ReadyPull ==
  ASSUME NEW w, CardsReady(w), NEW h \in Host, NEW f, NEW k, NEW q
  PROVE  CardsReady(PullTo(w, h, f, k, q))
<1> DEFINE r == [q EXCEPT !.running = TRUE, !.events = @ + 1]
           u == [w EXCEPT !.sink[f] = k]
           v == [u EXCEPT !.pacer[h] = r]
           p == [kind |-> "pull", flow |-> f, no |-> k.latest]
<1>1. PullTo(w, h, f, k, q) = SendControlPacket(v, h, p)
  <2>1. v = [w EXCEPT !.sink[f] = k, !.pacer[h] = r]
    OBVIOUS
  <2> QED
    BY <2>1 DEF PullTo
<1> HIDE DEF r
<1>2. CardsReady(u)
  BY ReadySink
<1> HIDE DEF u
<1>3. CardsReady(v)
  BY <1>2, ReadySink
<1> HIDE DEF v, p
<1> QED
  BY <1>1, <1>3, ReadySendControlPacket

LEMMA ReadyPacerTurn ==
  ASSUME NEW w, CardsReady(w), NEW h \in Host
  PROVE  CardsReady(PacerTurn(w, h))
<1> DEFINE p == w.pacer[h]
<1>0. \A v, claim : CardsReady(v) => CardsReady(Asserted(v, claim))
  BY ReadySame
<1>1. CASE p.rtx # <<>>
  <2> DEFINE f == Head(p.rtx)
             k == Pulled(w.sink[f])
             v == PullTo(w, h, f, k, [p EXCEPT !.rtx =
                      IF k.retx > 0 THEN Append(Tail(@), f) ELSE Tail(@)])
  <2>1. PacerTurn(w, h) = v
    BY <1>1, Zenon DEF PacerTurn, PullTo
  <2>2. CardsReady(v)
    BY ReadyPull
  <2> QED
    BY <2>1, <2>2
<1>2. CASE p.rtx = <<>> /\ p.active # <<>>
  <2> DEFINE f == Head(p.active)
             k == Pulled(w.sink[f])
             u == PullTo(w, h, f, k, [p EXCEPT !.active = Append(Tail(@), f)])
             v == PullTo(w, h, f, [k EXCEPT !.inPull = FALSE, !.inSlow = TRUE],
                         [p EXCEPT !.active = Tail(@), !.idle = Append(@, f)])
             claim == k.inPull
  <2>1. PacerTurn(w, h) = Asserted(IF Backlog(k) > 0 THEN u ELSE v, claim)
    BY <1>2, Zenon DEF PacerTurn, PullTo
  <2>2. CardsReady(u) /\ CardsReady(v)
    BY ReadyPull
  <2> HIDE DEF u, v, claim
  <2> QED
    BY <2>1, <2>2, <1>0
<1>3. CASE p.rtx = <<>> /\ p.active = <<>> /\ p.idle # <<>>
  <2> DEFINE f == Head(p.idle)
             s == w.sink[f]
             k == Pulled(IF s.inSlow THEN s
                         ELSE [s EXCEPT !.inPull = FALSE, !.inSlow = TRUE])
             more == /\ Backlog(k) = 0
                     /\ SlowCredit(k) < (Window * Mtu) \div Quantum
             u == PullTo(w, h, f, k, [p EXCEPT !.idle = Append(Tail(@), f)])
             v == PullTo(w, h, f, [k EXCEPT !.inPull = FALSE, !.inSlow = FALSE],
                         [p EXCEPT !.idle = Tail(@)])
  <2>1. PacerTurn(w, h) = IF more THEN u ELSE v
    BY <1>3, Zenon DEF PacerTurn, PullTo
  <2>2. CardsReady(u) /\ CardsReady(v)
    BY ReadyPull
  <2> HIDE DEF u, v, more
  <2> QED
    BY <2>1, <2>2
<1>4. CASE p.rtx = <<>> /\ p.active = <<>> /\ p.idle = <<>>
  <2> DEFINE q == [p EXCEPT !.running = FALSE]
             v == [w EXCEPT !.pacer[h] = q]
  <2>1. PacerTurn(w, h) = v
    BY <1>4 DEF PacerTurn
  <2> HIDE DEF q
  <2>2. CardsReady(v)
    BY ReadySink
  <2> QED
    BY <2>1, <2>2
<1> QED
  BY <1>1, <1>2, <1>3, <1>4

(* The events leave every card ready.                                      *)
LEMMA ReadyEvent ==
  ASSUME NEW v, CardsReady(v), Event(v)
  PROVE  CardsReady(World')
<1> DEFINE t == Tick(v)
<1>1. nic' = t.nic
  BY DEF Event
<1>2. t.nic = v.nic
  BY DEF Tick, CardsReady, HasCards
<1> HIDE DEF t
<1>3. HasCards(World') /\ World'.nic = v.nic
  BY <1>1, <1>2 DEF World, HasCards, CardsReady
<1> QED
  BY <1>3 DEF CardsReady

LEMMA ReadyTake ==
  ASSUME NEW p, CardsReady(World)
  PROVE  CardsReady(Take(p))
<1>1. SameCards(World, Take(p))
  BY DEF Take, World, SameCards, CardsReady, HasCards
<1> QED
  BY <1>1, SameReady

LEMMA CardsStart ==
  ASSUME IInv, CardsReady(World), NEW f \in Flow, Start(f)
  PROVE  CardsReady(World')
<1>1. Event(StartFlow(World, f))
  BY DEF Start
<1> QED
  BY <1>1, FullWorld, ReadyStartFlow, ReadyEvent

LEMMA CardsTimeout ==
  ASSUME CardsReady(World), NEW f \in Flow, Timeout(f)
  PROVE  CardsReady(World')
<1> DEFINE s == [World.src[f] EXCEPT !.timer = 0]
           u == [World EXCEPT !.src[f] = s]
<1>1. Event(RtxTimerExpired(u, f))
  <2>1. u = [World EXCEPT !.src[f].timer = 0]
    OBVIOUS
  <2> QED
    BY <2>1 DEF Timeout
<1> HIDE DEF s
<1>2. CardsReady(u)
  BY ReadySame
<1> HIDE DEF u
<1> QED
  BY <1>1, <1>2, ReadyRtxTimerExpired, ReadyEvent

\* The entry of the event list is used up before the card's turn.
LEMMA CardsCardEvent ==
  ASSUME IInv, CardsReady(World), NEW h \in Host, CardEvent(h)
  PROVE  CardsReady(World')
<1> DEFINE n == World.nic[h]
           m == [n EXCEPT !.events = @ - 1, !.phase = "ending"]
           u == WithCard(World, h, m)
<1>1. Event(CardTurn(u, h)) /\ n.events > 0
  <2>1. u = [World EXCEPT !.nic[h].events = @ - 1, !.nic[h].phase = "ending"]
    BY DEF WithCard
  <2>2. n = nic[h]
    BY FullWorld
  <2> QED
    BY <2>1, <2>2 DEF CardEvent
<1>2. HasCards(World) /\ Ready(n, h) /\ \A g \in Host : g # h => Ready(World.nic[g], g)
  BY DEF CardsReady
<1>3. n.events = 1
  BY <1>1, <1>2 DEF Ready
<1>4. /\ Fields \subseteq DOMAIN m /\ m.events = 0 /\ m.phase = "ending"
      /\ m.queue = n.queue /\ m.control = n.control
  BY <1>2, <1>3 DEF Ready, Kept, Fields
<1> HIDE DEF m
<1>5. OnTurn(m, h)
  BY <1>2, <1>4 DEF Ready, OnTurn, Kept
<1>6. /\ HasCards(u) /\ u.nic[h] = m
      /\ \A g \in Host : g # h => u.nic[g] = World.nic[g]
  BY <1>2, PutCard
<1> HIDE DEF u, n
<1>7. CardOnTurn(u, h)
  BY <1>2, <1>5, <1>6 DEF CardOnTurn
<1> QED
  BY <1>1, <1>7, ReadyCardTurn, ReadyEvent

LEMMA CardsCardIdle ==
  ASSUME IInv, CardsReady(World), NEW h \in Host, CardIdle(h)
  PROVE  CardsReady(World')
<1> DEFINE n == World.nic[h]
           m == [n EXCEPT !.phase = "idle"]
           u == WithCard(World, h, m)
<1>1. Event(u) /\ n.events = 0
  <2>1. u = [World EXCEPT !.nic[h].phase = "idle"]
    BY DEF WithCard
  <2>2. n = nic[h]
    BY FullWorld
  <2> QED
    BY <2>1, <2>2 DEF CardIdle
<1>2. Ready(n, h) /\ ~Waiting(n)
  BY <1>1 DEF CardsReady, Ready
<1>3. /\ Fields \subseteq DOMAIN m /\ m.events = 0 /\ m.phase = "idle"
      /\ m.queue = n.queue /\ m.control = n.control
  BY <1>1, <1>2 DEF Ready, Kept, Fields
<1> HIDE DEF m
<1>4. Ready(m, h)
  BY <1>2, <1>3 DEF Ready, Kept, Waiting
<1>5. CardsReady(u)
  BY <1>4, PutReady DEF CardsReady
<1> HIDE DEF u
<1> QED
  BY <1>1, <1>5, ReadyEvent

LEMMA CardsPacerEvent ==
  ASSUME CardsReady(World), NEW h \in Host, PacerEvent(h)
  PROVE  CardsReady(World')
<1> DEFINE p == [World.pacer[h] EXCEPT !.events = @ - 1]
           u == [World EXCEPT !.pacer[h] = p]
<1>1. Event(PacerTurn(u, h))
  <2>1. u = [World EXCEPT !.pacer[h].events = @ - 1]
    OBVIOUS
  <2> QED
    BY <2>1 DEF PacerEvent
<1> HIDE DEF p
<1>2. CardsReady(u)
  BY ReadySink
<1> HIDE DEF u
<1> QED
  BY <1>1, <1>2, ReadyPacerTurn, ReadyEvent

LEMMA CardsPacket ==
  ASSUME IInv, CardsReady(World), NEW p \in Flying, Feedback(p) \/ Arrive(p) \/ Trim(p) \/ Drop(p)
  PROVE  CardsReady(World')
<1> DEFINE w == Take(p)
           f == p.flow
<1>1. CardsReady(w)
  BY ReadyTake
<1>2. f \in Flow
  <2>1. p \in Messages
    BY FullTake
  <2> QED
    BY <2>1 DEF Messages
<1> HIDE DEF w, f
<1>3. PICK v : CardsReady(v) /\ Event(v)
  <2>1. CardsReady(ProcessAck(w, f, p)) /\ CardsReady(ProcessNack(w, f, p))
        /\ CardsReady(ProcessPull(w, f, p))
    BY <1>1, <1>2, ReadyFeedback
  <2>2. CardsReady(ProcessData(w, f, p)) /\ CardsReady(ProcessTrimmed(w, f, p))
        /\ CardsReady(ProcessRts(w, f, p))
    BY <1>1, <1>2, ReadyProcessData, ReadyProcessTrimmed, ReadyProcessRts
  <2>3. \A q : CardsReady(SendOn(w, q))
    BY <1>1, ReadySame
  <2>4. CASE Feedback(p)
    BY <2>1, <2>4 DEF Feedback, w, f
  <2>5. CASE Arrive(p)
    BY <2>2, <2>5 DEF Arrive, w, f
  <2>6. CASE Trim(p)
    BY <2>3, <2>6 DEF Trim, w
  <2>7. CASE Drop(p)
    BY <1>1, <2>7 DEF Drop, w
  <2> QED
    BY <2>4, <2>5, <2>6, <2>7
<1> QED
  BY <1>3, ReadyEvent

LEMMA NextKeepsCards ==
  ASSUME IInv, CardsReady(World), [Next]_vars
  PROVE  CardsReady(World')
<1>1. CASE UNCHANGED vars
  BY <1>1 DEF vars, World
<1>2. CASE Next
  BY <1>2, CardsStart, CardsTimeout, CardsCardEvent, CardsCardIdle, CardsPacerEvent, CardsPacket
     DEF Next
<1> QED
  BY <1>1, <1>2

LEMMA InitCards ==
  ASSUME Init
  PROVE  CardsReady(World)
<1>1. World.nic = nic /\ "nic" \in DOMAIN World /\ nic = [h \in Host |-> Card]
  BY DEF World, Init
<1>2. /\ Fields \subseteq DOMAIN Card /\ Card.queue = <<>> /\ Card.control = <<>>
      /\ Card.events = 0
  BY DEF Card, Fields
<1>3. \A S : <<>> \in Seq(S)
  BY EmptySeq
<1>4. \A h : Ready(Card, h)
  BY <1>2, <1>3 DEF Ready, Kept, Waiting
<1> QED
  BY <1>1, <1>4 DEF CardsReady, HasCards

LEMMA ReadyServes ==
  ASSUME CardsReady(World)
  PROVE  CardServes
<1> SUFFICES ASSUME NEW h \in Host
             PROVE  LET n == nic[h] IN
                    /\ n.events = IF Waiting(n) THEN 1 ELSE 0
                    /\ n.phase = "idle" => ~Waiting(n)
                    /\ \A i \in DOMAIN n.queue : From[n.queue[i]] = h
  BY DEF CardServes
<1>1. Ready(nic[h], h)
  BY DEF CardsReady, World
<1>2. nic[h].queue \in Seq(At(h))
  BY <1>1 DEF Ready, Kept
<1>3. ASSUME NEW i \in DOMAIN nic[h].queue PROVE From[nic[h].queue[i]] = h
  <2>1. i \in 1 .. Len(nic[h].queue)
    BY <1>2, LenProperties
  <2>2. nic[h].queue[i] \in At(h)
    BY <1>2, <2>1, ElementOfSeq
  <2> QED
    BY <2>2 DEF At
<1> QED
  BY <1>1, <1>3 DEF Ready

-----------------------------------------------------------------------------
(* The invariant holds, and with it the properties.                        *)

LEMMA ContainsRange ==
  ASSUME NEW S, NEW s \in Seq(S), NEW x
  PROVE  Contains(s, x) <=> x \in Range(s)
<1>1. DOMAIN s = 1 .. Len(s)
  OBVIOUS
<1> QED
  BY <1>1 DEF Contains, Range

LEMMA AgreeLists ==
  ASSUME IInv
  PROVE  PullListsAgree
<1> SUFFICES ASSUME NEW f \in Flow
             PROVE  LET p == pacer[To[f]] IN
                    /\ sink[f].inPull <=> Contains(p.active, f)
                    /\ sink[f].retx > 0 <=> Contains(p.rtx, f)
                    /\ p.events = IF p.running THEN 1 ELSE 0
  BY DEF PullListsAgree
<1> DEFINE p == pacer[To[f]]
<1>1. To[f] \in Host
  BY EqdsConstants
<1>2. pacer \in [Host -> Pacers]
  BY DEF IInv, WorldOK, Worlds, World
<1>3. p.active \in Seq(Flow) /\ p.rtx \in Seq(Flow)
  BY <1>1, <1>2 DEF Pacers
<1>4. Agree(sink[f], p, f) /\ Awake(p)
  BY <1>1 DEF IInv, ListsOK, Listed
<1> HIDE DEF p
<1>5. Contains(p.active, f) <=> f \in Range(p.active)
  BY <1>3, ContainsRange
<1>6. Contains(p.rtx, f) <=> f \in Range(p.rtx)
  BY <1>3, ContainsRange
<1>7. /\ sink[f].inPull <=> Contains(p.active, f)
      /\ sink[f].retx > 0 <=> Contains(p.rtx, f)
      /\ p.events = IF p.running THEN 1 ELSE 0
  BY <1>4, <1>5, <1>6 DEF Agree, Awake
<1> QED
  BY <1>7 DEF p

LEMMA DoneReceived ==
  ASSUME IInv
  PROVE  DoneMeansReceived
<1> SUFFICES ASSUME NEW f \in Flow, src[f].done
             PROVE  sink[f].received = Size[f] * Mss
  BY DEF DoneMeansReceived
<1> DEFINE s == src[f]
           k == sink[f]
           R == Received(k) \ s.rts
           limit == IF f \in started THEN Size[f] ELSE 0
<1>1. World.src[f] = s /\ World.sink[f] = k
  BY DEF World
<1>2. SourceOK(s, {}, limit) /\ SinkOK(s, k) /\ DoneOK(s, k, f)
  BY <1>1 DEF IInv, WorldOK, NoneLate
<1>3. s.highest \in Nat /\ s.unsent \in Nat
  <2>1. src \in [Flow -> Sources]
    BY DEF IInv, WorldOK, Worlds, World
  <2>2. s \in Sources
    BY <2>1
  <2> QED
    BY <2>2 DEF Sources
<1>4. Size[f] \in Nat /\ Mss \in Nat /\ s.done
  BY EqdsConstants
<1> HIDE DEF s, k
<1>5. IsFiniteSet(DataSent(s)) /\ Cardinality(DataSent(s)) \in Nat
  <2>1. IsFiniteSet(0 .. s.highest - 1)
    BY <1>3, FS_Interval
  <2>2. IsFiniteSet(DataSent(s))
    BY <2>1, FS_Subset DEF DataSent, Sent
  <2> QED
    BY <2>2, FS_CardinalityType
<1>6. R \subseteq DataSent(s)
  BY <1>2 DEF SinkOK, DataSent
<1>7. Cardinality(R) <= Cardinality(DataSent(s)) /\ Cardinality(R) \in Nat
  <2>1. IsFiniteSet(R)
    BY <1>5, <1>6, FS_Subset
  <2>2. Cardinality(R) \in Nat
    BY <2>1, FS_CardinalityType
  <2> HIDE DEF R
  <2> QED
    BY <1>5, <1>6, <2>2, FS_Subset
<1>8. Cardinality(R) >= Size[f]
  BY <1>2, <1>4 DEF DoneOK
<1>9. k.received = Mss * Cardinality(R)
  BY <1>2 DEF SinkOK
<1>10. Cardinality(DataSent(s)) + s.unsent <= limit
  BY <1>2 DEF SourceOK
<1> HIDE DEF R
<1>11. Cardinality(R) = Size[f]
  BY <1>3, <1>4, <1>5, <1>7, <1>8, <1>10
<1>12. k.received = Size[f] * Mss
  BY <1>4, <1>9, <1>11
<1> QED
  BY <1>12 DEF k

\* IInv is an invariant of EQDS: no source sends more data than its flow has
\* or speaks of a number it did not give out, no sink counts a packet twice or
\* an RTS as data, and sinks and pacer keep the same lists.
THEOREM InvCorrect == Spec => []IInv
<1>1. IInv /\ UNCHANGED vars => IInv'
  BY StutterKeepsInv
<1>2. IInv /\ [Next]_vars => IInv'
  BY <1>1, NextKeepsInv
<1> QED
  BY <1>2, InitIInv, PTL DEF Spec

\* A sink is in the pacer's lists exactly when its flag and its count of
\* retransmissions say so, and a running pacer has one event to come
\* (addRequest, pullRequest and the two doNextEvent of eqds.cpp).
THEOREM PullListsCorrect == Spec => []PullListsAgree
  BY InvCorrect, AgreeLists, PTL

\* A flow reported finished has had exactly its bytes accepted, however many
\* numbers went to RTS packets (checkFinished, updateInFlight of eqds.cpp).
THEOREM DoneCorrect == Spec => []DoneMeansReceived
  BY InvCorrect, DoneReceived, PTL

\* A card calls back what waits for it, whatever its sources are granted,
\* decline or are refused: one event is to come exactly while something waits,
\* the card is not idle meanwhile, and only sources of its own host wait
\* (doNextEvent, requestSending, startSending, cantSend of eqds.cpp).
THEOREM CardsCorrect == Spec => []CardServes
<1> DEFINE Inv == CardsReady(World)
<1>1. Init => Inv
  BY InitCards
<1>2. IInv /\ Inv /\ [Next]_vars => Inv'
  BY NextKeepsCards
<1>3. Inv => CardServes
  BY ReadyServes
<1> HIDE DEF Inv
<1> QED
  BY <1>1, <1>2, <1>3, InvCorrect, PTL DEF Spec
=============================================================================
