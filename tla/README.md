# Verification of csg-htsim

htsim is a discrete-event packet simulator for datacenter transports. One thread
runs one event list; everything is a handler called from `EventList::doNextEvent`.
So there are no data races here, but the objects are a concurrent system all the
same: each keeps its own state and its own pending events, and what it assumes
about the others is only true for some orders of events. This project models those
objects in TLA+, checks the models with TLC and proves part of the results with
TLAPS.

Sources are named relative to `src/sim/`.

## 1. Inventory

| component | state | operations | interacts with |
|---|---|---|---|
| Event list (`eventlist.cpp`) | time, pending events by time, pending triggers, end time | schedule, cancel (by source, time, handle), trigger, run the next event | every source of events |
| Triggers (`trigger.cpp`) | targets, done / next / remaining | activate | end of one flow, start of others |
| Connection matrix (`datacenter/connection_matrix.cpp`) | connections, triggers by id | load, bind to flows | flows, triggers |
| Links (`pipe.cpp`, `callback_pipe.cpp`) | ring of packets with delivery times | receive, deliver and re-arm | queues, switches |
| Drop-tail and host queues (`queue.cpp`) | packets by priority, bytes, packet in flight, send state | receive, PAUSE/RESUME, begin and complete service | sources of the host, first link, input queue of the switch |
| PFC ports (`queue_lossless_output.cpp`, `queue_lossless_input.cpp`) | FIFO and parallel list of input queues, send state, sending; byte count and receive state | receive, PAUSE/RESUME, begin and complete service; count, complete, send pause | each other, across a link and across a switch |
| Trimming queues (`compositequeue.cpp` and variants) | two queues, ratio of service | receive, trim, bounce, serve | NDP, EQDS |
| Fair pull queue (`fairpullqueue.cpp`) | map of FIFOs, round-robin iterator, count | enqueue, dequeue, flush | NDP pacer, host card |
| RoCE (`roce.cpp`) | sequence numbers, send state, pacing event, done | start, pace, ACK, NACK, PAUSE/RESUME | host card, end trigger |
| EQDS (`eqds.cpp`) | card: source queue, control packets, scheduled; source: credits, pull targets, sending state, send records and times, timer; sink: expected, bitmap, credit given, retransmissions; pacer: three lists of sinks | start, send if permitted, ACK, NACK, pull, timer, RTS; data, trimmed, RTS; pull | each other in the same call stack, trimming queues, triggers |
| NDP (`ndp.cpp`) | source: highest, retransmission queue, pull numbers, expected pulls; sink: pull number, received; pacer: fair pull queue, time of the last pull | start, ACK, NACK, pull, bounce; data, header, request; send with or without pull, release | trimming queues, fair pull queue, triggers |
| TCP, Swift, STrack, HPCC, constant-window | windows, sent packets, timers | send, acknowledge, retransmit | queues, event list, triggers |
| Fat-tree switch (`datacenter/fat_tree_switch.cpp`) | packets in the pipeline, forwarding table | receive (first and second pass), route | input and output queues |
| Topologies, drivers, loggers, parser | | construction, command line, reporting | |

The hard behaviours: pause frames take time to arrive and cross completions;
pacing and service events are re-armed by whoever runs last, so an event can be
lost or doubled; go-back-N answers arrive late; an iterator stays in a map that
changes under it; thresholds and headroom meet at boundaries. `PROJECT.json`
lists each hazard at its line with the properties that would catch it.

What makes each component correct:

* PFC: lossless (bounded overrun), every pause ends, both ends agree, one packet
  on a wire at a time, no port idle on a backlog it may send.
* Fair pull queue: round robin without starvation, the count is right.
* Host card: as PFC port, and no packet lost between its three books.
* RoCE: no lost wake-up, acknowledged means received, completes once, completes.
* Event list: nothing fires late or, once cancellation is modelled, after it.
* Triggers: every flow of a job starts once, in turn, and the job finishes.
* Trimming queue: a header survives when a payload cannot, or goes back.
* NDP: a packet is in exactly one place, the window is kept, flows finish.
* EQDS: card, sources, sinks and pacer agree on who waits for whom; every
  unacknowledged packet has a timer; done means received; flows finish.
* TCP (planned): in-order delivery, recovery ends, the timer is always armed when needed.

## 2. Modules

    LosslessPort ---- LosslessOutputQueue ---- LosslessOutputQueueProofs
         |
      PfcSwitch ---- PfcHop ---- PfcHopProofs      (with the lemmas about a port)
              \----- PfcHost ---- MCPfcHost        (host cards, over FairPriority)
                          \------ PfcHostProofs    (with the lemmas about a fair queue)
      FairPull ---- FairPriority
             \----- FairPullQueue ---- FairPullProofs
              \
      CompositeQueue ---- Ndp ---- NdpProofs       (with the lemmas about a fair queue)
                            \----- MCNdp

      RoceFlow ---- RoceFlowProofs

      EqdsSource ---- EqdsSink ---- Eqds ---- EqdsProofs
                                        \---- MCEqds

      EventList ---- FlowTriggers ---- MCFlowTriggers
                           \---------- FlowTriggersProofs

* **LosslessPort**: the operations of `LosslessOutputQueue` as operators on a
  record, so that one port can be run alone (**LosslessOutputQueue**) and several
  composed. `service` is the list of service events pending for the queue: nothing
  in the event list prevents two, so the model does not either.
* **PfcSwitch**: the links into a switch, `LosslessInputQueue`, the pipeline of
  the switch, its output queues, and the wires that carry pause frames.
  **PfcHop** puts upstream switch ports at the far end, **PfcHost** the cards of
  hosts. The next hops of the switch appear as `EgressPaused` / `EgressResumed`.
  `early` in **PfcHost** is a history: the hosts whose card a RESUME has found
  transmitting. No action depends on it.
* **FairPull**: `FairPullQueue` as operators, run alone in **FairPullQueue** and
  used by **FairPriority**, the class `FairPriorityQueue`.
* **RoceFlow**: `RoceSrc` and `RoceSink` and the way between them: one FIFO path, or,
  when `sprayed`, a route for each packet, so that packets, ACKs and NACKs arrive in
  any order (`Arriving`).
* **EventList**: the multimap of pending sources, as one queue per time below the
  end time (equal keys of a multimap keep their order of insertion), and the stack
  of pending triggers. **FlowTriggers** runs a job on it: the flows of a connection
  matrix, each started by its time or by a trigger, and the three kinds of trigger.
  A matrix is given by constants; `TargetsAssumption` is what the loader
  guarantees about it.
* **EqdsSource**: `EqdsNIC` and `EqdsSrc`, **EqdsSink**: `EqdsSink` and
  `EqdsPullPacer`. These objects call each other back within one event (a source
  asks the card for a turn, the card calls the source, the source sends and asks
  again), so each function of the code is an operator from a world (`src`, `nic`,
  `sink`, `pacer`, `net`, `now`, `ok`) to a world, and `ok` becomes false where the
  code asserts or aborts. **Eqds** has the events: start, timer, card, pacer, and
  the arrival, trimming and loss of packets.
* **CompositeQueue**: `CompositeQueue` as operators on a record; `ReceivePacket`
  gives the set of outcomes its random choice allows. **Ndp** puts it in front of
  a host, with the sources and sinks of several flows and the host's pacer, whose
  pull queue is **FairPull**.

Operators whose comment begins with "Mutant" are slips of the code next to them,
used to see that each property can fail; no specification uses them.

### Abstractions

* All data packets have one size; sizes and thresholds are counted in packets.
* Time is discrete and relative: an event holds the ticks left, `Tick` is possible
  only when no event is due, as the event list has it. Events due at the same time
  fire in any order; the program uses the order of insertion, which is one of these.
* A handler is one action, with everything it calls (`completeService` credits the
  input queue, sends the pause frame and starts the next packet in one step).
* In RoceFlow the spacing of packets is a flag that becomes true again; the
  pacing event is a counter of pending events. `main_roce.cpp` routes a flow by ECMP on
  one path or, with `-strat ecmp_ar`, `ecmp_rr` or `ecmp_host_ar`, each packet on its
  own (`fat_tree_switch.cpp:321-394`); the model has both.
* In FlowTriggers a transfer is two events of any duration, the arrival of its last
  packet and of the acknowledgement. A flow reports its end once, as `RoceSrc`
  (`DoneOnce` in RoceFlow) and `EqdsSrc` do; `NdpSrc` has no such guard. Here time
  is absolute and bounded by `EndTime`; events due at one time run in the order of
  the list, as in the program.
* EQDS: a flow is a whole number of packets, so `_backlog` and `_unsent` are one
  count; bytes are in units of 64, sequence numbers and credit keep their meaning.
  Each event has an instant of its own (send times are keys of `_send_times`), and
  instants are renumbered in `Tick` so that only those in use are told apart. A
  stale `_rto_send_time` after `clearRTO` is folded into `timer = 0`. The RTS packet
  carries `_hdr_size` as its pull target: `sendRTS` (`eqds.cpp:921-943`) passes its
  arguments that way, and the model follows the code. Path entropy, ECN,
  `_in_flight` and statistics are left out.
* EQDS timeouts: `_min_rto` is 150 us and the time to drain a full queue
  (`datacenter/main_eqds.cpp:346`), so `Timeout` waits until nothing of the flow is
  under way (`Quiet`).
* NDP: packets and headers have one size each, and the rooms of the queue are
  counted in them; a room of one header stands for a queue filled by other
  traffic. The way to the queue and the way back deliver in any order (packets are
  sprayed over paths) and lose nothing. Whether a drain time has passed since the
  last pull is all that is kept of the pacer's clock; an event is due at this
  instant or at the end of that time, and there are no others. The
  retransmission timer is compiled out (`ndp.cpp:1141-1146`) and `RCV_CWND` is 0
  (`ndp.cpp:27`), so neither send times nor the pacer's numbers matter. `is_bad_path`
  looks at the last 12 answers; the flows have fewer, so two counts are enough.
  Which pull queue `ndp.h:369-375` selects depends on the compiler's `#elifdef`; with
  the one priority in use all but the FIFO behave alike.
* Sources behind a host card may send although it is paused. `RoceSrc` would stop
  (RoceFlow models that), other transports do not listen to pauses.

## 3. Runs

| run | bounds | shows |
|---|---|---|
| `LosslessOutputQueue` | 2 input queues, packet time 3, 4 queued | every order of frames, packets and service; two tags show that the order of departure is kept; 4 queued is more than the packet in flight and the next |
| `PfcHop` | 1 port, 2 egress queues, thresholds 2/1, packet time 2, wire 5, pipeline 1 | two pause frames on one wire, the headroom bound reached exactly |
| `PfcFanIn` | 2 ports, 1 egress queue | departures are credited to the right input queue; pauses end |
| `FairPullQueue` | 4 flows, 2 packets each | four flows leave two on each side of the iterator |
| `PfcHost` | 2 priorities, 2 egress queues, thresholds 2/1, packet time 2, 2 queued | what a card keeps until a RESUME finds it transmitting, which these thresholds let happen, and that nothing but such a RESUME makes its assertion fail; pauses end |
| `PfcHostFast` | 3 egress queues, thresholds 3/2 | **violation**, see below |
| `RoceFlow` | 3 packets, 1 pause, 2 losses, 3 in flight, with and without a stop time, on one path and with a route for each packet | pacing, acknowledgement, completion; a retransmission can be lost again, and an old NACK arrives after newer ACKs and takes the source back |
| `RoceStop` | as above, lossless, with a stop time | **violation**, see below |
| `FlowTriggers` | 10 flows, one trigger of each kind, half transfers of 1 or 2, end time 16 | a window over a multi-shot that is activated more often than it has flows, a barrier, a fan-out; the longest path takes 13, so nothing is cut off |
| `Eqds` | 1 flow of 2 packets, window 1, 1 trim and 1 loss, 1 pull under way, Quantum 8, Mss 64 | speculation, credit, pull, NACK, timeout, RTS and retransmission in any order that lets each of them happen; the card and the pacer stop and start again |
| `EqdsShort` | 1 flow of 1 packet, window 1, 1 trim | **violation**, see below |
| `Ndp` | 2 flows of 3 packets and 1, window 2, the short one asks for a grant; 1 packet and 1 header of room, 1 trim, 1 bounce | new packets and retransmissions on pulls, pulls that overtake their ACKs, pulls released while the pacer's event is pending, a bounce resent and swallowed |

The runs of EQDS and NDP are single small incasts, and the flaws below show what a
step beyond their bounds would meet.

Deadlock is checked except in the RoCE, EQDS, NDP and trigger runs, where a flow ends
and nothing is left to do, and in `PfcHost` and `PfcHostFast`, where a failed
assertion ends the program.

### Fairness

The simulation loop runs every event that is pending, so the handlers and the
passage of time are weakly fair together (`WF_vars(Event)`): only time orders them.
The next hop of an egress queue resumes it (`Resumed`), as `PauseEnds` says of the
hop itself. In RoceFlow every handler is weakly fair, and a pause is followed by a
resume. Fairness does not say which of several packets arrives first, and need not: the
flow finishes even if one packet is overtaken again and again. In FlowTriggers, EQDS
and NDP the loop of `main` is fair (`while
(eventlist.doNextEvent())`): `WF_vars(Next)`, in Eqds stated without ENABLED, as
"infinitely often no event is pending, or infinitely many steps". Every packet in
flight is an event of that loop, and trims and losses are bounded. Arrivals, pauses and losses are never fair. `FlowFinishes` assumes that a
lost packet has another one behind it: the code has no retransmission timer.

### What the violations show

* `PfcHostFast`: `FairPriorityQueue` restarts on RESUME without asking whether a
  packet is in flight (`queue.cpp:477`), as `LosslessOutputQueue` does
  (`queue_lossless_output.cpp:66`). If PAUSE and RESUME both arrive within the
  transmission of one packet, `assert (_sending != NULL)` fails or a packet is
  lost. The property counts only failures that do not depend on the order of
  events due at the same time. Early RESUMEs need more departures than
  `High - Low + 1` in less than a packet time, from egress queues that drain at once;
  `main_roce.cpp`'s default thresholds, 15 and 12, are five departures apart, so
  switches with enough ports are exposed. Run `PfcHost` and theorem `AssertionHolds`
  say that nothing else makes the assertion fail.
* `RoceStop`: a stop time that passes after the last packet was sent moves the end
  of the flow past anything pacing will send (`roce.cpp:250`); the flow never
  reports its end. Nothing in the repository calls `set_stoptime` on a RoCE source.
* `EqdsShort`: `spendCredit` asserts that a source with pulled credit is COMMITTED
  (`eqds.cpp:660`), but `stopSpeculating` leaves a flow without backlog SPECULATING
  (`eqds.cpp:652`). A flow that its initial window has sent whole, trimmed once, is
  pulled, and `sendRtxPacket` fails that assertion.

Met in EQDS by TLC, outside the bounds of the passing run, and listed as hazards with
the line they bite at:

* A retransmission and an RTS sent in one instant share a key of `_send_times`; one
  of them has no timer (`eqds.cpp:1094`).
* Left-over speculative credit makes `credit()` positive, so no RTS goes out, but a
  lost packet may not be sent for it either (`eqds.cpp:1102`).
* A NACK that arrives after a premature timeout finds no record and aborts
  (`eqds.cpp:543`).

In NDP:

* `FinishOrStrand` says exactly how a flow ends unfinished: a bounced header is
  swallowed unless no pull is expected, and the count of expected pulls is off when
  a pull overtakes its ACK, or a NACK carried its pull (`ndp.cpp:477`). The comment
  there promises the immediate resend of the only packet left. With no bounce
  every flow finishes; with one, `<>(src[f].done = 1)` fails.
* `release_pulls` leaves the pacer's event behind, which can start a second chain
  of events (`ndp.cpp:1983`); a bounced request aborts the source (`ndp.cpp:745`).

Met on the way, without a run: `trigger.h:54-56` says a `MultiShotTrigger` aborts
when it is activated more often than it has targets; `trigger.cpp:41-45` returns,
and `gen_serialn_alltoall.py` needs that (run `FlowTriggers` has the case). And
`main_ndp.cpp` and `main_eqds.cpp` bind a `recv_done_trigger` to the sink, `main_roce.cpp`
and `main_hpcc.cpp` ignore it, and no sink activates it (nothing reads `_end_trigger` of
an `NdpSink` or `EqdsSink` again): the matrix of `gen_allreduce_butterfly.py` links its
steps with this trigger only, so every step after the first never starts.

## 4. Proofs

The theorems hold for every value of the constants that the assumptions allow, not
for the instances of section 3:

| module | for every | theorem | property |
|---|---|---|---|
| `LosslessOutputQueueProofs` | set of tags, packet time, backlog | `TypeCorrect`, `OneTransmission`, `PauseObeyed` | `TypeOK`, `ServiceInv`, `PauseStopsPort` |
| `PfcHopProofs` | set of upstream ports and egress queues, finite or not, thresholds the constructor accepts, all delays | `HopTypeCorrect`, `PortsCorrect` | the inductive type, `PortsInv` |
| | | `AgreementCorrect`, `AlternationCorrect`, `ResumeCorrect` | `PauseAgreement`, `FramesAlternate`, `ResumeWillCome` |
| | | `AccountingCorrect`, `TypeCorrect` | `Accounting`, `TypeOK` |
| | | `LosslessCorrect` | `NoOverrun` |
| `PfcHostProofs` | set of hosts and egress queues, packets, priorities, packet time, delays, thresholds the constructor accepts | `AssertionHolds`, `OneTransmissionCorrect`, `CardConservesCorrect` | `SendingNotNull`, `OneTransmission`, `CardConserves` |
| `FairPullProofs` | set of flow ids, number of packets | `TypeCorrect`, `CountIsRight`, `ServesInTurn` | `TypeOK`, `CountMatches`, `RoundRobin` |
| `RoceFlowProofs` | flow size, packets in flight, pauses, losses, with and without a stop time | `TypeCorrect` | the type (stated in the module) |
| | | `AcksAreTrue`, `CompletesOnce` | `AckedIsReceived`, `DoneOnce` |
| | | `LosslessNeedsNoNack`, `AlwaysWoken` | `NoGap`, `NoLostWakeup` |
| `FlowTriggersProofs` | matrix, delays and end time | `TypeCorrect`, `NothingOverdueCorrect`, `StartOnceCorrect` | `TypeOK`, `NothingOverdue`, `StartOnce` |
| | | `TimeCorrect` | time never goes back |
| | | `InTurnCorrect` | `InTurn` |
| | matrix that is `Fed` | `NoAbortCorrect` | `NoAbort` |
| `NdpProofs` | set of flows, sizes, window, room and service ratio of the queue, order of arrival, trims and bounces | `InvCorrect` | the inductive invariant |
| | | `EachPacketOnceCorrect`, `WindowKeptCorrect` | `EachPacketOnce`, `WindowKept` |
| `EqdsProofs` | finite set of flows, set of hosts, routes, sizes, window, byte counts, turns, width of the pull counter, trims, losses and pulls under way | `InvCorrect` | the inductive invariant |
| | | `PullListsCorrect`, `CardsCorrect`, `DoneCorrect` | `PullListsAgree`, `CardServes`, `DoneMeansReceived` |

**One port.** The inductive invariant is `PortOK`: the type, and `OneService` and
`StateMatchesService`. Neither is inductive alone: that a port has one service
event needs that PAUSED means nothing is in flight, and that needs that
PAUSE_RECEIVED means something is. `LosslessOutputQueueProofs` begins with one
lemma per operation (`PortOK(q) => PortOK(operation(q))`), stated about records so
that the proofs of the hop cite them. The hop takes them by INSTANCE; what it gives
for the port's variable and backlog bound there does not matter, as no lemma
mentions them.

**A hop, in four layers.**

1. `HopType`: every port is `PortOK` and holds tags of the right kind, and what is
   on a link, in the pipeline or on a wire is ordered by the time left. The order
   is what makes the passage of time safe: a handler looks at the head of a pipe
   only, and no element behind a head that is not due can be due.
2. `LinksInv`: for each link, `PauseAgreement`, `FramesAlternate` and
   `ResumeWillCome` together. Agreement alone is inductive given the type;
   alternation rests on it (the last frame on the wire is what the input queue
   believes, so the next one, sent on a change of mind, differs).
3. `CountInv`: the places of the packets of an input queue, in the pipeline and in
   the output queues, form finite sets whose sizes add up to `_queuesize`. A
   departure renumbers every place behind it, so each step that takes a head is a
   bijection of places. `_queuesize >= 0`, the assertion in `completedService`, is
   a consequence: the type invariant of the hop cannot be proved without the count.
4. `SafeInv`, for `NoOverrun`. A bound on the count says nothing of how much more is
   coming, so the invariant bounds that. `Spaced`: packets on a link are a packet
   time apart, and the packet in service is as far behind the last of them. `InTime`
   relates what the input queue has room for (`Spare`: the bound, less what it holds
   and what is on the link) to the last frame: an input queue that is READY is not
   above its high threshold; while a PAUSE is on the wire, the packets that can still
   be sent before it arrives fit; once it has arrived, so does the packet in service.
   `Headroom` is the number of packet times in the two delays, and one; run `PfcHop`
   reaches the bound, so it cannot be lower.

**A host's card.** `FairPriorityQueue` restarts on RESUME without asking whether a
packet is in flight, so no invariant of all its states carries the assertion of
`beginService`. What is inductive is `CardOK` for every card outside `early`: its fair
queues are `WellFormed` and count what they hold, it has a service event exactly while
a packet is in flight, PAUSED means none is, and READY on a backlog means one is. There is
one lemma per handler of the card. They assume nothing of the frames: a second PAUSE of a
PAUSED card that holds packets leaves it in PAUSE_RECEIVED with no packet in flight, which
`CardOK` allows (`completeService`, where that state ends, does not run then). So the
switch, its thresholds and its wires need no invariant, and only a step that adds the
card to `early` can break `CardOK`. `SendingNotNull` is stronger than it looks: a card
that has failed is in `early`, however many steps before.

**Fair queue.** `FairPullProofs` begins with lemmas about `Enqueue`, `Dequeue` and
`Flush` as operators, which the proofs of NDP and of the host card cite by INSTANCE:
which flow is served (the first with packets, cyclically from the iterator), that a `WellFormed` queue stays so and that the count is the number of
its places (a flow and an index of its FIFO), which an operation takes or adds one by
one. Round robin is a property of histories; the invariant that
carries it is `Behind`: between the iterator and a flow that waits there is no flow
that was served while it waited. A flow that does not wait starts with a clean
history (`Quiet`).

**RoCE.** `AckedIsReceived`, `DoneOnce`, `NoGap` and `NoLostWakeup` are inductive
together with three facts: nothing has happened before the start; only a stop time
that has passed changes the size of the flow; and on one path that has lost nothing, what is
under way continues what the sink has (`Consecutive`), without which `NoGap` only says
what has happened so far. The first two properties hold in whatever order the network
delivers: a NACK that newer ACKs have overtaken takes the source back, an ACK takes it
forward again, and neither passes the sink. `NoGap` is claimed of one path only; with
a route for each packet overtaking makes gaps.

**A job.** `StartOnce` speaks of flows already on the stack; to keep it, the flows
a trigger is about to put there must be idle, on no stack and different. So the
invariant adds `UnreleasedWait` (what a trigger has not released is idle and not
pending, for each kind by its own counter) and `QueuedOrStarted` (an idle flow with
an event has a start time, so no trigger has it as a target). That the end of a
flow finds the stack empty, because triggers run before time moves, is what keeps
the two ways to start apart. A second part counts: the counter of a trigger is the
number of its finished feeders as far as it goes (`Counted`, over finite sets of
flows of a matrix that need not be finite), and what is released is started or on the
stack (`ReleasedGo`). The two give `InTurn` for every job. `NoAbort` needs the
hypothesis `Fed`, that a trigger is fed as its kind expects. The loader does not
check it; `MCFlowTriggers` asserts it of the jobs that are run.

**NDP.** The invariant has eight parts. `OnePlace` adds up the places where a packet
may be (retransmission queue, sink, on the network as data, bounced header or NACK,
in either half of the queue): the sum is 1 for a sequence number that was sent and 0
for one that was not. A sum of presences counts copies only because no two packets on
the network or in the queue are alike (`Apart`), so the two go together. `Ending`
says the last acknowledgement is one packet and the sink has everything when it is
under way, from which a flow ends once. `Budget` is what makes the window hold: the
data, bounced headers and requests on the way to the sink, and the pulls the source
has not used, are together at most the first window. `PullsTrue` (no pull number
is ahead of the sink's) keeps the difference from going negative when pulls arrive out
of order: an old pull releases nothing because a newer one already did.
`ServiceInv` and `Fresh` say what an empty queue and an unstarted flow look like.

**EQDS.** `DoneMeansReceived` counts: `checkFinished` takes the cumulative
acknowledgement less the number of RTS packets, so the theorem needs that every
sequence number is either an RTS of the source's set `rts` or data, and that there
are no more data numbers than the flow has packets. The invariant (`WorldOK`) has, for
each source (`SourceOK`), that what it remembers in any of its books was sent, that
its timer waits for an entry of `_send_times`, and that the data sent and not yet
sent are together at most the flow (`Size`, or nothing before the start); for each
sink (`SinkOK`), that what it has received was sent, and its bytes are those of the data
among it; for each flow (`DoneOK`), that done means enough data received; for each
packet under way (`PacketOK`), that data and RTS packets carry the size
the source recorded and an ACK acknowledges no more than the sink has. None of these
is inductive alone: an acknowledgement is believed because it is on the network
below the sink's count, and a retransmission has the size of the original because
`rts` only grows above what was sent (`Grows`).

A handler passes through many worlds before it ends. The lemmas follow the calls of
the code (`SendPacket`, `StartSending`, `CantSend`, `Attempt`, `SendIfPermitted`,
`ProcessAck`, ...): each says that a world that is `WorldOK` is left `WorldOK`, sinks
and pacers untouched. One handler breaks the invariant and repairs it: between erasing
a send record and `recalculateRTO` the timer may wait for an entry that is gone; the
parameter `late` of `WorldOK` names that entry. `TimeToSend` asks the sources in
the card's queue one after another (`Asked`, a function of how many have been asked);
that such a function exists is a lemma (`FirstAskedExists`), and the least number at
which a world is not `WorldOK` is the contradiction that takes the place of an
induction over it. `Tick` renumbers the instants in use, of which there are finitely
many, from 1: the keys of `_send_times` stay instants and 0 stays "no timer".

`PullListsAgree` is about two records only, a sink and its pacer (`Listed`), and
needs that no flow is in a list twice, or in a list of another host (`Tidy`): without it
taking the head of a list would leave the flow behind while its flag is cleared. The
number of events of a pacer (`Awake`) is kept apart, because `PacerTurn` runs with its
event already taken. The two halves meet in `Full`, of any world, and `IInv` is `Full`
of the variables.

`CardServes` is about a card with any number of sources: `Ready` says that between two
events it has one event to come exactly while something waits, that it is not idle
meanwhile, and that its queue holds sources of its own host (`At`). Within an event a
card goes through states that are not `Ready`: its event is taken, a source is asked and
declines. `CardOnTurn` describes these, and a lemma per call says which of the two it
leaves. The run has one source; that several compete for one card, decline their
turns, leave its queue and join it again is what the theorem adds.

Each theorem of a specification has the three steps of an inductive proof, with one
lemma or step per action. The invariants were first given to TLC on the small
instances; the parts that only serve a proof are not properties of the runs.

Assumptions: `TxAssumption` and `PfcAssumption` (packet time positive, delays and
thresholds natural numbers, `High > 0` and `High > Low` as the constructor
asserts, different names for ports of the two sides), `HostAssumption` (positive flow ids, a
finite set of priorities, routes that end at egress queues), `BacklogAssumption`,
`FlowAssumption` (flow ids are positive, 0 marks the end of the map),
`RoceAssumption`, `EndTimeAssumption`, `MatrixAssumption`, `TargetsAssumption`,
`QueueConstants` (room for a packet, ratios positive), and `FlowConstants`, which
asks that a flow has no more answers than the source remembers (`HIST_LEN`, a constant
of the model): beyond it the two counts of `BadPath` are not what `is_bad_path` sees.
`EqdsConstants` (a finite set of flows, each with a size, a window, packets with a
header and a payload, a positive quantum), `SinkConstants` and `FaultConstants`.
Bounds such as `MaxBacklog`, `Depth`, `Drops` and `MaxTrims` are any natural numbers.

Only model-checked:

* `EveryPacketTimed` of EQDS fails outside the bounds of the run (section 3), so no
  theorem for every constant can state it.
* That a source blocked on its card (`_send_blocked_on_nic`) is in the card's queue is
  not claimed at all: one that has nothing to send when its turn comes returns before it
  clears the flag (`eqds.cpp:962-964`, `974`). TLC has found no run of a source that
  stays blocked outside the queue, with one flow of up to 4 packets and with two that
  share a card; whether there is one is open.
* All liveness, and `FinishOrStrand`, which is about how a flow of NDP ends.

## 5. Plan

1. `CircularBuffer` and the ring of `Pipe` as refinements of a FIFO; cancellation by
   source and by time in the event list.
2. Larger EQDS and NDP instances: two flows through one EQDS pacer, two trims.
3. TCP; `PriorityQueue`, the older `LosslessQueue`, a cycle of switches.

## 6. Not modelled

`PROJECT.json` names every component and the reason. The map covers a small part of
the sources because most of the sources is not protocol logic or is a copy:

* Swift, MPTCP, DCTCP, HPCC and STrack decide by floating-point rates.
* Topologies (several thousand lines each) build static wiring; drivers parse
  command lines; loggers and `parse_output.cpp` report.
* `ndp-orig.cpp`, `ndptunnel.cpp`, `swift_new.cpp`, `multi_fat_tree_topology.cpp` and
  the variants of the queues are copies of a modelled or static file with changes.
* Of EQDS: path entropy and penalties, ECN, the end of the simulation in `startRTO`,
  a timeout while answers are under way. A loop the model shows by its state only:
  `requestSending` may queue a source twice without `_send_blocked_on_nic`, and
  `rtxTimerExpired` passes a `bool` where `startSending` takes a size; the size only
  says how long the card is busy, which the model leaves open.
* Of NDP: `NdpRTSPacer` (it delays requests, as the network does),
  oversubscribed congestion control, the stop time, path choice, ECN, the tunnel.
