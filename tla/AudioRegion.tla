------------------------------ MODULE AudioRegion ------------------------------
(***************************************************************************)
(* The boundary between the frame clock and the audio clock of probe1      *)
(* (components/audio_region): a render thread that ticks frames and swaps  *)
(* graphs, a device callback that renders blocks, and between them one     *)
(* crossing of each kind that orders anything: a ring of samples, a queue  *)
(* of counted events in either direction, a latch.  plan_mutex_ is held    *)
(* for a block by a try_lock, and by the render thread while it swaps.     *)
(*                                                                         *)
(* Abstractions.  A sample and a control value are the number of their     *)
(* production; 0 is what a fresh mapping holds, and the default of the     *)
(* latch's consumer.  A snapshot crossing is one atomic double and is left *)
(* out.  Atomics are sequentially consistent; the param that an edit reads *)
(* while a block may write it is the old or the new one.  An edit leaves   *)
(* the crossings and the nodes at their ends as they are.                  *)
(***************************************************************************)
EXTENDS Integers, Sequences

CONSTANTS
  Capacity,        \* kRingCap
  BlockSize,       \* samples of one block
  MaxSamples,      \* bound on samples produced
  MaxEvents,       \* bound on events raised, in both directions
  MaxValues,       \* bound on changes of the control
  MaxSwaps         \* bound on edits, each of which swaps the graph

ASSUME RingAssumption == Capacity \in Nat \ {0} /\ BlockSize \in Nat \ {0}
ASSUME RegionBounds == {MaxSamples, MaxEvents, MaxValues, MaxSwaps} \subseteq Nat

\* The two event queues: from frame to block and from block to frame.
Direction == {"into_block", "into_frame"}

VARIABLES
  frame, audio,    \* program counters of the render thread and the callback
  plan_mutex,      \* "free", or who holds it
  generation,      \* generation of the active graph; older ones are freed
  playing,         \* generation the callback works on while it holds the plan
  fresh,           \* the graph that waits to be swapped in, and the block
                   \* consumer's param in it
  buf, head, tail, \* Ring: storage and the two counters
  producer,        \* the callback's head, tail and samples left to push
  consumer,        \* the render thread's tail and head while it drains
  pending,         \* EvQueue::pending, per direction
  applied_high,    \* EvQueue::applied_high, per direction
  gate,            \* the consumer's event param, per direction
  latch,           \* Latch: mutex, value and set
  control,         \* the frame producer's output
  param,           \* the block consumer's param
  produced,        \* samples produced so far
  events,          \* events raised so far, per direction
  accepted, taken, \* auxiliary: samples the ring took and gave, this graph
  applied,         \* auxiliary: events applied so far, per direction
  peak             \* auxiliary: the newest control value the block has had

ring == <<buf, head, tail, producer, consumer, accepted, taken>>
queues == <<pending, applied_high, gate, events, applied>>
latches == <<latch, control, param, peak>>
playback == <<plan_mutex, generation, playing>>
regionVars == <<frame, audio, playback, fresh, ring, queues, latches, produced>>

EmptyRing == [i \in 0..(Capacity - 1) |-> 0]
NoEvents == [d \in Direction |-> 0]
AllLow == [d \in Direction |-> FALSE]
NotPushing == [head |-> 0, tail |-> 0, left |-> 0]
NotDraining == [head |-> 0, tail |-> 0]
FreshLatch == [held |-> FALSE, value |-> 0, set |-> FALSE]
NoneWaits == [waiting |-> FALSE, param |-> 0]

RegionInit ==
  /\ frame = "frame" /\ audio = "block"
  /\ plan_mutex = "free" /\ generation = 0 /\ playing = 0
  /\ buf = EmptyRing /\ head = 0 /\ tail = 0
  /\ producer = NotPushing /\ consumer = NotDraining
  /\ accepted = << >> /\ taken = << >>
  /\ pending = NoEvents /\ applied_high = AllLow /\ gate = AllLow
  /\ events = NoEvents /\ applied = NoEvents
  /\ latch = FreshLatch /\ control = 0 /\ param = 0 /\ peak = 0 /\ fresh = NoneWaits
  /\ produced = 0

-----------------------------------------------------------------------------
(* Events, in either direction                                             *)

\* What the load of the count decides.
Loaded(d) == IF pending[d] > 0 THEN "take" ELSE "lower"

\* A consumer that exchanges the count with 0.
TakeAll(d) ==
  /\ pending' = [pending EXCEPT ![d] = 0]
  /\ gate' = [gate EXCEPT ![d] = TRUE]
  /\ applied_high' = [applied_high EXCEPT ![d] = TRUE]
  /\ applied' = [applied EXCEPT ![d] = @ + 1]
  /\ UNCHANGED events

\* fetch_sub: the consumer applies one event per period.
Take(d) ==
  /\ pending' = [pending EXCEPT ![d] = @ - 1]
  /\ gate' = [gate EXCEPT ![d] = TRUE]
  /\ applied_high' = [applied_high EXCEPT ![d] = TRUE]
  /\ applied' = [applied EXCEPT ![d] = @ + 1]
  /\ UNCHANGED events

\* A consumer that forgets the falling edge.
LowerNever(d) == UNCHANGED queues

\* A period without one: what this queue raised, it lowers.
Lower(d) ==
  /\ gate' = [gate EXCEPT ![d] = @ /\ ~applied_high[d]]
  /\ applied_high' = [applied_high EXCEPT ![d] = FALSE]
  /\ UNCHANGED <<pending, events, applied>>

\* The producer's output is high in this period, or it is not.
Raise(d) ==
  \/ UNCHANGED queues
  \/ /\ events["into_block"] + events["into_frame"] < MaxEvents
     /\ events' = [events EXCEPT ![d] = @ + 1]
     /\ pending' = [pending EXCEPT ![d] = @ + 1]
     /\ UNCHANGED <<applied_high, gate, applied>>

-----------------------------------------------------------------------------
(* The render thread: PeerCore::begin_frame, tick and collect_edits         *)

Frame(from, to) == frame = from /\ frame' = to

\* No graph is pending.
KeepGraph ==
  /\ Frame("frame", "drain")
  /\ ~fresh.waiting
  /\ UNCHANGED <<audio, playback, fresh, ring, queues, latches, produced>>

\* A swap that does not wait.
PauseNothing ==
  /\ Frame("frame", "swap")
  /\ fresh.waiting
  /\ UNCHANGED <<audio, playback, fresh, ring, queues, latches, produced>>

\* A graph is pending: wait for the end of the block.
PauseBlocks ==
  /\ Frame("frame", "swap")
  /\ fresh.waiting
  /\ plan_mutex = "free" /\ plan_mutex' = "frame"
  /\ UNCHANGED <<audio, generation, playing, fresh, ring, queues, latches, produced>>

\* migrate_graph: the node keeps its storage and gets the fresh graph's params.
\* An event input is not among them.
Migrate == param' = fresh.param /\ fresh' = NoneWaits /\ UNCHANGED gate

\* The new graph takes the nodes over; rebuild_unlocked gives it mappings that
\* are all fresh; the old graph is freed.
Swap ==
  /\ Frame("swap", "drain")
  /\ generation' = generation + 1
  /\ plan_mutex' = "free"
  /\ Migrate
  /\ buf' = EmptyRing /\ head' = 0 /\ tail' = 0
  /\ accepted' = << >> /\ taken' = << >>
  /\ pending' = NoEvents /\ applied_high' = AllLow
  /\ latch' = FreshLatch
  /\ UNCHANGED <<audio, playing, producer, consumer, events, applied, control, peak, produced>>

\* publish: the ring is drained up to the head found at the start.
DrainBegins ==
  /\ Frame("drain", "draining")
  /\ consumer' = [head |-> head, tail |-> tail]
  /\ UNCHANGED <<audio, playback, fresh, buf, head, tail, producer, accepted, taken, queues,
                 latches, produced>>

DrainOne ==
  /\ Frame("draining", "draining")
  /\ consumer.tail < consumer.head
  /\ taken' = Append(taken, buf[consumer.tail % Capacity])
  /\ consumer' = [consumer EXCEPT !.tail = @ + 1]
  /\ UNCHANGED <<audio, playback, fresh, buf, head, tail, producer, accepted, queues, latches,
                 produced>>

DrainEnds ==
  /\ Frame("draining", "receive")
  /\ consumer.tail = consumer.head
  /\ tail' = consumer.tail /\ consumer' = NotDraining
  /\ UNCHANGED <<audio, playback, fresh, buf, head, producer, accepted, taken, queues, latches,
                 produced>>

\* publish: one event of the block's.
LoadIntoFrame ==
  /\ Frame("receive", Loaded("into_frame"))
  /\ UNCHANGED <<audio, playback, fresh, ring, queues, latches, produced>>

ReceiveIntoFrame ==
  /\ \/ Frame("take", "tick") /\ Take("into_frame")
     \/ Frame("lower", "tick") /\ Lower("into_frame")
  /\ UNCHANGED <<audio, playback, fresh, ring, latches, produced>>

\* tick_graph: the control moves or stays.
Tick ==
  /\ Frame("tick", "raise")
  /\ control' \in {control, control + 1} \cap 0..MaxValues
  /\ UNCHANGED <<audio, playback, fresh, ring, queues, latch, param, peak, produced>>

\* capture_latches: events first, then the latch, whose mutex is taken.
RaiseIntoBlock ==
  /\ Frame("raise", "latch")
  /\ Raise("into_block")
  /\ UNCHANGED <<audio, playback, fresh, ring, latches, produced>>

LockLatch ==
  /\ Frame("latch", "capture")
  /\ ~latch.held
  /\ latch' = [latch EXCEPT !.held = TRUE]
  /\ UNCHANGED <<audio, playback, fresh, ring, queues, control, param, peak, produced>>

CaptureLatch ==
  /\ Frame("capture", "collect")
  /\ latch' = [held |-> FALSE, value |-> control, set |-> TRUE]
  /\ UNCHANGED <<audio, playback, fresh, ring, queues, control, param, peak, produced>>

\* collect_edits: no edit, or one, for which the document is written down with
\* the params its nodes have now, and parsed again.
CollectEdits ==
  /\ Frame("collect", "frame")
  /\ \/ UNCHANGED fresh
     \/ generation < MaxSwaps /\ fresh' = [waiting |-> TRUE, param |-> param]
  /\ UNCHANGED <<audio, playback, ring, queues, latches, produced>>

Drain == DrainBegins \/ DrainOne \/ DrainEnds

RenderThread ==
  KeepGraph \/ PauseBlocks \/ Swap \/ Drain \/ LoadIntoFrame \/ ReceiveIntoFrame \/ Tick
    \/ RaiseIntoBlock \/ LockLatch \/ CaptureLatch \/ CollectEdits

-----------------------------------------------------------------------------
(* The device callback: render_block                                       *)

Audio(from, to) == audio = from /\ audio' = to

\* A failed try_lock is a silent block: nothing happens.
BlockBegins ==
  /\ Audio("block", "latch")
  /\ plan_mutex = "free" /\ plan_mutex' = "audio"
  /\ playing' = generation
  /\ UNCHANGED <<frame, generation, fresh, ring, queues, latches, produced>>

\* A block that does not ask whether there is a value yet.
ApplyUnset ==
  /\ Audio("latch", "receive")
  /\ param' = IF ~latch.held THEN latch.value ELSE param
  /\ peak' = IF param' > peak THEN param' ELSE peak
  /\ UNCHANGED <<frame, playback, fresh, ring, queues, latch, control, produced>>

\* The latch's value, or on a miss what the last block had.
ApplyLatch ==
  /\ Audio("latch", "receive")
  /\ param' = IF ~latch.held /\ latch.set THEN latch.value ELSE param
  /\ peak' = IF param' > peak THEN param' ELSE peak
  /\ UNCHANGED <<frame, playback, fresh, ring, queues, latch, control, produced>>

LoadIntoBlock ==
  /\ Audio("receive", Loaded("into_block"))
  /\ UNCHANGED <<frame, playback, fresh, ring, queues, latches, produced>>

ReceiveIntoBlock ==
  /\ \/ Audio("take", "push") /\ Take("into_block")
     \/ Audio("lower", "push") /\ Lower("into_block")
  /\ UNCHANGED <<frame, playback, fresh, ring, latches, produced>>

\* Nodes process; the crossing's producer has a block of samples, or has no
\* buffer yet.
PushBegins ==
  /\ Audio("push", "pushing")
  /\ \E n \in {0, BlockSize} :
       /\ produced + n <= MaxSamples
       /\ producer' = [head |-> head, tail |-> tail, left |-> n]
  /\ UNCHANGED <<frame, playback, fresh, buf, head, tail, consumer, accepted, taken, queues,
                 latches, produced>>

\* A ring one sample too generous.
HasRoomAndOne == producer.head - producer.tail <= Capacity

HasRoom == producer.head - producer.tail < Capacity

PushOne ==
  /\ Audio("pushing", "pushing")
  /\ producer.left > 0 /\ HasRoom
  /\ buf' = [buf EXCEPT ![producer.head % Capacity] = produced + 1]
  /\ producer' = [producer EXCEPT !.head = @ + 1, !.left = @ - 1]
  /\ produced' = produced + 1
  /\ UNCHANGED <<frame, playback, fresh, head, tail, consumer, accepted, taken, queues, latches>>

\* A full ring drops the newest; the samples pushed become visible at once.
PushEnds ==
  /\ Audio("pushing", "raise")
  /\ producer.left = 0 \/ ~HasRoom
  /\ head' = producer.head /\ producer' = NotPushing
  /\ produced' = produced + producer.left
  /\ accepted' = accepted \o
       [i \in 1..(producer.head - head) |-> buf[(head + i - 1) % Capacity]]
  /\ UNCHANGED <<frame, playback, fresh, buf, tail, consumer, taken, queues, latches>>

BlockEnds ==
  /\ Audio("raise", "block")
  /\ Raise("into_frame")
  /\ plan_mutex' = "free"
  /\ UNCHANGED <<frame, generation, playing, fresh, ring, latches, produced>>

Push == PushBegins \/ PushOne \/ PushEnds

Callback ==
  BlockBegins \/ ApplyLatch \/ LoadIntoBlock \/ ReceiveIntoBlock \/ Push \/ BlockEnds

-----------------------------------------------------------------------------
RegionNext == RenderThread \/ Callback

RegionSpec == RegionInit /\ [][RegionNext]_regionVars

\* Frames go on, a swap that waits gets the plan between two blocks, and the
\* device calls back with the plan free again and again.
Fairness ==
  /\ WF_regionVars(RenderThread) /\ SF_regionVars(PauseBlocks)
  /\ SF_regionVars(BlockBegins) /\ WF_regionVars(Callback)

FairSpec == RegionSpec /\ Fairness

-----------------------------------------------------------------------------
(* Properties                                                              *)

RegionTypeOK ==
  /\ frame \in {"frame", "swap", "drain", "draining", "receive", "take", "lower", "tick", "raise",
                "latch", "capture", "collect"}
  /\ audio \in {"block", "latch", "receive", "take", "lower", "push", "pushing", "raise"}
  /\ plan_mutex \in {"free", "frame", "audio"}
  /\ generation \in Nat /\ playing \in 0..generation
  /\ fresh \in [waiting : BOOLEAN, param : 0..MaxValues]
  /\ buf \in [0..(Capacity - 1) -> 0..MaxSamples]
  /\ {head, tail} \subseteq Nat
  /\ producer \in [head : Nat, tail : Nat, left : 0..BlockSize]
  /\ consumer \in [head : Nat, tail : Nat]
  /\ pending \in [Direction -> 0..MaxEvents]
  /\ applied_high \in [Direction -> BOOLEAN] /\ gate \in [Direction -> BOOLEAN]
  /\ latch \in [held : BOOLEAN, value : 0..MaxValues, set : BOOLEAN]
  /\ {control, param, peak} \subseteq 0..MaxValues

Draining == frame = "draining"

\* What the render thread has taken, followed by what lies between the two
\* counters, is what the callback pushed: no sample is overwritten before
\* it is read, read twice, or read before it is written, wherever the two
\* threads are in their loops and however often the counters wrap.  What either
\* thread sees is typed.
RingIntact ==
  LET from == IF Draining THEN consumer.tail ELSE tail
  IN  /\ RegionTypeOK
      /\ accepted = taken \o [i \in 1..(head - from) |-> buf[(from + i - 1) % Capacity]]

\* The callback works on the active graph, never on one that a swap freed.
BlockPlaysLiveGraph == audio # "block" => playing = generation

\* Events raised that neither wait nor have been applied.
Lost(d) == events[d] - applied[d] - pending[d]

\* The producer adds while the consumer is between its load and its fetch_sub:
\* as long as the graph stays, no event is lost and none applied twice, in either
\* direction.  A swap loses what waits; nothing ever brings an event back.
EventsConserved ==
  [][\A d \in Direction : IF generation' = generation THEN Lost(d)' = Lost(d)
                                                     ELSE Lost(d)' >= Lost(d)]_regionVars

\* A swap may put the block consumer's param back to what the edit had read.
\* Whatever a block applies after that is at least as new as all that any
\* block has had: an empty latch, or one that is held, never brings an old value.
LatchInOrder ==
  [][generation' = generation /\ param' # param => param' >= peak]_regionVars

\* As long as the graph stays, a queue gets empty, and what it raised falls.  Of
\* two events in a row the second is applied without a fall before it.
EventsGetAcross ==
  \A d \in Direction, g \in 0..MaxSwaps :
    (generation = g /\ (pending[d] > 0 \/ applied_high[d]))
      ~> (generation # g \/ (pending[d] = 0 /\ ~gate[d]))

==============================================================================
