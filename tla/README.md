# sygaldreye: models, checks and proofs

TLA+ models of the parts of this repository where order, sharing and failure decide
correctness, the TLC runs that check small instances of them, and TLAPS proofs for every
value of the constants. Paths below are relative to the repository (`src/` is its root);
`P2` stands for `src/probe/probe2/src`.

    tlc -workers 2 -config MCStore.cfg MCStore     # one run
    tlapm StoreProofs.tla                          # one module's proofs

`PROJECT.json` lists components, runs, mutants, hazards, findings and theorems, and maps each
definition to the lines it models.

## 1. The system

sygaldreye is a live instrument: a graph of nodes is a document, the document is realized as a
running plan, and edits, undo, peers and storage all act on it while it plays. The repository
holds three generations. `probe1` is the first working application (Quest, desktop, web);
`probe2` the second, organised by a conformance suite and an architecture in numbered chapters;
`src/src` a rewrite of the foundations in progress. The core logic with state is in `probe2`.

| part | state it keeps | operations | talks to |
|---|---|---|---|
| inlet queue `P2/executor/mpsc.hpp` | a lock-free list | `push` (any thread), `drain` (one thread) | every plan's op inlet and event queue |
| executor `P2/executor/exec_plan.cpp` | document, op log and undo cursor, param journal, realized instances with kernel state, muted segments | `submit`, `undo`, `undo_gesture`, `pump_block`, `post_event` | inlet; sessions call it; arbiter nodes submit to it from inside a block |
| regions, lift, codegen, engine passes | none (functions of a document) | region inference, SCC order, expansion, emission | executor and store |
| store `P2/store/store.cpp` | objects, provided set, memo, back-links, ref trails | put, commit (derivation or capture), bind, undo, evict, unprovide, `fetch` between stores | store, mesh and compile sessions |
| formats | none | cid, dag-cbor, chunking, addresses | store, mesh, naming |
| crown `P2/crown/` | op inlet, instances, order, tape | `submit`, `tick`, replay | the boot graph |
| mesh `P2/mesh/`, `P2/syg/mesh_session.cpp` | identity keys, accepted peers, advertised lists, stores, op logs, one serving thread per peer | pair, revoke, handshake, fetch, place, query, ops | other peers over sockets |
| naming, organs | environments, parsed documents | resolve, query, expand, swap a slot | everything |
| sessions `P2/syg/` | scripts' local state | one per conformance rung | all of the above |
| probe1 peer core, audio region, worker | active and pending graph, value snapshots, latches, rings, event counts, job queue | frame tick, block callback, http and websocket handlers | each other across threads |
| stage 0 `src/src/*.hpp` | type descriptors, an environment of operators | reflect, register, build, wire, tick | itself |

What is hard, and what would make each part correct:

* **Inlet.** Several producers and a consumer share one pointer without a lock, and the
  allocator gives addresses back. Correct: nothing is lost, duplicated or reordered, and no
  node is touched after it is freed.
* **Executor.** Ops of any thread meet undo's inverses (one push each) in one queue; a batch
  holds ops that fail; a rebuild moves kernel states from an old plan to a new one while the
  document, the log and the journal all describe the same graph. Correct: the plan is the
  document's between blocks; ops apply in arrival order and a loser takes nothing with it;
  undo leads back; state comes home; a param shows what the document says.
* **Store.** Caches evict without coordination, transfers break off, objects are forgotten while
  copies travel. Correct: what is provided is held, archives provide, lineage is complete and
  not repeated, retries move only what is missing, ref history grows. (That forgetting converges,
  as the architecture has it, is not so: section 6.)
* **Executor, playing.** Dirty bits, waiting events, mutes and a severed sink outlive the block
  that set them, under writes, bangs and rebuilds at its boundaries. Correct: a node that is not
  dirty shows what it would compute; a scene that stops changing comes to rest; a mute is earned.
* **Mesh.** Membership changes while channels are open; the client may leave at any point of an
  exchange. Correct: only peers that accept each other are served; what a peer acknowledged it
  did; an object goes only to whom its store is shared with; an outage loses no event.
* **Crown.** A failing op in the middle of a tick's batch. Correct: each op applies at most once.
* **probe1.** Two clocks (frames, audio blocks), http and websocket threads, links that break.
  Correct: edits compose; samples cross the boundary whole, and events, as long as the graph stays;
  a block never plays a freed graph; an answer is not older than its question; a remote node never
  falls back to an older value; clones keep their state through edits and reordered arrays.

Every hazard found while reading is in `PROJECT.json` under "hazards", at its line, with the
properties that cover it or the reason why none does yet.

## 2. Modules

| module | models |
|---|---|
| `Channel` | the promise of the inlet: an abstract FIFO whose consumer takes all that waits |
| `Mpsc` | `P2/executor/mpsc.hpp`, one action per atomic operation, with the allocator |
| `ExecPlan`, `MCExecPlan` | `exec_plan.cpp`: submit, undo, the edit half of `pump_block`, rebuild |
| `Schedule` | `regions.cpp`, `scc_order` and the wiring of `build_impl`, as operators on documents |
| `Pump`, `MCPump` | `exec_plan.cpp`: the playing half of `pump_block`, over the plans of `Schedule` |
| `Store`, `MCStore` | `store.cpp` and the session ops that change stores |
| `Mesh`, `MCMesh` | `mesh_session.cpp` and `mesh/link.cpp` |
| `PeerCore` | probe1's `peer_core*.cpp` with the editor's and the undo node: render thread and http thread |
| `AudioRegion` | probe1's `audio_region.cpp`: render thread and device callback |
| `TickPlan`, `MCTickPlan` | probe1's `signal_graph_plan.cpp`, `_tick.cpp`, `_migrate.cpp` |
| `RemoteLink` | probe1's `remote_node.cpp`, `ws_link.cpp` and the provider's half in `peer_core_bridge.cpp` |
| `MpscProofs`, `ExecPlanProofs`, `PumpProofs`, `StoreProofs`, `MeshProofs`, `PeerCoreProofs`, `RemoteLinkProofs` | proofs about the module they are named for |
| `SignalGraphProofs` | proofs about `TickPlan` and `AudioRegion` |

How they meet. `ExecPlan` takes the inlet as the atomic queue that `Mpsc` is shown to implement;
`Pump` extends `Schedule` and takes an op as its effect on the running plan. `Mesh` keeps of a
store what a fetch asks of it, and `Store` has the rest. `RemoteLink` keeps of a provider when a
spawned node enters the graph, and `PeerCore` has its frames and queues; `TickPlan` is what one of
those frames computes, and `AudioRegion` what crosses from it to the audio clock.

### Mpsc

`head` is `head_`, `val` and `nxt` the heap, `free` what the allocator may hand out. A push is
`Alloc`, `LoadHead`, then `CasSucceeds` or any number of `CasFails` (spurious ones included); a
drain is `Detach` (the exchange with null), `Walk` (append, free, next) and `Finish` (reverse
what was appended). The comparison is of addresses and freed addresses are reused at once, so
the case of an equal address that names another node is in the model. Memory orders are not:
the actions interleave sequentially, which the release/acquire pair on the one atomic variable
gives for this algorithm.
`order`, `chain` and `taken` are auxiliary and no guard reads them.

### ExecPlan

The inlet is the atomic queue that `Mpsc` implements. `Submit` may come at any time; `Undo`
queues the inverses of one logged op, `PushInverse` pushes them one by one, `UndoMore` goes on
while a gesture's ops are param edits. A block is `Drain`, one `Apply` per op of the batch (the
whole of `apply_structural` or of a param branch, log, inverse and cursor included), `Rebuild`
if the batch changed structure, and `Process`. `RebuildThrows` and `ParseThrows` are the two
ways the block ends in an exception, after which `pc` is "thrown": no caller in the repository
goes on using the plan. Undo runs on the pumping thread, as every session does.

Data is reduced to what these steps distinguish. A route is its node (one param, one inlet, one
outlet); values are model values with the two conversions that matter (`Printed` is
`std::to_string`'s six decimals; `Malformed` is an array literal that does not parse). A kernel
state is whether it has run, whether its pointer still owns it and the param value it holds.
Lists are filtered by `Those`, a recursive function that proofs can unfold, and all ops there can
be are those of `OpsOver`.
`Realizable` gathers the reasons `build_impl` throws; lift and expansion are the identity
because every type is linked. Region membership (`BlockRegion`) decides in which of the two
searches a donor of state is looked for.

### Store

A cid is the object it names: equal bytes are one object and a verified transfer is a copy. A
recipe determines its output ("determinism": "exact"), which restricts memo entries to "recorded
or not". The session is one thread, so an op is one action: `Put` (single object or chunked
blob), `CommitGraph`, `CommitDerivation`, `Compile`, `Capture`, `BindRef`, `UndoRef`,
`UnprovideEverywhere`, `Evict`, `Fetch`. `Fetch` moves the root, then chunks in order, until the
budget is used up (the interruption) or the source misses a chunk (the swallowed exception).
`AlsoWanted` is `move_one`'s first line: what is already here does not move, nor what arrived a
moment ago because a blob repeats a chunk. `Fetch` never asks whether the source provides what it
holds. A take is one object, whatever its size, as `put_raw` makes it. `answer` and `forgotten` are auxiliary. A graph is one object here; the four
that `commit_graph` writes are put together.

### Schedule and Pump

`Schedule` is pure: a document is a sequence of node ids and one of edges, a port its discipline.
`BlockOf` is `infer_regions`, `Boundary` and `Carrier` choose what carries an edge (or that
`build_impl` throws), `FrameOrder` the frame nodes' order with its give-up pass, `Segments` the
strongly connected components in the two-stage Kahn order. `Wiring` and the two lists of nodes are
the document's own, filtered by `Those`. The passes are recursive functions, in document order as
in the code. Tarjan's recursion is a record with the stack of its calls (`calls`), and `Search` is
one turn of it: `Call` a node, `Lower` its link, or `Return`; `Components` takes as many turns as
nodes and edges can ask for. The code's stack of nodes is a set, since their numbers order it.

`Pump` is one block, phase by phase: `Drained` (the inlet; a rebuild resets ladder, cells and
mutes), `Bang`, the emitters (`BeginEmit`, `EmitOne`, `PassEnds`, bounded by `MaxPasses`), the frame
tick (`TickOne` per node, `FrameEnds`), `Latched` and `PlayBlock` per segment, `BlockEnds` with
the overrun ladder and the NaN guard. `SetParam` and `Rebuild` are what submitted ops do to the
plan at the boundary. Kernels are those of the starter vocabulary reduced to what they do to a
value, a count and a dirty bit; a sample is 0, 1 or NaN (written -1), a count that reaches the block
side is as good as 1 (`Level`), a block is one sample. `verdicts` and `due` are history. `PumpAssumption` excludes an event edge from a node to itself, on which the code's
inner loop never ends (`exec_plan.cpp:691`).

### Mesh

Each peer has a listener with a backlog and one serving thread (`srv`); the main thread is the
script and the client of every request. A connection is two streams of frames. `Accept`,
`RespondHello`, `RespondHeader`, one `Serve...` per request kind, `Hangup` and `Abort` are the
server; `StartRequest`, `Dial`, `InitiateHello`, `InitiateHeader`, `TakeReply`, `Fail`, `Probe`,
`Stop` and `Join` the main thread. Pairing, revocation, advertising and sharing stores are the
script's local ops and change tables the serving threads read. A reply too large for a frame, and
one that cannot be encoded, throw out of the serving thread. `DeliveryLog` is the whole outage
exercise (`net-pair`) as one operator, its loop a function of the block. `Conn`, `Gaining` and `Requesting` name what a new connection,
a put and a new request are. `acked` is history: what the main thread was told.

### PeerCore

The render thread goes `BeginFrame` (swap of the pending graph), `ApplyParams`, `ApplyRemoteSets`,
the gesture nodes, the undo node, `Publish` of the snapshot, `PushRemoteOuts`, `DrainEdits`,
`Compose`, `Install`, `FulfilScreenshot`; the http thread handles one request at a time:
`PostGraph`, `PostParam`, `PostPlugin`, `Spawn`, `Despawn`, `SetInput`, `Probe`, `RequestShot`,
with `TimesOut` for the waits that give up. A handler is split wherever it takes a lock anew, which
is where the other thread gets in. A graph is the param of each id or its absence.

### AudioRegion

The render thread (`frame`) swaps, drains the ring, receives events, ticks, raises, latches,
captures and collects an edit; the callback (`audio`) takes the plan by `try_lock`, applies the latch,
receives one event, pushes its samples and raises. The ring's two counters are loaded and stored in
separate steps, and so are a queue's: the load of the count decides (`LoadIntoFrame`,
`LoadIntoBlock`), the subtraction or the fall comes later, and the other thread may add in between.

An edit goes through the document: `CollectEdits` writes it down with the params the nodes have at
that moment, the block consumer's among them, and the next frame's `Swap` migrates the nodes
(`Migrate`), which keep their storage and get those params back. What the latch applied in between is
undone by that. A trigger is no param and stays as it is. All crossings are fresh after a swap, and
what waited in a queue is lost: `Lost` is what was raised and neither waits nor was applied.
`applied` and `peak`, the newest control value a block has had, are history.

### TickPlan

`build_plan` as operators: the depth-first marking of back edges, regions, the lift edge of each
host, the mechanism of each edge, the topological order with its fallback. The search keeps its
stack as the code does (`Search` is one turn of its loop); `Emit` takes one node off the queue of
`topo_sort`, with the nodes it frees (`Freed`). `TickBegins`, `TickNode`, `TickLifted` (clones by
row key, in row order), `TickEnds` (delays capture) are `tick_graph`; `Edit` is the swap of graphs
with `migrate`. A value is reduced to its age. What an applier or a delay brings has to find a setter
for its kind and port (`Settable`), and a lifted host gets nothing but its array. `fed` is history:
per key of a clone, the rows of that key since the array last went without it.
`TickPlanAssumption` leaves out two things. An edge that names no node is skipped wherever the code
reads edges. Of two nodes of one id, edges find only the last. It also says that no row's key is
the index of a row: what `row_key` prints from a row ends in a comma.

### RemoteLink

`Create`, `SetIn`, `Process`, `Destroy` are the proxy; `Attempt`, `Flush` its link's thread; `Open`,
`Fail`, `Break`, `Receive` the network; `HandleWs`, `SendOuts` the provider's http thread;
`FrameBegins`, `FrameEnds` its render thread. Each connection attempt keeps its own messages, so
that what is left of a broken one can be told from what a later one brings. The node copies its
input to its output, and inputs rise, so that order can be read off the values.

## 3. Runs

| run | bounds | shows |
|---|---|---|
| `mpsc` | 2 producers, 2 pushes each, 4 addresses | memory safety, refinement of `Channel`, delivery of everything |
| `plan_edit` | 2 ids, 4 types (one unlinked), 3 ops, 2 undos | plan = document, arrival order, undo restores structure and never loses, state survives rebuilds |
| `plan_param` | 3 routes (number, text, array), 3 ops, 1 undo | live params follow the document; every op lands |
| `pump` | 7 documents pumped, 2048 block graphs scheduled; a frame is 2 blocks, 3 passes, counts to 2, 2 edits | a clean node is fresh, only a cone is dirty and a frame settles it, a scene comes to rest, chains empty, mutes are earned, the schedule is sound |
| `store` | an archive and two caches, 5 blobs (one of two chunks), 3 counted ops, fetches among them; eviction and forgetting are not counted | the safety properties of stores |
| `mesh` | 3 peers, scripts of 3 ops, 2 open connections | reports, admission, sharing, outages, progress of the script |
| `peer_core` | 2 editor ids, 1 remote id, 2 values, 3 frames, 2 editor ops, 2 requests | bursts compose, answers are fresh, the undo target, the end of mirroring |
| `audio_region` | ring of 2, blocks of 2, 4 samples, 2 events, 1 control change, 1 swap | ring integrity, conservation of events between swaps and the fall of what they raise, no freed graph, the latch in order |
| `tick_plan` | 4 graphs that tick and are edited into one another, 4 x 512 digraphs planned; clone ticks to 3 | back edges are those that close a cycle and suffice, the order follows the rest, delayed edges, clones |
| `remote` | inputs to 3, 3 connection attempts, 2 mirrored values on their way | requests come about; nothing falls back |
| `params_die`, `spawn_lost` | as their cfgs say | a comment disagrees with the code (section 6) |

Why the bounds are enough. In `mpsc`, two producers with two pushes each and four addresses give
every overlap of two pushes with a drain, with an address freed and reused while a stale head is
held (two addresses would do for that). `plan_edit` needs an op before, inside and after an
undo: three submissions and two undos give undo of undo's neighbour, edits after undo and
duplicates of an id (two `add_node`s), with ids enough for an edge. The type "gone" makes
rebuilds fail, "fft" makes two nodes of different regions, and the refused pair of types an
illegal connection. `plan_param` has one route of each kind because each has its own branch, a
number that `std::to_string` rounds to zero, and removal and re-addition of the node. In
`store`, three counted ops are what "captured here, fetched by the archive, fetched by a cache
from the archive" takes, and eviction and forgetting may happen between any two of them.
In `pump`, three passes are what the longest acyclic chain takes when it is written backwards, and
the chain that bites its tail is cut off by them; three late blocks (the mute) and a fourth follow one another without
using up edits; two edits are a cause and one that lands before it has settled; two blocks per
frame leave a block without a frame tick. All digraphs on three nodes hold every way two segments
can be tied, a self-loop and a three-cycle included; they are scheduled with none, one and three long
delays among the nodes, and with one next to a native that may not sit on an island. In `mesh`, three ops are a table change
between two requests, or an op before and after an outage; three peers are a server, its client
and one that is not accepted; two connections let one wait in the backlog while another is served.
In `peer_core`, three frames are one to be asked in, one to be answered by, and one for what
`collect_edits` installed; two requests are two spawns in one frame, or a probe behind one that
timed out. In `audio_region`, blocks as large as the ring fill it and four samples wrap it, with a
second block that finds it full; two events are two in a row, or one each way (the two queues share
nothing), and one is a level and its fall; one change of the control is enough for a swap to take it
back; a second swap finds fresh mappings and what the edit wrote down, as the first does. In
`tick_plan`, arrays of up to two rows with equal keys give reordering, shrinking and repetition, and
the graphs give one host keyed rows, then indices, then keyed rows again, or another descriptor; one
has a delay into a lifted host, one a delay that no setter takes, and neither delivers. In
`remote`, three attempts are one that breaks, one that meets what the first left on its way, and one
that holds, and three inputs one for each.
Deadlock is not checked where the bounds let the model stop.

Every property of a passing run has a mutant in `PROJECT.json`: a variant of one definition, kept
in the module next to the original (named for what is wrong with it), under which the run fails.

Fairness. `mpsc`: weak fairness of each producer's steps and of the consumer's. Producers are
operating-system threads; the consumer is the pump. No strong fairness is needed, since
producers push finitely often here; with producers that never stop, one whose exchange always
loses could starve. `plan_param`: weak fairness of the pump's steps (the host pumps block after
block) and of a call of undo in progress; nothing is assumed of submitters.
`pump`: weak fairness of the block's steps (`Pumping`): the device or the host loop keeps calling;
writes, bangs and rebuilds are not fair. `audio_region`: weak fairness of either thread, and strong
fairness of `BlockBegins` and of `PauseBlocks`. The callback's `try_lock` fails while a swap holds the
plan: it is called again and again and would otherwise be assumed to come only at those moments. A
swap blocks on the mutex that the callback holds for the length of a block and gives back for the
rest of the period, so that a lock which waits for it is granted in the end.
`mesh`: weak fairness of the main thread inside an op and of each serving thread; no op is ever
forced to start, and `~aborted` stops both when an exception ended the process. `remote`: weak
fairness of every thread's steps and of `Open` (an attempt that does not fail succeeds);
`Fail` and `Break` are not fair, and the last attempt holds, which is what "the network comes
back" means for a bounded number of them.

## 4. Proofs

`MpscProofs`, for any set of producers, addresses and any number of pushes:

* `Inductive`: `Spec => []IInv`. `ListIntact`, `NoUseAfterFree` and `Fifo` are not inductive
  alone. They need `Control` (a producer owns a node exactly while it pushes, its node carries
  its value; between drains the consumer carries nothing), because a successful exchange puts
  the producer's own node on the chain, and because `Finish` reverses exactly what this drain
  appended. `Tagged` and `ProducerOrder` add what per-producer order needs.
  The A-B-A case is harmless here because a push only needs the *address* in `head` to be what its
  node's `next` says; the proof of the successful exchange uses nothing else.
* `QueueIsFifo`, `ListIsSafe`, `EachProducerInOrder` follow.
* `QueueImplementsChannel`: under the mapping queue = published nodes oldest first, batch = what
  the consumer carries in the order it will hand it over, delivered = the vector up to where this
  drain began. A successful exchange is a `Send`, `Detach` a `Take`, `Finish` a `HandOver`,
  all else a stutter; `Walk` is a stutter because it moves a value from the chain's end of the
  batch to the vector's end of it. The lemmas on slices of `order` state this.

`Inductive`, `QueueIsFifo` and `EachProducerInOrder` state invariants that are not properties of the
run: `ImplementsChannel` says there what the last two say, and the proofs rest on the first.

`StoreProofs`, for any peers, archives, blobs and recipes and without the bound on ops playing a
role:

* `ProvidingIsAPromise` and `ArchivesProvide` are inductive once the variables are known to be
  functions on the peers (`Shaped`). All puts go through `StoredPuts`: a put promises nothing it
  does not store, and on an archive promises all it stores.
* `LineageIsIndexedOnce`: the count of a provenance under a link is one exactly if the memo knows
  the recipe. The memo is never evicted, and that is what makes it inductive.
* `HistoryOnlyGrows`: every step leaves each trail or appends to it.
* `FetchesMoveOnlyMissing`: the list of what a fetch wants holds no object that is here and none
  twice, whatever the blob repeats (`WantedMissing`), so that its first n are n objects
  (`FirstOnesCount`); and the fetch stops at some n (`FetchStops`), which the model's `CHOOSE` needs.

`ExecPlanProofs`, for any documents to start from, any types and vocabulary and any number of ops
and undos:

* `PlanAlwaysMatchesDoc`: the plan may be behind the document only in the loop with the structural
  flag up, or after an exception (`PlanInv`). Every edit of nodes or edges raises the flag, a
  scalar edit leaves nodes alone, and a rebuild catches up because migration and replay give
  states away, never instances.
* `StateAlwaysSurvives`: a node that is the only one of its id, before and after, has exactly one
  donor and nobody asked before it; the journal replayed after that writes params only. The
  uniqueness is needed: with two nodes of one id the second finds the donor's pointer moved and is left without a state
  (`exec_plan.cpp:592`).

* `LiveAlwaysFollowsDoc`: `LiveInv` says, also in the middle of a batch, that the first live instance
  of an id shows the scalar its document defines (`Shows`), that the journal never contradicts the
  document (`Journalled`) and that an id decides its region (`OneRegion`), with `PlanInv` and the types.
  Each op writes instance, journal and document alike or leaves the document less to say, and a
  rebuild finds the first old instance of an id as the donor for the first new one.
* `ArrivalsKeepOrder`: the submitted ops in log, batch and inlet, one after the other, rise in their
  numbers, and with the rejected ones are all the numbers so far, none in both (`Arrived` over
  `Places`). Every step moves a boundary of the three parts, drops an op or appends at the end.
* `UndoAlwaysRestores`, `UndoOpsNeverLose`, for a history without an edit after an undo (`clean`):
  every logged inverse is a path back from the structure after its op to the one before (`Chained`),
  and after an undo what is under way, batch, inlet and what is still being pushed, is a path
  to the structure that the undone op found (`Leads`). No op of a path meets a failed
  precondition, which is the second theorem.
* `PlanTypes`: the types of everything, logged inverses and journal included.

`PumpProofs`, for any documents, vocabulary, clocks and bounds:

* `CleanNodesAreFresh` (`CleanIsFresh`): inductive with the types and with "the plan is that of the
  document" (`FreshInv`). Of the plan it needs only `Cut`: wires join nodes, each node is on one
  side, no param wire ends on the frame side. The order of nodes and segments plays no part here: an
  order can make a node stay dirty, never stay clean wrongly. Freshness depends on the node's param,
  its state, and the cell of the source it hears (`SameFresh`); every action that changes one of them
  marks the node, and a tick marks the consumers before it wipes its own mark.
* `MutesAlwaysEarned` (`MutedIsEarned`): `Ladder` ties the overrun count to the verdicts that end the
  history; a count of two is two late blocks in a row since the last mute.
* `FramesAlwaysSettle` (`FrameSettles`): what `FrameOrder` takes in its scans it puts behind all its
  sources, and the scans take every node that is neither on nor behind a value cycle. The invariant is
  `SettleInv`: `FreshInv`; what a dirty node reaches is in the cone of what was written (`Cone`, by
  `Down` being closed); and of those nodes none that had its turn in this frame is dirty (`Swept`).
* `ChainsAlwaysSettle` (`ChainSettles`): in pass n an event waits only where the n-th hop along event
  wires leads, or, ahead of the loop, the one before (`WaitsInChain`). Hops only shrink (`HopsShrink`),
  and where the last one is empty nothing waits after the passes (`ChainInv`).
* `SchedulesAreSound` (`ScheduleIsSound`), in three parts. Tarjan's search: `Searching` is an
  invariant of its turns. The calls under way are on the stack in the order of their numbers
  (`Called`); what has been looked at leads neither to a new node nor on from a closed component to
  one closed later (`Seen`); a link is the number of a node on the stack that its own node reaches, a
  lower one once the call is over, and a call reaches all that was stacked since (`Linked`); the nodes
  of a closed component reach each other (`Parted`). Every turn spends something (`Weight`), so that
  the turns suffice and every node is closed, sinks first (`ComponentsEnd`). Kahn's drawing: of the
  components not yet drawn the one closed last awaits no uncut edge, so there is always one to draw
  (`DrawOne`: the code never throws that the schedule is stuck), and one that is drawn in spite of an
  edge is drawn when all that is left awaits something, which makes a loop (`SomeLoop`). The types: states range by kind of native (`Ranges`), the frame
  clock is behind at a frame tick and not ahead at a block (`InBounds`), and a mute names a segment.

`MeshProofs`, for any peers, scripts, stores and number of connections. The invariant (`IInv`) follows
the one connection that carries a request through its stages: dialled, in a backlog, each half of the
handshake, the request on its way, served, answered, read or abandoned (`Stage`). Of every other
connection it says that nothing is in it that a peer would act on (`Quiet`), and that each open server
end has its place in one server or backlog, once (`Wired`). `Books` compares logs and audit logs
with what was acknowledged.

* `ReportsAlwaysTrue` is `Books` and the types (`Counted` has those of the bound's counters).
* `HandlesOnlyMutuallyAccepted` needs that no revocation comes while a request is under way, because
  one thread is the script and the client; the stage says where the acceptance was looked up.
* `OutageNeverLoses` (`OutageLosesNothing`): whenever the link goes and comes back, if it does, and
  however many events there are, the log that crosses is reliable (`LogAlwaysReliable`). After k blocks
  the queue is the run of numbers from the last one delivered to the last one posted, and an event
  waits exactly while no block since its own had the link up (`After`, kept by `PostingKeeps`). That
  the loop has a run at all (`LoopRuns`) and that `After` holds along it are least-number arguments.
* `FetchesOnlyShared`: stores and shares do not change between the server's look and the client's put.

`PeerCoreProofs`, for any ids, values, frames, ops and requests, on top of `Typed` (`Shape` of what
waits in the queues, `Clock`: no frame written down anywhere is later than the current one):

* `TypesHold`; `DespawnStopsMirroring`: once gone, hosted nowhere, and last sent no later.
* `AnswersStayFresh`: what is published, and what a waiting request will be given, are at least as new
  as the request (`Answers`).
* `UndoAimsAtLastStructure` (`Watching`): what the undo node holds as current has the structure of the
  live graph, or, early in a frame, of the one that this frame's swap replaced.
* `BurstsAlwaysCompose` (`Composing`): the graph that the next op composes on, taken through the ops on
  their way, has the nodes of the editor's document. Per id the last op about it decides.

`SignalGraphProofs`, of `TickPlan` for any graphs, descriptors and rows:

* `PlansStaySound` (`PlanIsSound`) is about three algorithms.
  - The marking of back edges. `Searching` holds after every turn: the stack is a path (`ChainOf`),
    what has left it is looked through and leads only to what has left it before (`Looked`), every
    marked edge has a path from its end to its start (`Closes`), and the edges looked at and not marked
    close no cycle (`NoCycle`). That all is searched when the turns are over is a count: twice the new
    nodes, the stack and the edges left, added up, shrink by one in each turn.
  - `topo_sort`. `Sorting` says of the nodes emitted and queued that they are distinct and are those
    that wait for nothing but one another; one that still waits at the end waits for one that does.
    Without a cycle somebody is first (`SomeoneIsFirst`), hence nobody is left
    (`TopoSortRunsForward`).
  - Regions thin the order out, which keeps it (`ThinnedKeepsOrder`).
* `DelaysAreOneTickLate` (`OneTickLate`): a delay holds the age its producer had at the end of the last
  tick (`Lateness`), and its producer is in the order that its consumer is in (`DelaysStayInside`), so
  that it has ticked in every tick.
* `ClonesAlwaysKeepState` (`ClonesKeepState`): clones and counts have the same keys and the same
  numbers (`Conformed`); a clone under a row's key has been served that row only, because an index
  never names it.
* `TickTypesOK`: the types of everything, which need that an order lists nodes and that a lift edge is
  an edge (`Current`: the plan is that of the graph).

and of `AudioRegion` for any ring capacity, block size and numbers of samples, events, values and swaps:

* `NeverPlaysAFreedGraph` (`Exclusive`): a swap and a block hold the plan at different times.
* `EventsAlwaysConserved` (`EventsConserved`): every step keeps, per direction, what is lost, but a
  swap, which adds to it what waits. It needs `Counted`: a side that has decided to take finds at
  least one, since the other side only adds; and a swap never comes while a block has decided
  (`Exclusive`), the frame's own decision being over when it swaps.
* `LatchStaysInOrder` (`LatchInOrder`): whatever any block has had is no newer than the control
  (`Latched`), a latch that is set was captured from the control, and after a swap no block applies
  anything until a capture, which is then at least as new.
* `RingStaysIntact` (`Ordered`, `Stored`, `Intact`): what was accepted is what was taken and the
  window of the ring between the counters, while either side works on a stale copy of the other's. It
  needs `Exclusive`, since a swap resets the ring.

`RemoteLinkProofs`, for any inputs, attempts and mirrored values on their way:

* `ValuesGoInOrder` (`NeverBackwards`): `There` and `Back` order the values on the way to the node and
  back. They meet in the node, which starts from its default when it is created; a proxy asks for it
  once, before anything else (`SpawnFirst`), so the way back is then empty (`Unborn`).

Where a proof would go by induction over a list or a number, it takes the least number at which the
claim fails (`LeastNatural`, from the library's theorem on well-founded relations): that is how the
lemmas on `Those`, on `Wanted`, on `Blocks`, on `FrameOrder`, on the turns of `Components`, on `Kahn`
and on the rounds of `BackEdges` and `TopoSort` are proved. That one node reaches another is said without paths: it is in every set that
the edges lead to and never leave (`Leads` in the property).

Assumptions are those the modules name: `NullAssumption`, `PerProducerAssumption` (`Mpsc`);
`ValueAssumption`, `DocAssumption`, `BoundAssumption` (`ExecPlan`: a param is a number, a text or an
array, initial documents are documents, bounds are naturals); `PumpAssumption` (documents are lists of
nodes and of edges between them, those played can be realized and have no event edge from a node to
itself, clocks and bounds are positive); `TickPlanAssumption` (above, with the types of graphs and
rows); `PeerAssumption`, `BlobAssumption`, `OpsAssumption` (`Store`);
`MeshAssumption`, `ScriptAssumption` (`Mesh`: sessions and scripts are well-formed); `PeerBounds`,
`PeerNames`, `NoGraphAssumption` (`PeerCore`: a local id is never a remote one); `RingAssumption`,
`RegionBounds` (`AudioRegion`); `LinkBounds` (`RemoteLink`). TLC evaluates them in the runs.

Only model-checked is what is out of the prover's reach, liveness under fairness: `AllDelivered`,
`EveryOpLands`, `Quiesces`, `EventsGetAcross`, `ScriptMovesOn`, `OpsLand`.
Every invariant and every action property that a passing run checks is also a theorem.

## 5. Plan

Done: the inlet, the executor (edits, schedule, pump), the store, the mesh session, and of probe1
the peer core, the audio boundary, the tick plan and the remote link, and proofs of every safety
property. No module has a `RECURSIVE` operator, so all of them can be proved about. What could be
added: several samples per block, with the sample-interleaved islands; two plans that share an
arbiter; queries over a store whose commit epoch does not advance; the context that probe1 pumps to
its editor nodes.

## 6. Where documents and code disagree

Two are runs that TLC must find violated; the counterexamples are a few steps long.

* `params_die`: removing a node leaves its entry in the journal, which every rebuild replays
  (`exec_plan.cpp:554` says the params die with the node).
* `spawn_lost`: each spawn queues the active graph plus one node, so of two spawns between two
  frames the later replaces the earlier, whose node stays hosted and is in no graph
  (`peer_core_bridge.cpp:164`; its header comment, `:3-4`, has nodes spawned into the live graph).

The others were met while modelling and are in the models without a run of their own; where one
bears on a property, the property is stated so as to hold in spite of it.

* The first edit of a param the document had no default for is undone to an explicit 0
  (`exec_plan.cpp:645`), where `conformance/tests/rung11.py:43` promises the defaults exactly.
* An edit after undo puts the cursor behind the undone entry, which a later undo reverts again
  (`exec_plan.cpp:576`), where ADR-018 (`adr.md:83`) has edits branch.
* `add_node` accepts an id that exists; the second instance finds the donor's pointer already moved
  and runs with none (`exec_plan.cpp:592`), where the comment at `:588` has the old state come home.
* The memo outlives the evicted output and answers with its cid (`store.cpp:75`); nothing derives
  it again, where `architecture/03-store.md:32` says "derived data re-derives".
* A snapshot that changes does not mark its consumers dirty (`exec_plan.cpp:749`, `:863`), where
  `architecture/04-execution.md:27-28` says "lazy but never stale"; `CleanIsFresh` leaves those nodes out.
* `fetch` takes a copy from whoever holds one (`store.cpp:147`), so that a cache that has shed a
  forgotten object gets it back from one that has not yet, and so on for as long as they ask;
  `architecture/03-store.md:91-92` has it unfetchable once all have dropped it and caches cycle.
* `rebuild_unlocked` clears the event queues at every swap (`audio_region.cpp:48`), with what waits in
  them, where `audio_region.hpp:77-78` says "counted, never dropped" and
  `sygaldry_endpoints.hpp:208-209` "never dropped, never doubled". In the model `Lost` goes up;
  `EventsConserved` claims every event as long as the graph stays.
* A queue that has raised a trigger is cleared before it lowers it, and the migrated node keeps the
  trigger high until another event has come and gone, where `sygaldry_endpoints.hpp:208` says "fired
  for exactly one tick". `perc` reads its trigger in every block (`ugens.hpp:100`); some frame nodes
  clear their own (`tts_node.cpp:12`). `EventsGetAcross` claims the fall as long as the graph stays.
* Of two events in a row the second is applied while the level of the first is up, and only then it
  falls: a consumer that waits for a rise sees one (`audio_region.cpp:173-179`).
* The latch applies its value through the setter that writes the port's fallback or offset
  (`eyeballs_node_abi.hpp:293-299`), which is what `to_json` persists, although its comment says
  "NEVER live edge values" (`param_registry.hpp:61-62`). The next swap puts that back over newer
  values (`signal_graph_migrate.cpp:24-30`) until the first capture; `LatchInOrder` excepts the swap.
* When a cycle of components is broken, `scc_order` takes the first that nothing hard precedes, on
  the cycle or merely behind it (`regions.cpp:185-190`), so that a feeder may come after its delay
  although no cycle forces it, against `regions.hpp:32-34`; `ScheduleIsSound` claims
  the order where the segments form no such loop.
* A clone is found by host, port and row key alone and keeps its old descriptor
  (`signal_graph_tick.cpp:248`), where `signal_graph_migrate.cpp:8-10` has entries of a changed
  descriptor or a removed host reconciled on the next lift tick.
* A node is mirrored to the connection that spawned it (`peer_core_bridge.cpp:160`), also after that
  one broke and another took its place, where `remote_node.hpp:16` says "every provider frame";
  `OpsLand` counts such a mirror as taken away by the break.
* The params a proxy is created with (`remote_node.cpp:198-200`) reach the provider before its graph
  has the node and are dropped there.
* Query results are memoized per commit epoch, which compile and fetch do not advance
  (`P2/syg/store_session.cpp:240`, `:334`), and `fetch` swallows the miss of a chunk
  (`P2/store/store.cpp:174`).

## 7. Not modelled

The map covers about three thousand lines, the files with the program's own protocols and state.
What stays outside is most of the tree by size:

* vendored and generated code (image decoder, font data, audio and http libraries), rendering,
  user interface and platform code: input and output;
* signal processing, encodings, cryptography, lift and code generation: pure functions over data
  too large for a checker, pinned by golden tests; `Mesh` takes cryptography as perfect;
* the sessions other than the store's and the mesh's: scripts over the modelled calls, from one
  thread;
* the crown with its tape and the slots: a tick over a vector on one thread, where an op that
  throws ends the process; probe1's worker: a queue under one mutex, drained before it stops;
* stage 0: mostly compile-time reflection, not yet called by a program.

Inside the modelled parts: weak memory (the actions of `Mpsc` and `AudioRegion` interleave
sequentially); two plans at once, by way of an arbiter inlet, structured values and spans as data,
and several samples per block (`ExecPlan`, `Pump`); queries and standing queries (`Store`);
subscriptions, contracts and the read-only ops of the script (`Mesh`); context pumping to editor
nodes and the read-only routes (`PeerCore`); the scalar snapshot crossing, `pump_offline`, the device,
graphs that are posted whole, params that a client sets on the latch's consumer, and nodes that clear
their own trigger (`AudioRegion`); subgraph nodes and the JSON text (`TickPlan`); attempts that overlap
because the link dials again before the last one is settled, and type discovery (`RemoteLink`).
