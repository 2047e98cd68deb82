--------------------------------- MODULE Pump ---------------------------------
(***************************************************************************)
(* exec_plan::pump_block: one block of probe2's executor, from the op inlet *)
(* to the samples it hands back (exec_plan.cpp 620-865, with the plan's     *)
(* state at 40-113).                                                        *)
(*                                                                          *)
(* Everything happens on one thread; what makes it hard is what survives    *)
(* from one block to the next: dirty bits, waiting emissions, the overrun   *)
(* count, mutes and severed sinks, under writes, bangs and rebuilds that    *)
(* land at the boundaries.  The op log is ExecPlan's subject; here an op is *)
(* its effect on the plan.  A block is one sample, so the one-sample delay  *)
(* of an island's backward edge is a buffer not yet written this block.     *)
(***************************************************************************)
EXTENDS Schedule, Integers

CONSTANTS
  Docs,        \* the documents a plan may be built from
  Played,      \* those that are pumped; the others are only scheduled
  BlockTicks,  \* block_dt and the frame's dt, in a common unit of time
  FrameTicks,
  MaxPasses,   \* the emitters' pass bound (64 in the code)
  MaxCount,    \* bound: counts and waiting bangs saturate
  MaxEdits     \* bound: writes, bangs and rebuilds in a run

ASSUME PumpAssumption ==
  /\ Played \subseteq Docs
  /\ \A d \in Docs : d.nodes \in Seq(Id) /\ d.edges \in Seq(Edge)
  \* An edge has its disciplines from the ports of two nodes of the document: one
  \* that dangles throws, or wires nothing if it is its destination that is missing.
  /\ \A d \in Docs : \A e \in Members(d.edges) : {e.src, e.dst} \subseteq Members(d.nodes)
  /\ \A d \in Played : Realizable(d, Built(d))
  /\ \A d \in Played : \A e \in Members(d.edges) : e.from = "event" => e.src # e.dst
  /\ BlockTicks \in Nat \ {0} /\ FrameTicks \in Nat \ {0} /\ BlockTicks <= FrameTicks
  /\ MaxPasses \in Nat \ {0} /\ MaxCount \in Nat \ {0} /\ MaxEdits \in Nat

NaN == -1                      \* a sample is 0, 1 or NaN
Sample == {0, 1, NaN}
Number == 0..MaxCount \cup Sample

VARIABLES
  doc,        \* the document the plan was built from
  plan,       \* what build_impl made of it
  pc,         \* the part of pump_block that is next
  at,         \* position in the loop that part is in
  pass,       \* pass_n, and whether the pass delivered anything
  delivered,
  param,      \* what was last written into each node's state
  kernel,     \* the rest of each node's state: a count, a phase, a line
  pend,       \* emissions waiting in a node's state
  out,        \* outs: the value cell of each frame node
  dirty,
  buf,        \* out_bufs: the sample of each block node
  cell,       \* the snapshot cell of each frame node that has one
  muted, severed, overruns,
  lag,        \* t - next_frame
  edits,
  verdicts,   \* history: late or not, for the last two blocks; << >> after a mute
  due         \* history: nodes downstream of a cause since their last recompute

states == <<param, kernel, pend>>
cells == <<out, dirty, buf, cell>>
ladder == <<muted, severed, overruns, verdicts>>
loop == <<at, pass, delivered>>
vars == <<doc, plan, pc, loop, states, cells, ladder, lag, edits, due>>

-----------------------------------------------------------------------------
(* The starter natives                                                     *)

AlwaysTicks == {"lfo", "head"}         \* clocked
ValueTicks == {"cell", "scale", "lfo", "counter", "head", "draw"}
Emitters == {"head", "draw"}           \* have semit
AppliesBangs == {"counter"}            \* have apply

Least(n, bound) == IF n < bound THEN n ELSE bound

FrameIds == Members(plan.frames)
BlockIds == Members(plan.blocks)
Wires(how) == plan.wiring[how]

\* What a frame node reads: a cell, a snapshot, or the default of its input.
Input(id) ==
  IF HasSource(Wires("snapshot"), id) THEN cell[id]
  ELSE IF HasSource(Wires("cell"), id) THEN out[Source(Wires("cell"), id)] ELSE 0
\* value_tick, the value it leaves in the node's cell ...
Value(id, k, input) ==
  CASE KindOf[id] = "cell" -> param[id]
    [] KindOf[id] = "scale" -> input
    [] KindOf[id] \in {"counter", "draw", "lfo"} -> k
    [] OTHER -> 0
\* ... and what it does to the node's state.
Ticked(id, k) == IF KindOf[id] = "lfo" THEN 1 - k ELSE k

\* A latch holds its source's cell for the block.
Held(id) == IF HasSource(Wires("latch"), id) THEN out[Source(Wires("latch"), id)] ELSE 0

\* A number as a level: a count is as good as 1.
Level(v) == IF v > 0 THEN 1 ELSE v

\* process: the sample a block node writes, from the buffers wired into it.
\* A bomb that has gone off stays off.
Mixed(S) == IF NaN \in S THEN NaN ELSE IF 1 \in S THEN 1 ELSE 0
Sound(id, bufs, k, p, gone) ==
  LET ins == {bufs[src] : src \in Sources(Wires("buffer"), id)}
  IN  CASE KindOf[id] \in {"osc", "smoother"} -> Level(p)
        [] KindOf[id] = "bomb" -> IF gone THEN NaN ELSE 1
        [] KindOf[id] = "delay" -> k
        [] KindOf[id] = "vca" -> IF NaN \in ins \cup {Held(id)} THEN NaN ELSE Mixed(ins) * Level(Held(id))
        [] OTHER -> Mixed(ins)
Kept(id, bufs, k, gone) ==
  LET ins == {bufs[src] : src \in Sources(Wires("buffer"), id)}
  IN  CASE KindOf[id] = "delay" -> Mixed(ins)
        [] KindOf[id] = "bomb" -> IF gone THEN 1 ELSE 0
        [] OTHER -> k

\* The sink: what the last dac of the document is wired to.
Dacs == Those(plan.blocks, {id \in BlockIds : KindOf[id] \in Sinks})
Sink ==
  IF severed \/ Dacs = << >> \/ ~HasSource(Wires("buffer"), Last(Dacs)) THEN 0
  ELSE buf[Source(Wires("buffer"), Last(Dacs))]

-----------------------------------------------------------------------------
(* Vocabulary of the properties                                            *)

\* Nodes reached from S along value wires, S included.
Down(S) ==
  LET grow(R) == R \cup UNION {Targets(Wires("cell"), id) : id \in R}
      reach[n \in 0..Len(plan.frames)] == IF n = 0 THEN S ELSE grow(reach[n - 1])
  IN  reach[Len(plan.frames)]
After(id) == Down(Targets(Wires("cell"), id))
OnCycle == {id \in FrameIds : id \in After(id)}
Cyclic == Down(OnCycle)

-----------------------------------------------------------------------------
Init ==
  /\ doc \in Docs
  /\ plan = Built(doc)
  /\ Realizable(doc, plan) = TRUE
  /\ pc = IF doc \in Played THEN "inlet" ELSE "idle"
  /\ at = 1 /\ pass = 0 /\ delivered = FALSE
  /\ param = [id \in Id |-> 0]
  /\ kernel = [id \in Id |-> 0]
  /\ pend = [id \in Id |-> 0]
  /\ out = [id \in Id |-> 0]
  /\ dirty = [id \in Id |-> TRUE]
  /\ buf = [id \in Id |-> 0]
  /\ cell = [id \in Id |-> 0]
  /\ muted = {} /\ severed = FALSE /\ overruns = 0
  /\ lag = 0
  /\ edits = 0 /\ verdicts = << >> /\ due = FrameIds

-----------------------------------------------------------------------------
(* 1. The boundary: ops, then posted events, then emitters                 *)

\* set_param: a frame node is stale from the write; a clocked node just reads
\* the new value.
SetParam(id, v) ==
  /\ pc = "inlet" /\ edits < MaxEdits
  /\ id \in Members(doc.nodes) /\ KindOf[id] \in {"cell", "osc"}
  /\ param' = [param EXCEPT ![id] = v]
  /\ dirty' = IF id \in FrameIds THEN [dirty EXCEPT ![id] = TRUE] ELSE dirty
  /\ due' = IF id \in FrameIds THEN due \cup Down({id}) ELSE due
  /\ edits' = edits + 1
  /\ UNCHANGED <<doc, plan, pc, loop, kernel, pend, out, buf, cell, ladder, lag>>

\* rebuild: a new plan over a new document.  State comes home to a node of the
\* same id on the same side; cells, buffers, mutes and the severed sink start
\* over; the clocks and the overrun count are the executor's and stay.
Rebuild(d) ==
  /\ pc = "inlet" /\ edits < MaxEdits
  /\ d \in Played \ {doc}
  /\ doc' = d /\ plan' = Built(d)
  /\ LET home == (FrameIds \cap Members(plan'.frames)) \cup (BlockIds \cap Members(plan'.blocks))
     IN  /\ kernel' = [id \in Id |-> IF id \in home THEN kernel[id] ELSE 0]
         /\ pend' = [id \in Id |-> IF id \in home THEN pend[id] ELSE 0]
  /\ out' = [id \in Id |-> 0]
  /\ dirty' = [id \in Id |-> TRUE]
  /\ buf' = [id \in Id |-> 0]
  /\ cell' = [id \in Id |-> 0]
  /\ muted' = {} /\ severed' = FALSE
  /\ due' = Members(plan'.frames)
  /\ edits' = edits + 1
  /\ pc' = "events"
  /\ UNCHANGED <<loop, param, overruns, verdicts, lag>>

Drained ==
  /\ pc = "inlet"
  /\ pc' = "events"
  /\ UNCHANGED <<doc, plan, loop, states, cells, ladder, lag, edits, due>>

\* A bang posted on a button reaches every consumer that has an applier.
Bang(id) ==
  LET cone == Targets(Wires("event"), id)
  IN  /\ pc = "events" /\ edits < MaxEdits
      /\ id \in FrameIds /\ KindOf[id] = "button"
      /\ kernel' = [x \in Id |-> IF x \in cone /\ KindOf[x] \in AppliesBangs
                                 THEN Least(kernel[x] + 1, MaxCount) ELSE kernel[x]]
      /\ dirty' = [x \in Id |-> dirty[x] \/ x \in cone]
      /\ due' = due \cup Down(cone)
      /\ edits' = edits + 1
      /\ UNCHANGED <<doc, plan, pc, loop, param, pend, out, buf, cell, ladder, lag>>

BeginEmit ==
  /\ pc = "events"
  /\ pc' = "emit" /\ at' = 1 /\ pass' = 1 /\ delivered' = FALSE
  /\ UNCHANGED <<doc, plan, states, cells, ladder, lag, edits, due>>

-----------------------------------------------------------------------------
(* 2. Emitters poll to quiescence                                          *)

\* All n emissions of a node reach every consumer it is wired to.
Emit(id, n) ==
  LET struck == Targets(Wires("event"), id)
      into(x) == IF x \in struck THEN n * Count(Wires("event"), id, x) ELSE 0
  IN  /\ pend' = [x \in Id |-> IF x = id THEN 0
                               ELSE IF KindOf[x] = "draw" THEN Least(pend[x] + into(x), MaxCount)
                               ELSE pend[x]]
      /\ kernel' = [x \in Id |-> IF KindOf[x] \in {"draw", "counter"}
                                 THEN Least(kernel[x] + into(x), MaxCount) ELSE kernel[x]]
      /\ dirty' = [x \in Id |-> dirty[x] \/ x \in struck]
      /\ delivered' = (delivered \/ struck # {})
      /\ due' = due \cup Down(struck)

\* The node at `at` emits all it has, if it emits and has any.
EmitOne ==
  /\ pc = "emit" /\ at \in DOMAIN plan.frames
  /\ LET id == plan.frames[at]
     IN  IF KindOf[id] \in Emitters /\ pend[id] > 0 THEN Emit(id, pend[id])
         ELSE UNCHANGED <<pend, kernel, dirty, delivered, due>>
  /\ at' = at + 1
  /\ UNCHANGED <<doc, plan, pc, pass, param, out, buf, cell, ladder, lag, edits>>

EmitOnlyOnce == FALSE
EmitAgain == delivered /\ pass < MaxPasses

\* The end of a pass: another, or the frame tick if it is due.
PassEnds ==
  /\ pc = "emit" /\ at \notin DOMAIN plan.frames
  /\ at' = 1
  /\ IF EmitAgain
     THEN /\ pass' = pass + 1 /\ delivered' = FALSE
          /\ UNCHANGED pc
     ELSE /\ pc' = IF lag >= 0 THEN "frame" ELSE "block"
          /\ pass' = 0 /\ delivered' = FALSE
  /\ UNCHANGED <<doc, plan, states, cells, ladder, lag, edits, due>>

-----------------------------------------------------------------------------
(* 3. The frame tick                                                       *)

\* Whom a node's tick dirties and whom it leaves clean.
WakesNone(id) == {}
Wakes(id) == Targets(Wires("cell"), id)
RestsNever(id) == {}
Rests(id) == {id}

\* A clean, unclocked node is skipped.  One that ticks dirties its consumers,
\* and only then is clean itself.
TickOne ==
  /\ pc = "frame" /\ at \in DOMAIN plan.order
  /\ LET id == plan.order[at]
         runs == KindOf[id] \in AlwaysTicks \/ dirty[id]
         k == Ticked(id, kernel[id])
     IN  IF runs /\ KindOf[id] \in ValueTicks
         THEN /\ kernel' = [kernel EXCEPT ![id] = k]
              /\ out' = [out EXCEPT ![id] = Value(id, k, Input(id))]
              /\ pend' = IF KindOf[id] = "head"
                         THEN [pend EXCEPT ![id] = Least(@ + 1, MaxCount)] ELSE pend
              /\ dirty' = [x \in Id |-> (dirty[x] \/ x \in Wakes(id)) /\ x \notin Rests(id)]
              /\ due' = (due \ {id}) \cup (IF KindOf[id] \in AlwaysTicks THEN After(id) ELSE {})
         ELSE /\ dirty' = [dirty EXCEPT ![id] = FALSE]
              /\ due' = IF runs THEN due \ {id} ELSE due
              /\ UNCHANGED <<kernel, out, pend>>
  /\ at' = at + 1
  /\ UNCHANGED <<doc, plan, pc, pass, delivered, param, buf, cell, ladder, lag, edits>>

FrameEnds ==
  /\ pc = "frame" /\ at \notin DOMAIN plan.order
  /\ pc' = "block" /\ at' = 1
  /\ lag' = lag - FrameTicks
  /\ UNCHANGED <<doc, plan, pass, delivered, states, cells, ladder, edits, due>>

-----------------------------------------------------------------------------
(* 4. Latches and segments                                                 *)

\* The samples and states the running segments leave, segment after segment,
\* node after node, each component in document order.
PlayOne(p, gone, b, id) ==
  [buf |-> [b.buf EXCEPT ![id] = Sound(id, b.buf, b.kernel[id], p[id], gone)],
   kernel |-> [b.kernel EXCEPT ![id] = Kept(id, b.buf, b.kernel[id], gone)]]
PlaySegment(p, gone, b, seg) ==
  LET nodes == Those(plan.blocks, seg)
      done[n \in 0..Len(nodes)] == IF n = 0 THEN b ELSE PlayOne(p, gone, done[n - 1], nodes[n])
  IN  done[Len(nodes)]
Played1(p, gone) ==
  LET running == Those(plan.segments, Members(plan.segments) \ {plan.segments[i] : i \in muted})
      done[n \in 0..Len(running)] ==
        IF n = 0 THEN [buf |-> buf, kernel |-> kernel] ELSE PlaySegment(p, gone, done[n - 1], running[n])
  IN  done[Len(running)]

\* Latches land before the block, never in it.
Latched ==
  [id \in Id |-> IF HasSource(Wires("param"), id) THEN out[Source(Wires("param"), id)]
                  ELSE param[id]]

PlayBlock ==
  /\ pc = "block"
  /\ param' = Latched
  /\ \E gone \in BOOLEAN :
       /\ \A id \in Id : KindOf[id] = "bomb" /\ kernel[id] = 1 => gone
       /\ \/ ~gone
          \/ \E id \in BlockIds : KindOf[id] = "bomb"
       /\ \E played \in {Played1(Latched, gone)} :
            /\ buf' = played.buf
            /\ kernel' = [id \in Id |-> IF id \in BlockIds THEN played.kernel[id]
                                        ELSE kernel[id]]
  /\ lag' = lag + BlockTicks
  /\ pc' = "ladder"
  /\ UNCHANGED <<doc, plan, loop, pend, out, dirty, cell, ladder, edits, due>>

-----------------------------------------------------------------------------
(* 5. The overrun ladder, the NaN guard, the snapshots                     *)

LastTwo(v) == IF Len(v) <= 2 THEN v ELSE Tail(v)

\* Costs are the machine's: any running segment may be the costliest, and if
\* none runs the first is named again.
Costliest ==
  IF DOMAIN plan.segments \ muted = {} THEN {1} ELSE DOMAIN plan.segments \ muted

\* consecutive_overruns_ after a block that was late or not.
OverrunsKept(late) == IF late THEN Least(overruns + 1, 3) ELSE overruns
Overruns(late) == IF late THEN Least(overruns + 1, 3) ELSE 0

Measured ==
  /\ pc = "ladder"
  /\ \E late \in BOOLEAN :
       IF Overruns(late) >= 3 /\ late /\ plan.segments # << >>
       THEN /\ \E i \in Costliest : muted' = muted \cup {i}
            /\ overruns' = 0 /\ verdicts' = << >>
       ELSE /\ overruns' = Overruns(late) /\ verdicts' = LastTwo(Append(verdicts, late))
            /\ UNCHANGED muted
  /\ pc' = "guard"
  /\ UNCHANGED <<doc, plan, loop, states, cells, severed, lag, edits, due>>

\* The guard severs the sink at its first NaN; then the block's last samples
\* are published to the frame side, whose nodes are not woken by them.
BlockEnds ==
  /\ pc = "guard"
  /\ severed' = (severed \/ Sink = NaN)
  /\ cell' = [id \in Id |-> IF HasSource(Wires("snapshot"), id)
                            THEN buf[Source(Wires("snapshot"), id)] ELSE cell[id]]
  /\ pc' = "inlet"
  /\ UNCHANGED <<doc, plan, loop, states, out, dirty, buf, muted, overruns, verdicts, lag, edits, due>>

Pumping == Drained \/ BeginEmit \/ EmitOne \/ PassEnds \/ TickOne \/ FrameEnds
           \/ PlayBlock \/ Measured \/ BlockEnds

Next ==
  \/ \E id \in Id, v \in {0, 1} : SetParam(id, v)
  \/ \E d \in Played : Rebuild(d)
  \/ \E id \in Id : Bang(id)
  \/ Pumping

Spec == Init /\ [][Next]_vars

\* The device callback or the host loop keeps calling pump_block.
FairSpec == Spec /\ WF_vars(Pumping)

-----------------------------------------------------------------------------
(* Properties                                                              *)

\* Type correctness; the frame clock stays within one period of the block's.
TypeOK ==
  /\ doc.nodes \in Seq(Id)
  /\ plan.order \in Seq(Id) /\ plan.segments \in Seq(SUBSET Id)
  /\ pc \in {"idle", "inlet", "events", "emit", "frame", "block", "ladder", "guard"}
  /\ at \in Nat /\ pass \in 0..MaxPasses /\ delivered \in BOOLEAN
  /\ param \in [Id -> Number] /\ kernel \in [Id -> Number] /\ pend \in [Id -> 0..MaxCount]
  /\ out \in [Id -> Number] /\ dirty \in [Id -> BOOLEAN]
  /\ buf \in [Id -> Sample] /\ cell \in [Id -> Sample]
  /\ muted \subseteq DOMAIN plan.segments /\ severed \in BOOLEAN /\ overruns \in 0..3
  /\ lag \in -FrameTicks..BlockTicks
  /\ edits \in 0..MaxEdits

\* "Lazy but never stale" (04-execution.md:27-28), for what does mark.  A clean
\* node shows what its inputs say: every write, bang and upstream tick
\* leaves its consumers dirty until they have caught up.  Not claimed of a node
\* wired to itself, whose own tick wipes the mark it made, nor of one fed by a
\* snapshot, which does not mark.
Fresh(id) == out[id] = Value(id, kernel[id], Input(id))
CleanIsFresh ==
  \A id \in FrameIds :
    /\ ~dirty[id] /\ KindOf[id] \in ValueTicks
    /\ id \notin Targets(Wires("cell"), id) /\ ~HasSource(Wires("snapshot"), id)
    => Fresh(id)

\* Only the cone of a write, a bang, a clocked node or a rebuild is ever dirty,
\* each node of it once, and one frame tick, in frame order, is enough to clean
\* it: what is dirty afterwards is on or behind a value cycle, which goes on by
\* itself.
OnlyConeIsDirty == \A id \in FrameIds \ Cyclic : dirty[id] => id \in due
FrameSettles ==
  [][/\ OnlyConeIsDirty
     /\ FrameEnds => \A id \in FrameIds \ Cyclic : ~dirty[id]]_vars

\* A static scene quiesces: when writes, bangs and rebuilds stop, what is not
\* on a cycle nor downstream of a clocked node comes to rest.
Restless ==
  LET clocked == {id \in FrameIds : KindOf[id] \in AlwaysTicks}
      rung == UNION {Targets(Wires("event"), id) : id \in {e \in FrameIds : KindOf[e] \in Emitters}}
  IN  Cyclic \cup Down(clocked \cup rung)
AtRest == \A id \in FrameIds : dirty[id] => id \in Restless
Quiesces == pc # "idle" => <>[]AtRest

\* Same-tick propagation: a chain of emitters no longer than the pass bound is
\* empty when the emitters have been polled, whatever the document's order.
ShortChains ==
  LET emitters == {id \in FrameIds : KindOf[id] \in Emitters}
      hop[n \in 0..MaxPasses] ==
        IF n = 0 THEN emitters
        ELSE (UNION {Targets(Wires("event"), id) : id \in hop[n - 1]}) \cap emitters
  IN  hop[MaxPasses] = {}
ChainSettles ==
  [][pc = "emit" /\ pc' # "emit" /\ ShortChains => \A id \in Id : pend'[id] = 0]_vars

\* A mute is earned by three late blocks in a row, none of which has already
\* paid for another, and it takes one segment that was running.
MutedIsEarned ==
  [][muted' # muted /\ doc' = doc =>
       /\ verdicts = <<TRUE, TRUE>>
       /\ muted \subseteq muted' /\ Cardinality(muted' \ muted) = 1]_vars

\* The schedule: the segments are the strongly connected components of the
\* uncut edges; uncut edges run forward; and when the cut edges close no loop
\* of components they run forward too.  All variables are typed.
Leads(W, V, x, y) ==     \* y is in every set around x that the pairs in W never leave
  \A U \in SUBSET V : x \in U /\ (\A w \in W : w[1] \in U => w[2] \in U) => y \in U
Both(W, V, x, y) == Leads(W, V, x, y) /\ Leads(W, V, y, x)
SegmentOf(id) == CHOOSE i \in DOMAIN plan.segments : id \in plan.segments[i]
BetweenSegments(w) == <<SegmentOf(w[1]), SegmentOf(w[2])>>
Backward(W) == {w \in W : SegmentOf(w[2]) < SegmentOf(w[1])}
ScheduleIsSound ==
  LET all == Pairs(Wires("buffer"))
      uncut == Pairs(CycleEdges(Wires("buffer")))
      between == {BetweenSegments(w) : w \in all}
  IN  TypeOK /\ (pc \in {"idle", "inlet"} =>
      /\ UNION Members(plan.segments) = BlockIds
      /\ \A i, j \in DOMAIN plan.segments : i # j => plan.segments[i] \cap plan.segments[j] = {}
      /\ \A u, v \in BlockIds : SegmentOf(u) = SegmentOf(v) <=> Both(uncut, BlockIds, u, v)
      /\ Backward(uncut) = {}
      /\ Backward(all) # {} => \E i, j \in DOMAIN plan.segments :
                                 i # j /\ Both(between, DOMAIN plan.segments, i, j))

===============================================================================
