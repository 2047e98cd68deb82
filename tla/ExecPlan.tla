------------------------------- MODULE ExecPlan -------------------------------
(***************************************************************************)
(* The live plan's arbiter (probe2/src/executor/exec_plan.cpp): one op     *)
(* inlet fed by any thread, drained at the block boundary by pump_block,   *)
(* which edits the document, logs every op with its inverse, moves the     *)
(* undo cursor and re-realizes the plan, migrating state by route.         *)
(*                                                                         *)
(* Abstractions.  The inlet is the atomic FIFO that Mpsc.tla implements.   *)
(* A node has one param port, one in port and one out port, so a route is  *)
(* named by its node, and one route carries values of one kind (KindOf).   *)
(* Lift and subgraph expansion are the identity: every type is a native.   *)
(* An op's author is the tag that names its submission.  Kernel state is   *)
(* reduced to its last written param (val), whether it has processed a     *)
(* block (ran) and whether the pointer still owns it (alive).              *)
(***************************************************************************)
EXTENDS Integers, Sequences, FiniteSets

CONSTANTS
  Id,              \* node ids
  NodeType,        \* type names ops may mention
  Linked,          \* those with a linked native
  Sink,            \* types with a block in port and no out port
  BlockOut,        \* types whose out port has block discipline
  Override,        \* types with block_override kernels
  Illegal,         \* pairs of types whose connection the oracle refuses
  KindOf,          \* Id -> "num", "text" or "array"
  Num, Text, Arr,  \* the values of each kind
  Zero, NoText, NoArr, \* 0 and the empty text and array: what undo writes
                   \* when it knows no previous value
  Printed,         \* Num -> Num, what std::to_string keeps of a number
  Malformed,       \* an array literal that does not parse
  Native,          \* a param no edit and no default ever wrote
  InitDocs,        \* documents the plan may be constructed from
  Vocabulary,      \* op names submitted
  MaxSubmits,      \* bound on submissions
  MaxUndos         \* bound on undo and undo_gesture calls

ASSUME ValueAssumption ==
  /\ Zero \in Num /\ NoText \in Text /\ NoArr \in Arr
  /\ Num \cap Text = {} /\ (Num \cup Text) \cap Arr = {}
  /\ Malformed \notin Num \cup Text \cup Arr
  /\ Native \notin Num \cup Text \cup Arr
  /\ Printed \in [Num -> Num] /\ \A v \in Num : Printed[Printed[v]] = Printed[v]
  /\ KindOf \in [Id -> {"num", "text", "array"}]

\* What an edit may write to a route, and what a document or the journal
\* may hold for some of them.
Values(id) == CASE KindOf[id] = "num"   -> Num
                [] KindOf[id] = "text"  -> Text
                [] KindOf[id] = "array" -> Arr \cup {Malformed}
ParamMap == UNION {{f \in [D -> Num \cup Text \cup Arr] : \A id \in D : f[id] \in Values(id)} :
                     D \in SUBSET Id}

Document == [nodes : Seq(Id \X (NodeType \cup Linked)), edges : Seq(Id \X Id),
             defaults : ParamMap]

ASSUME DocAssumption == InitDocs \subseteq Document
ASSUME BoundAssumption == MaxSubmits \in Nat /\ MaxUndos \in Nat

VARIABLES
  inlet,           \* inlet_q_
  batch,           \* pending: drained and not yet applied
  pc,              \* "idle", "undo" (queueing inverses), "apply" (in the
                   \* loop of pump_block) or "thrown"
  queueing,        \* inverses undo has not pushed yet
  gesture,         \* undo_gesture still has entries to revert
  structural,      \* pump_block's local flag
  doc,             \* doc_: nodes, edges and defaults
  log, cursor,     \* log_ and cursor_
  journal,         \* param_journal_
  insts,           \* im_: the realized instances, in document order
  rejected,        \* the ops counted in rejected_, by tag
  submits, undos,  \* counters behind the bounds
  past,            \* auxiliary: the document before each logged op
  clean            \* auxiliary: the document came without two nodes of one
                   \* id, no edit landed after an undo, none added what was
                   \* there or a node that edges already named

docvars == <<doc, log, journal, insts, rejected>>
planvars == <<batch, pc, queueing, gesture, structural, cursor, docvars>>
auxvars == <<past, clean>>
vars == <<inlet, planvars, submits, undos, auxvars>>

-----------------------------------------------------------------------------
(* Documents                                                               *)

Contents(s) == {s[i] : i \in DOMAIN s}

Ids(ns) == {n[1] : n \in Contents(ns)}

\* remove_node and infer_regions read the type of the last node with an id,
\* edges and params of the plan resolve to the first.
TypeIn(ns, id) ==
  ns[CHOOSE i \in DOMAIN ns :
       ns[i][1] = id /\ \A j \in DOMAIN ns : ns[j][1] = id => j <= i][2]
FirstType(ns, id) ==
  ns[CHOOSE i \in DOMAIN ns :
       ns[i][1] = id /\ \A j \in DOMAIN ns : ns[j][1] = id => i <= j][2]

\* What of s is in S, in the order of s.
Those(s, S) ==
  LET upto[i \in 0..Len(s)] ==
        IF i = 0 THEN << >>
        ELSE IF s[i] \in S THEN Append(upto[i - 1], s[i]) ELSE upto[i - 1]
  IN  upto[Len(s)]

\* Two sequences of nodes and edges hold the same things in any order.
Structure(d) == <<Contents(d.nodes), Contents(d.edges)>>

Touches(e, id) == e[1] = id \/ e[2] = id

With(f, k, v) == [x \in DOMAIN f \cup {k} |-> IF x = k THEN v ELSE f[x]]
Without(f, k) == [x \in DOMAIN f \ {k} |-> f[x]]

\* id reaches to through edges, over at least one edge.
Reaches(es, id, to) ==
  \E n \in 1..Cardinality(Id) : \E f \in [0..n -> Id] :
    f[0] = id /\ f[n] = to /\ \A i \in 0..(n - 1) : <<f[i], f[i + 1]>> \in es

\* infer_regions: the sinks and everything upstream of them through edges
\* whose source has block discipline.
BlockRegion(d) ==
  LET ids == Ids(d.nodes)
      carries == {e \in Contents(d.edges) :
                    e[1] \in ids /\ TypeIn(d.nodes, e[1]) \in BlockOut}
      sinks == {id \in ids : TypeIn(d.nodes, id) \in Sink}
  IN  {id \in ids : id \in sinks \/ \E s \in sinks : Reaches(carries, id, s)}

\* rebuild (or the constructor) realizes the document unless a type has no
\* native, an edge leaves a sink or is one the oracle refuses, an edge that
\* leads to a node comes from nowhere, or a cycle of the block region passes
\* through a block-override kernel.
Realizable(d) ==
  LET ids == Ids(d.nodes)
      es == Contents(d.edges)
      inner == {e \in es : {e[1], e[2]} \subseteq BlockRegion(d)}
  IN  /\ \A n \in Contents(d.nodes) : n[2] \in Linked
      /\ \A e \in es : e[2] \in ids =>
           /\ e[1] \in ids
           /\ TypeIn(d.nodes, e[1]) \notin Sink
           /\ <<TypeIn(d.nodes, e[1]), TypeIn(d.nodes, e[2])>> \notin Illegal
      /\ \A id \in ids : FirstType(d.nodes, id) \in Override => ~Reaches(inner, id, id)

-----------------------------------------------------------------------------
(* The realized plan                                                       *)

First(s, id) == CHOOSE i \in DOMAIN s : s[i].id = id /\ \A j \in 1..(i - 1) : s[j].id # id
Has(s, id) == \E i \in DOMAIN s : s[i].id = id

\* im_->set_param and set_text_param write the first instance of that id.
SetLive(s, id, v) ==
  IF Has(s, id) /\ s[First(s, id)].alive
  THEN [s EXCEPT ![First(s, id)].val = v]
  ELSE s

\* build_impl: an instance per node, defaults applied to the first of an id.
Fresh(d) ==
  LET first(i) == \A j \in 1..(i - 1) : d.nodes[j][1] # d.nodes[i][1]
      node(i) == d.nodes[i][1]
  IN  [i \in DOMAIN d.nodes |->
         [id |-> node(i), type |-> d.nodes[i][2],
          region |-> IF node(i) \in BlockRegion(d) THEN "block" ELSE "frame",
          alive |-> TRUE, ran |-> FALSE,
          val |-> IF first(i) /\ node(i) \in DOMAIN d.defaults
                  THEN d.defaults[node(i)] ELSE Native]]

\* A rebuild without migration.
Forget(fresh, old) == fresh

\* rebuild: the first old instance of the same id, in the same region and of
\* the same type, gives its state to the first fresh one that asks; the old
\* pointer is then null, and a second fresh instance receives that.
Migrate(fresh, old) ==
  LET same(i) == {j \in DOMAIN old : old[j].id = fresh[i].id
                                       /\ old[j].region = fresh[i].region}
      donor(i) == CHOOSE j \in same(i) : \A k \in same(i) \ {j} : j < k
      gets(i) == same(i) # {} /\ old[donor(i)].type = fresh[i].type
      earlier(i) == \E k \in DOMAIN fresh \ {i} :
                      /\ k < i
                      /\ fresh[k].id = fresh[i].id /\ fresh[k].type = fresh[i].type
  IN  [i \in DOMAIN fresh |->
         IF ~gets(i) THEN fresh[i]
         ELSE IF earlier(i) THEN [fresh[i] EXCEPT !.alive = FALSE, !.val = Native]
         ELSE [fresh[i] EXCEPT !.alive = old[donor(i)].alive,
                               !.ran = old[donor(i)].ran,
                               !.val = old[donor(i)].val]]

\* The journal replays the live edits over the migrated plan.
Replay(fresh, j) ==
  [i \in DOMAIN fresh |->
     IF /\ fresh[i].id \in DOMAIN j /\ fresh[i].alive
        /\ First(fresh, fresh[i].id) = i
     THEN [fresh[i] EXCEPT !.val = j[fresh[i].id]]
     ELSE fresh[i]]

-----------------------------------------------------------------------------
Init ==
  /\ doc \in InitDocs
  /\ insts = Fresh(doc)
  /\ inlet = << >> /\ batch = << >>
  /\ pc = "idle" /\ structural = FALSE
  /\ queueing = << >> /\ gesture = FALSE
  /\ log = << >> /\ cursor = 0
  /\ journal = << >>
  /\ rejected = {}
  /\ submits = 0 /\ undos = 0
  /\ past = << >>
  /\ clean = \A m, n \in Contents(doc.nodes) : m[1] = n[1] => m = n

-----------------------------------------------------------------------------
(* The inlet: any thread                                                   *)

Op(name, a, b, tag) == [op |-> name, a |-> a, b |-> b, tag |-> tag]

\* Tag 0 marks an inverse queued by undo (undo_replay).
IsReplay(o) == o.tag = 0

SetterOf(id) == IF KindOf[id] = "text" THEN "set_text" ELSE "set_param"

\* Ops that mention the types of N, under the tags of T.
OpsOver(N, T) ==
       [op : {"add_node"}, a : Id, b : N, tag : T]
  \cup [op : {"remove_node"}, a : Id, b : {""}, tag : T]
  \cup [op : {"add_edge", "remove_edge"}, a : Id, b : Id, tag : T]
  \cup UNION {[op : {SetterOf(id)}, a : {id}, b : Values(id), tag : T] : id \in Id}

EditOps(tag) == {o \in OpsOver(NodeType, {tag}) : o.op \in Vocabulary}

Submit ==
  /\ submits < MaxSubmits
  /\ pc # "thrown"
  /\ \E o \in EditOps(submits + 1) : inlet' = Append(inlet, o)
  /\ submits' = submits + 1
  /\ UNCHANGED <<planvars, undos, auxvars>>

-----------------------------------------------------------------------------
(* Undo, on the thread that pumps.  Every inverse is a push of its own:    *)
(* ops of other threads may arrive between two of them.                    *)

IsParam(o) == o.op \in {"set_param", "set_text"}

Backwards(s) == [i \in DOMAIN s |-> s[Len(s) + 1 - i]]

\* A revert that does not move the cursor.
RevertInPlace(g) ==
  /\ queueing' = Backwards(log[cursor].inverse)
  /\ gesture' = (g /\ IsParam(log[cursor].op))
  /\ UNCHANGED cursor

\* Revert the entry under the cursor; a gesture goes on to older entries
\* while the reverted ones are param edits.
Revert(g) ==
  /\ queueing' = Backwards(log[cursor].inverse)
  /\ gesture' = (g /\ IsParam(log[cursor].op))
  /\ cursor' = cursor - 1

\* undo() and undo_gesture(): nothing to do at the start of the log.
Undo(g) ==
  /\ pc = "idle"
  /\ undos < MaxUndos
  /\ cursor > 0
  /\ Revert(g)
  /\ pc' = "undo"
  /\ undos' = undos + 1
  /\ UNCHANGED <<inlet, batch, structural, docvars, submits, past, clean>>

PushInverse ==
  /\ pc = "undo"
  /\ queueing # << >>
  /\ inlet' = Append(inlet, Head(queueing))
  /\ queueing' = Tail(queueing)
  /\ UNCHANGED <<batch, pc, gesture, structural, cursor, docvars, submits, undos, auxvars>>

UndoMore ==
  /\ pc = "undo" /\ queueing = << >>
  /\ gesture /\ cursor > 0
  /\ Revert(TRUE)
  /\ UNCHANGED <<inlet, batch, pc, structural, docvars, submits, undos, past, clean>>

UndoReturns ==
  /\ pc = "undo" /\ queueing = << >>
  /\ ~gesture \/ cursor = 0
  /\ pc' = "idle" /\ gesture' = FALSE
  /\ UNCHANGED <<inlet, batch, queueing, structural, cursor, docvars, submits, undos, auxvars>>

-----------------------------------------------------------------------------
(* pump_block: the boundary                                                *)

\* A drain that forgets the order of arrival.
DrainBackwards ==
  /\ pc = "idle"
  /\ batch' = Backwards(inlet)
  /\ inlet' = << >>
  /\ structural' = FALSE
  /\ pc' = "apply"
  /\ UNCHANGED <<queueing, gesture, cursor, docvars, submits, undos, auxvars>>

\* The whole inlet becomes this block's batch, in arrival order.
Drain ==
  /\ pc = "idle"
  /\ batch' = inlet
  /\ inlet' = << >>
  /\ structural' = FALSE
  /\ pc' = "apply"
  /\ UNCHANGED <<queueing, gesture, cursor, docvars, submits, undos, auxvars>>

\* An applied op is logged with its inverse and the cursor jumps to the end,
\* unless undo replays it.  novel says the op's inverse is exact.
Record(o, inverse, novel) ==
  IF IsReplay(o)
  THEN UNCHANGED <<log, cursor, auxvars>>
  ELSE /\ log' = Append(log, [op |-> o, inverse |-> inverse])
       /\ cursor' = Len(log) + 1
       /\ past' = Append(past, doc)
       /\ clean' = (clean /\ novel /\ cursor = Len(log))

\* The loop's next op, which leaves the batch.
Takes(o) ==
  /\ pc = "apply" /\ batch # << >> /\ o = Head(batch)
  /\ batch' = Tail(batch)

applyrest == <<inlet, pc, queueing, gesture, submits, undos>>

\* An array param edits the document only; live state follows at rebuild.
SetArray(o) ==
  /\ o.op = "set_param" /\ o.b \in Arr
  /\ LET prev == IF o.a \in DOMAIN doc.defaults THEN doc.defaults[o.a] ELSE NoArr
     IN  Record(o, <<Op("set_param", o.a, prev, 0)>>, TRUE)
  /\ doc' = [doc EXCEPT !.defaults = With(@, o.a, o.b)]
  /\ structural' = TRUE
  /\ UNCHANGED <<journal, insts, rejected>>

\* The value undo restores when no edit or default ever wrote the route.
Unset(id) == IF KindOf[id] = "text" THEN NoText ELSE Zero

\* A number's previous value is the journal's, else the document's; a
\* text's previous value is the journal's only.
Previous(id) ==
  IF id \in DOMAIN journal THEN journal[id]
  ELSE IF KindOf[id] = "num" /\ id \in DOMAIN doc.defaults THEN Printed[doc.defaults[id]]
  ELSE Unset(id)

\* A scalar edit that reaches the live node but not the document.
SetLiveOnly(o) ==
  /\ o.op \in {"set_text", "set_param"} /\ o.b \in Num \cup Text
  /\ insts' = SetLive(insts, o.a, o.b)
  /\ Record(o, <<Op(o.op, o.a, Previous(o.a), 0)>>, TRUE)
  /\ journal' = With(journal, o.a, o.b)
  /\ UNCHANGED <<doc, rejected, structural>>

\* A number or a text reaches the live node, the journal and the document.
SetScalar(o) ==
  /\ o.op \in {"set_text", "set_param"} /\ o.b \in Num \cup Text
  /\ insts' = SetLive(insts, o.a, o.b)
  /\ Record(o, <<Op(o.op, o.a, Previous(o.a), 0)>>, TRUE)
  /\ journal' = With(journal, o.a, o.b)
  /\ doc' = [doc EXCEPT !.defaults = With(@, o.a, o.b)]
  /\ UNCHANGED <<rejected, structural>>

\* A structural edit that does not ask for a rebuild.
RestructureLater == UNCHANGED <<structural, journal, insts, rejected>>

\* apply_structural: whatever it changes, the plan is rebuilt after the loop.
Restructure ==
  /\ structural' = TRUE
  /\ UNCHANGED <<journal, insts, rejected>>

AddNode(o) ==
  /\ o.op = "add_node"
  /\ Record(o, <<Op("remove_node", o.a, "", 0)>>,
            /\ o.a \notin Ids(doc.nodes)
            /\ \A e \in Contents(doc.edges) : ~Touches(e, o.a))
  /\ doc' = [doc EXCEPT !.nodes = Append(@, <<o.a, o.b>>)]
  /\ Restructure

\* A number goes into an inverse as std::to_string prints it.
Kept(v) == IF v \in Num THEN Printed[v] ELSE v

\* An inverse that forgets the cascaded edges.
RemovedAlone(id) == <<Op("add_node", id, TypeIn(doc.nodes, id), 0)>>

\* The removed node comes back with its edges and its scalar default.
Removed(id) ==
  LET edge(e) == Op("add_edge", e[1], e[2], 0)
      gone == Those(doc.edges, {e \in Contents(doc.edges) : Touches(e, id)})
  IN  <<Op("add_node", id, TypeIn(doc.nodes, id), 0)>>
        \o [i \in DOMAIN gone |-> edge(gone[i])]
        \o IF id \in DOMAIN doc.defaults /\ KindOf[id] # "array"
           THEN <<Op(SetterOf(id), id, Kept(doc.defaults[id]), 0)>>
           ELSE << >>

\* The node, its edges and its default go; the journal keeps its entry.
RemoveNode(o) ==
  /\ o.op = "remove_node"
  /\ o.a \in Ids(doc.nodes)
  /\ Record(o, Removed(o.a), TRUE)
  /\ doc' = [nodes    |-> Those(doc.nodes, {n \in Contents(doc.nodes) : n[1] # o.a}),
             edges    |-> Those(doc.edges, {e \in Contents(doc.edges) : ~Touches(e, o.a)}),
             defaults |-> Without(doc.defaults, o.a)]
  /\ Restructure

AddEdge(o) ==
  /\ o.op = "add_edge"
  /\ Record(o, <<Op("remove_edge", o.a, o.b, 0)>>,
            <<o.a, o.b>> \notin Contents(doc.edges))
  /\ doc' = [doc EXCEPT !.edges = Append(@, <<o.a, o.b>>)]
  /\ Restructure

\* Every equal edge goes.
RemoveEdge(o) ==
  /\ o.op = "remove_edge"
  /\ <<o.a, o.b>> \in Contents(doc.edges)
  /\ Record(o, <<Op("add_edge", o.a, o.b, 0)>>, TRUE)
  /\ doc' = [doc EXCEPT !.edges = Those(@, Contents(@) \ {<<o.a, o.b>>})]
  /\ Restructure

Loses(o) ==
  \/ o.op = "remove_node" /\ o.a \notin Ids(doc.nodes)
  \/ o.op = "remove_edge" /\ <<o.a, o.b>> \notin Contents(doc.edges)

\* A loser that goes uncounted.
RejectSilently(o) ==
  /\ Loses(o)
  /\ UNCHANGED <<structural, cursor, docvars, auxvars>>

\* The precondition loser is counted and the loop goes on.
Reject(o) ==
  /\ Loses(o)
  /\ rejected' = rejected \cup {o.tag}
  /\ UNCHANGED <<structural, cursor, doc, log, journal, insts, auxvars>>

ApplyOp(o) ==
  /\ Takes(o)
  /\ SetArray(o) \/ SetScalar(o) \/ AddNode(o) \/ RemoveNode(o)
       \/ AddEdge(o) \/ RemoveEdge(o) \/ Reject(o)
  /\ UNCHANGED applyrest

\* json::parse throws out of pump_block: the rest of the batch is lost with
\* the plan, and edits already made were never realized.
ParseThrows(o) ==
  /\ Takes(o)
  /\ o.op = "set_param" /\ o.b = Malformed
  /\ pc' = "thrown"
  /\ UNCHANGED <<inlet, queueing, gesture, structural, cursor, docvars,
                 submits, undos, auxvars>>

\* A fresh plan of the document receives the old plan's states and the journal.
Rebuild ==
  /\ pc = "apply" /\ batch = << >> /\ structural
  /\ Realizable(doc)
  /\ \E fresh \in {Fresh(doc)} : \E home \in {Migrate(fresh, insts)} :
       insts' = Replay(home, journal)
  /\ structural' = FALSE
  /\ UNCHANGED <<inlet, batch, pc, queueing, gesture, cursor, doc, log, journal,
                 rejected, submits, undos, auxvars>>

\* The rest of pump_block processes one block with the plan as it now is; a
\* kernel handed a null state may end the program or not.
Process ==
  /\ pc = "apply" /\ batch = << >> /\ ~structural
  /\ insts' = [i \in DOMAIN insts |-> [insts[i] EXCEPT !.ran = @ \/ insts[i].alive]]
  /\ \/ pc' = "idle"
     \/ pc' = "thrown" /\ \E i \in DOMAIN insts : ~insts[i].alive
  /\ UNCHANGED <<inlet, batch, queueing, gesture, structural, cursor, doc, log,
                 journal, rejected, submits, undos, auxvars>>

\* rebuild() throws out of pump_block: the document keeps the edits.
RebuildThrows ==
  /\ pc = "apply" /\ batch = << >> /\ structural
  /\ ~Realizable(doc)
  /\ pc' = "thrown"
  /\ UNCHANGED <<inlet, batch, queueing, gesture, structural, cursor, docvars,
                 submits, undos, auxvars>>

-----------------------------------------------------------------------------
UndoStep == (\E g \in BOOLEAN : Undo(g)) \/ PushInverse \/ UndoMore \/ UndoReturns

Apply == batch # << >> /\ (ApplyOp(Head(batch)) \/ ParseThrows(Head(batch)))

PumpStep == Drain \/ Apply \/ Process \/ Rebuild \/ RebuildThrows

Next == Submit \/ UndoStep \/ PumpStep

Spec == Init /\ [][Next]_vars

\* The host pumps block after block, and a call of undo returns.
Fairness == WF_vars(PumpStep) /\ WF_vars(PushInverse \/ UndoMore \/ UndoReturns)

FairSpec == Spec /\ Fairness

-----------------------------------------------------------------------------
(* Properties                                                              *)

\* Ops with tags of T, and what the log keeps of one.
Ops(T) == OpsOver(NodeType \cup Linked, T)
LogEntry == [op : Ops(1..MaxSubmits), inverse : Seq(Ops({0}))]

TypeOK ==
  /\ inlet \in Seq(Ops(0..MaxSubmits)) /\ batch \in Seq(Ops(0..MaxSubmits))
  /\ queueing \in Seq(Ops({0}))
  /\ log \in Seq(LogEntry) /\ cursor \in 0..Len(log)
  /\ past \in Seq(Document) /\ Len(past) = Len(log)
  /\ doc \in Document /\ journal \in ParamMap
  /\ pc \in {"idle", "undo", "apply", "thrown"}
  /\ structural \in BOOLEAN /\ gesture \in BOOLEAN
  /\ rejected \subseteq 0..MaxSubmits
  /\ submits \in 0..MaxSubmits /\ undos \in 0..MaxUndos

\* The plan between two blocks, with nothing waiting to be applied.
Settled == pc = "idle" /\ inlet = << >>

\* Between two blocks the realized instances are exactly the document's
\* nodes, in document order: no edit, undo or rejected op leaves the plan
\* and the persisted surface apart.
PlanMatchesDoc ==
  pc \in {"idle", "undo"} =>
    /\ DOMAIN insts = DOMAIN doc.nodes
    /\ \A i \in DOMAIN insts :
         insts[i].id = doc.nodes[i][1] /\ insts[i].type = doc.nodes[i][2]

\* Arrival order is the order (ADR-023): every submitted op is in exactly
\* one place, and the places, read from the oldest on, are in the order of
\* arrival; a rejected op never takes the ops behind it down.  What the places
\* hold is typed.
ArrivalOrder ==
  LET places == [i \in DOMAIN log |-> log[i].op] \o batch \o inlet
      submitted == {i \in DOMAIN places : ~IsReplay(places[i])}
      tags == {places[i].tag : i \in submitted}
  IN  TypeOK /\ (pc # "thrown" =>
        /\ \A i, j \in submitted : i < j => places[i].tag < places[j].tag
        /\ tags \cap rejected = {}
        /\ tags \cup (rejected \ {0}) = 1..submits)

\* A node that survives a rebuild keeps the state it had run with (the old
\* state comes home), provided it stays in its region and its id is unique.
StateSurvives ==
  [][\A i \in DOMAIN insts, j \in DOMAIN insts' :
       (/\ insts'[j].id = insts[i].id /\ insts'[j].type = insts[i].type
        /\ insts'[j].region = insts[i].region
        /\ \A k \in DOMAIN insts : insts[k].id = insts[i].id => k = i
        /\ \A k \in DOMAIN insts' : insts'[k].id = insts[i].id => k = j)
       => insts'[j].alive = insts[i].alive /\ (insts[i].ran => insts'[j].ran)]_insts

\* A live scalar param shows what the document says, whatever edits, undos
\* and rebuilds led here (the doc is the definition, so a recipe keyed on
\* it covers every edit).
LiveFollowsDoc ==
  pc \in {"idle", "undo"} =>
    \A i \in DOMAIN insts :
      (/\ First(insts, insts[i].id) = i /\ insts[i].alive
       /\ KindOf[insts[i].id] # "array"
       /\ insts[i].id \in DOMAIN doc.defaults)
      => insts[i].val = doc.defaults[insts[i].id]

\* Undo leads back to the nodes and edges the document had before the undone
\* op, through any number of undos and gestures, blocks and rejected ops,
\* along a history in which no edit lands after an undo, no op adds what is
\* there, no edge precedes its node and the document came with one node per id.
UndoRestoresStructure ==
  Settled /\ clean /\ cursor < Len(log) =>
    Structure(doc) = Structure(past[cursor + 1])

\* Undo's own ops never lose their precondition in such a history.
UndoNeverLoses == clean => 0 \notin rejected

\* Every submitted op is applied or counted as rejected, unless the plan
\* dies: an undo in progress or a stream of other ops cannot hold it back.
EveryOpLands ==
  \A t \in 1..MaxSubmits :
    submits >= t ~>
      \/ pc = "thrown" \/ t \in rejected
      \/ \E i \in DOMAIN log : log[i].op.tag = t

-----------------------------------------------------------------------------
(* What a comment says, and this code does not do                          *)

\* exec_plan.cpp: "the node's params die with it (their definition is the
\* doc)": a live param the document does not define was never written.
ParamsDieWithNode ==
  Settled => \A i \in DOMAIN insts :
    insts[i].id \notin DOMAIN doc.defaults => insts[i].val = Native

===============================================================================
