------------------------------- MODULE TickPlan -------------------------------
(***************************************************************************)
(* probe1's frame scheduler: build_plan turns a graph into one delivery     *)
(* mechanism per edge and a tick order (signal_graph_plan.cpp,              *)
(* signal_graph_sort.cpp); tick_graph replays it, node after node           *)
(* (signal_graph_tick.cpp); an edit swaps the graph and migrates what can   *)
(* be kept (signal_graph_migrate.cpp).                                      *)
(*                                                                          *)
(* A value is reduced to its age: 0 if its producer made it in this tick, 1 *)
(* in the last one, 2 before that or never.  A row of an array is its key.  *)
(* The audio thread's side of the crossings is AudioRegion's.               *)
(***************************************************************************)
EXTENDS Naturals, FiniteSets, Sequences, SequencesExt

CONSTANTS
  Id,         \* node ids
  Desc,       \* descriptors: [out: a kind, v6: BOOLEAN, sets: the <<port, kind>> its
              \* setters take, lift: a lift_kind, cells: input ports a span exceeds in rank,
              \* key: the lift_key port]
  Graphs,     \* graphs a plan may be built for
  Played,     \* those that tick and are edited into one another
  Rows,       \* arrays a span producer may show: sequences of row keys
  NoPort,     \* no lift_key
  MaxTicks    \* bound: a clone's ticks saturate

\* A graph: nodes as a sequence of [id, type], edges as one of [src, dst, in].
NodeAt(g, id) == g.nodes[CHOOSE i \in DOMAIN g.nodes : g.nodes[i].id = id]
DescOf(g, id) == Desc[NodeAt(g, id).type]
Members(s) == {s[i] : i \in DOMAIN s}
Ids(g) == {n.id : n \in Members(g.nodes)}
IdSeq(g) == [i \in DOMAIN g.nodes |-> g.nodes[i].id]
Edges(g) == DOMAIN g.edges

Ports == {e.in : e \in UNION {Members(g.edges) : g \in Graphs}}

\* The elements of s that are in S, in their order.
Those(s, S) ==
  LET kept[n \in 0..Len(s)] ==
        IF n = 0 THEN << >>
        ELSE IF s[n] \in S THEN Append(kept[n - 1], s[n]) ELSE kept[n - 1]
  IN  kept[Len(s)]

\* Nodes are instances of descriptors; edges join them (one that names no node is
\* skipped wherever edges are read); ids are distinct (of a repeated one edges find
\* the last node only).  A key that row_key prints from a row ends in a comma, so it
\* is no index.
ASSUME TickPlanAssumption ==
  /\ Played \subseteq Graphs
  /\ \A g \in Graphs :
       /\ g.nodes \in Seq([id : Id, type : DOMAIN Desc]) /\ g.edges \in Seq([src : Id, dst : Id, in : Ports])
       /\ \A i, j \in DOMAIN g.nodes : g.nodes[i].id = g.nodes[j].id => i = j
       /\ \A e \in Members(g.edges) : {e.src, e.dst} \subseteq Ids(g)
  /\ << >> \in Rows /\ \A r \in Rows : r \in Seq(Members(r))
  /\ \A r, s \in Rows : Members(r) \cap DOMAIN s = {}
  /\ MaxTicks \in Nat \ {0}

-----------------------------------------------------------------------------
(* build_plan                                                              *)

Least(S) == CHOOSE i \in S : \A j \in S : i <= j

\* One turn of mark_back_edges' loop: from the node on top of the stack along its
\* next edge, to a new node, or back to one still on the stack: that edge closes a
\* cycle.  A node without a next edge is done; the next root is the next new node.
Search(g, s) ==
  LET along == {i \in s.left : g.edges[i].src = s.stack[Len(s.stack)]}
      edge == Least(along)
      to == g.edges[edge].dst
      root == g.nodes[Least({i \in DOMAIN g.nodes : g.nodes[i].id \in s.new})].id
      enter(t, id) == [t EXCEPT !.new = @ \ {id}, !.stack = Append(@, id)]
      seen == [s EXCEPT !.left = @ \ {edge}]
  IN  IF s.stack = << >> THEN IF s.new = {} THEN s ELSE enter(s, root)
      ELSE IF along = {} THEN [s EXCEPT !.stack = SubSeq(@, 1, Len(@) - 1)]
      ELSE IF to \in Members(s.stack) THEN [seen EXCEPT !.back = @ \cup {edge}]
      ELSE IF to \in s.new THEN enter(seen, to) ELSE seen

\* mark_back_edges: a node enters and leaves the stack once, and each edge is
\* looked at once.
BackEdges(g) ==
  LET turns == 2 * Len(g.nodes) + Len(g.edges)
      start == [new |-> Ids(g), stack |-> << >>, left |-> Edges(g), back |-> {}]
      searched[n \in 0..turns] == IF n = 0 THEN start ELSE Search(g, searched[n - 1])
  IN  searched[turns].back

\* infer_regions: dacs and their upstream closure through audio edges.
BlockRegion(g) ==
  LET grow(S) ==
        S \cup {e.src : e \in {f \in Members(g.edges) : f.dst \in S /\ DescOf(g, f.src).out = "audio"}}
      grown[n \in 0..Len(g.nodes)] ==
        IF n = 0 THEN {id \in Ids(g) : NodeAt(g, id).type = "dac"} ELSE grow(grown[n - 1])
  IN  grown[Len(g.nodes)]

\* The lift pre-pass: a host lifts on its first edge that brings a span to a
\* cell port; the key channel lifts only if nothing else does; what holds a
\* device does not lift.
Excess(g, e) == DescOf(g, e.src).out = "span" /\ e.in \in DescOf(g, e.dst).cells
Lifting(g, i) ==
  LET e == g.edges[i]
      key == DescOf(g, e.dst).key
  IN  /\ Excess(g, e)
      /\ DescOf(g, e.dst).lift # "holder"
      /\ e.in = key => ~\E f \in Members(g.edges) : f.dst = e.dst /\ f.in # key /\ Excess(g, f)
LiftEdge(g) ==
  LET hosts == {g.edges[i].dst : i \in {j \in Edges(g) : Lifting(g, j)}}
  IN  [h \in hosts |-> CHOOSE i \in Edges(g) :
         /\ g.edges[i].dst = h /\ Lifting(g, i)
         /\ \A j \in 1..(i - 1) : g.edges[j].dst = h => ~Lifting(g, j)]

\* What delivers each edge.
Mechanism(g) ==
  LET lift == LiftEdge(g)
      block == BlockRegion(g)
      back == BackEdges(g)
      consumed(e) == e.dst \in DOMAIN lift
                     /\ e.in \in {g.edges[lift[e.dst]].in, DescOf(g, e.dst).key}
      v6(id) == DescOf(g, id).v6
  IN  [i \in Edges(g) |->
        LET e == g.edges[i]
        IN  CASE consumed(e) -> "lift"
              [] ~consumed(e) /\ e.src \in DOMAIN lift -> "gather"
              [] OTHER ->
                   IF (e.src \in block) # (e.dst \in block) THEN "crossing"
                   ELSE IF i \in back THEN "delay"
                   ELSE IF v6(e.src) /\ v6(e.dst) /\ DescOf(g, e.src).out # "bang" THEN "wire"
                   ELSE "applier"]

ByIndex(ids, edges) == ids        \* the fallback order alone

\* topo_sort: Kahn with a queue.  A node waits while an edge leads to it from one
\* that is not done; the next node frees those that waited for it alone, each at
\* the last of its edges.
Waits(edges, done, v) == \E i \in DOMAIN edges : edges[i].dst = v /\ edges[i].src \notin done
LastInto(edges, v, i) ==
  edges[i].src = v /\ \A j \in DOMAIN edges : j > i => edges[j].src # v \/ edges[j].dst # edges[i].dst
Freed(edges, done, v) ==
  LET at == Those([i \in DOMAIN edges |-> i],
                  {i \in DOMAIN edges : LastInto(edges, v, i) /\ ~Waits(edges, done \cup {v}, edges[i].dst)})
  IN  [k \in DOMAIN at |-> edges[at[k]].dst]
Emit(edges, s) ==
  IF s.queue = << >> THEN s
  ELSE [order |-> Append(s.order, Head(s.queue)),
        queue |-> Tail(s.queue) \o Freed(edges, Members(s.order), Head(s.queue))]

\* What a cycle keeps out follows in index order.
TopoSort(ids, edges) ==
  LET ready == Those(ids, {v \in Members(ids) : ~Waits(edges, {}, v)})
      run[n \in 0..Len(ids)] ==
        IF n = 0 THEN [order |-> << >>, queue |-> ready] ELSE Emit(edges, run[n - 1])
      sorted == run[Len(ids)].order
  IN  sorted \o Those(ids, Members(ids) \ Members(sorted))

Ordering == {"lift", "gather", "wire", "applier"}     \* dag_edges
Order(g) ==
  LET mechanism == Mechanism(g)
      dag == Those([i \in Edges(g) |-> i], {i \in Edges(g) : mechanism[i] \in Ordering})
  IN  Those(TopoSort(IdSeq(g), [k \in DOMAIN dag |-> g.edges[dag[k]]]), Ids(g) \ BlockRegion(g))

Built(g) == [mechanism |-> Mechanism(g), lift |-> LiftEdge(g), order |-> Order(g), back |-> BackEdges(g)]

-----------------------------------------------------------------------------
(* tick_graph                                                              *)

None == 3          \* a delay that has captured nothing

VARIABLES
  graph,
  plan,
  pc,         \* "idle" (built, never ticked), "between" ticks, in a "tick"
  at,         \* position in the order
  age,        \* of each node's outputs
  prev,       \* what each delay has captured
  got,        \* what was last delivered along each edge
  rows,       \* the array the span producer shows
  store,      \* lifted_store: clones by <<host, in_port, row key>>
  fed         \* history: rows a host was handed per key, since a tick without it

vars == <<graph, plan, pc, at, age, prev, got, rows, store, fed>>

RowKeys == UNION {Members(r) : r \in Rows}
Keys == RowKeys \cup UNION {DOMAIN r : r \in Rows}

TypeOK ==
  /\ pc \in {"idle", "between", "tick"} /\ at \in Nat
  /\ age \in [Id -> 0..2]
  /\ prev \in [Edges(graph) -> 0..3] /\ got \in [Edges(graph) -> 0..2]
  /\ rows \in Rows
  /\ DOMAIN store \subseteq Id \X Ports \X Keys
  /\ \A k \in DOMAIN store :
       store[k] \in [type : DOMAIN Desc, ticks : 0..MaxTicks, served : SUBSET Keys]

Init ==
  /\ graph \in Graphs
  /\ plan = Built(graph)
  /\ pc = IF graph \in Played THEN "between" ELSE "idle"
  /\ at = 1
  /\ age = [id \in Id |-> 2]
  /\ prev = [i \in Edges(graph) |-> None]
  /\ got = [i \in Edges(graph) |-> 2]
  /\ rows = << >>
  /\ store = << >>
  /\ fed = << >>

Older(n) == IF n < 2 THEN n + 1 ELSE n
Capped(n) == IF n < MaxTicks THEN n ELSE MaxTicks

TickBegins ==
  /\ pc = "between"
  /\ pc' = "tick" /\ at' = 1
  /\ age' = [id \in Id |-> Older(age[id])]
  /\ prev' = [i \in DOMAIN prev |-> Older(prev[i])]
  /\ got' = [i \in DOMAIN got |-> Older(got[i])]
  /\ UNCHANGED <<graph, plan, rows, store, fed>>

\* apply_value: a kind the consumer has no setter for, and a port its setter does
\* not know, drop the value.
Settable(i) ==
  LET e == graph.edges[i]
  IN  <<e.in, DescOf(graph, e.src).out>> \in DescOf(graph, e.dst).sets

\* What an edge delivers when its consumer is reached: the producer's storage as
\* it stands, or what its delay captured.
Delivered(i) ==
  CASE plan.mechanism[i] \in {"wire", "gather"} -> age[graph.edges[i].src]
    [] plan.mechanism[i] = "applier" /\ Settable(i) -> age[graph.edges[i].src]
    [] plan.mechanism[i] = "delay" /\ prev[i] # None /\ Settable(i) -> prev[i]
    [] OTHER -> got[i]

\* An unlifted node: its edges deliver, then it processes.  Into a lifted host
\* (TickLifted) nothing is delivered but the array.
TickNode ==
  /\ pc = "tick" /\ at \in DOMAIN plan.order
  /\ LET id == plan.order[at]
     IN  /\ id \notin DOMAIN plan.lift
         /\ got' = [i \in Edges(graph) |-> IF graph.edges[i].dst = id THEN Delivered(i) ELSE got[i]]
         /\ age' = [age EXCEPT ![id] = 0]
         /\ rows' \in IF DescOf(graph, id).out = "span" THEN Rows ELSE {rows}
  /\ at' = at + 1
  /\ UNCHANGED <<graph, plan, pc, prev, store, fed>>

\* row_key: the key's value when the host declares one, else the row's index.
RowKey(id, r) == IF DescOf(graph, id).key # NoPort THEN rows[r] ELSE r

\* The entries of a host's port with no live row are destroyed.
KeepAll(id, port) == DOMAIN store
KeepOthers(id, port) == {k \in DOMAIN store : k[1] # id \/ k[2] # port}

\* tick_clones: one instance per row key, found or created; the rest of the
\* host's are destroyed; then each row is bound to its instance and processed.
CloneOf(id, port, key) ==
  IF <<id, port, key>> \in DOMAIN store THEN store[<<id, port, key>>]
  ELSE [type |-> NodeAt(graph, id).type, ticks |-> 0, served |-> {}]
RowsOf(id, key) == {r \in DOMAIN rows : RowKey(id, r) = key}
TickClones(id, port) ==
  LET live == {RowKey(id, r) : r \in DOMAIN rows}
      fedTo(c, key) == [c EXCEPT !.ticks = Capped(@ + Cardinality(RowsOf(id, key))),
                                 !.served = @ \cup {rows[r] : r \in RowsOf(id, key)}]
  IN  store' = [k \in KeepOthers(id, port) \cup {<<id, port, key>> : key \in live} |->
                  IF k[1] = id /\ k[2] = port /\ k[3] \in live
                  THEN fedTo(CloneOf(id, port, k[3]), k[3]) ELSE store[k]]

\* tick_lift_group, for a stateful or a stateless host.
TickLifted ==
  /\ pc = "tick" /\ at \in DOMAIN plan.order
  /\ LET id == plan.order[at]
         port == graph.edges[plan.lift[id]].in
     IN  /\ id \in DOMAIN plan.lift
         /\ got' = [i \in Edges(graph) |->
                     IF plan.mechanism[i] = "lift" /\ graph.edges[i].dst = id
                     THEN age[graph.edges[i].src] ELSE got[i]]
         /\ age' = [age EXCEPT ![id] = 0]
         /\ IF DescOf(graph, id).lift = "clones"
            THEN /\ TickClones(id, port)
                 /\ fed' = [k \in {k \in DOMAIN fed : k[1] # id \/ k[2] # port}
                                  \cup {<<id, port, RowKey(id, r)>> : r \in DOMAIN rows} |->
                              IF k[1] # id \/ k[2] # port THEN fed[k]
                              ELSE Capped((IF k \in DOMAIN fed THEN fed[k] ELSE 0)
                                          + Cardinality(RowsOf(id, k[3])))]
            ELSE UNCHANGED <<store, fed>>
  /\ at' = at + 1
  /\ UNCHANGED <<graph, plan, pc, prev, rows>>

\* The frame region's delays capture at the end of the tick.
CaptureOnce(i) == IF prev[i] = None THEN age[graph.edges[i].src] ELSE prev[i]
Capture(i) == age[graph.edges[i].src]

TickEnds ==
  /\ pc = "tick" /\ at \notin DOMAIN plan.order
  /\ pc' = "between" /\ at' = 1
  /\ prev' = [i \in Edges(graph) |->
               IF plan.mechanism[i] = "delay" /\ graph.edges[i].dst \in Members(plan.order)
               THEN Capture(i) ELSE prev[i]]
  /\ UNCHANGED <<graph, plan, age, got, rows, store, fed>>

\* An edit parses a fresh graph: instances of the same id and descriptor come
\* over, so do all the clones; the plan and its delays are new.
Edit(g) ==
  /\ pc = "between" /\ g # graph
  /\ graph' = g
  /\ plan' = Built(g)
  /\ age' = [id \in Id |-> IF \E n \in Members(g.nodes) : n.id = id /\ n \in Members(graph.nodes)
                           THEN age[id] ELSE 2]
  /\ prev' = [i \in Edges(g) |-> None]
  /\ got' = [i \in Edges(g) |-> 2]
  /\ UNCHANGED <<pc, at, rows, store, fed>>

Next ==
  \/ TickBegins \/ TickNode \/ TickLifted \/ TickEnds
  \/ \E g \in Played : Edit(g)

Spec == Init /\ [][Next]_vars

-----------------------------------------------------------------------------
(* Properties                                                              *)

\* signal_graph_plan.cpp:14-15: an edge is delayed only if it closes a cycle, and
\* what is left once they are removed has no cycle; on it every producer of a
\* same-region edge comes before its consumer, unless a lifted edge closed a
\* cycle and was put back.  All variables are typed.
Leads(S, x, y) ==     \* y is in every set that the edges in S lead to from x and never leave
  \A U \in SUBSET Ids(graph) :
    (\A i \in S : graph.edges[i].src \in U \cup {x} => graph.edges[i].dst \in U) => y \in U
Position(id) == CHOOSE k \in DOMAIN plan.order : plan.order[k] = id
Tangled == \E i \in plan.back : plan.mechanism[i] \in Ordering
Scheduled(i) ==
  /\ plan.mechanism[i] \in Ordering
  /\ {graph.edges[i].src, graph.edges[i].dst} \subseteq Members(plan.order)
PlanIsSound ==
  TypeOK /\ (pc # "tick" =>
    /\ \A id \in Ids(graph) : ~Leads(Edges(graph) \ plan.back, id, id)
    /\ \A i \in plan.back : Leads(Edges(graph), graph.edges[i].dst, graph.edges[i].src)
                             \/ graph.edges[i].dst = graph.edges[i].src
    /\ ~Tangled => \A i \in Edges(graph) :
         Scheduled(i) => Position(graph.edges[i].src) < Position(graph.edges[i].dst))

\* A delayed edge into a port that has a setter delivers exactly the last tick's, from the
\* second tick of a plan on (its consumer no lifted host), however long the cycle and whatever else is edited.
OneTickLate ==
  [][TickNode => \A i \in Edges(graph) :
       /\ graph.edges[i].dst = plan.order[at] /\ plan.mechanism[i] = "delay"
       /\ prev[i] # None /\ Settable(i)
       => got'[i] = 1]_vars

\* conformability: a clone keeps its state with its key.  It has processed the
\* rows of that key since the array last went without it, and if the key is a
\* row's, no other row, through reorderings and edits of the graph.
ClonesKeepState ==
  \A k \in DOMAIN store :
    /\ k \in DOMAIN fed /\ store[k].ticks = fed[k]
    /\ k[3] \in RowKeys => store[k].served = {k[3]}
===============================================================================
