------------------------------- MODULE Schedule -------------------------------
(***************************************************************************)
(* What probe2's executor computes from a document before it plays: the    *)
(* regions and boundary mappings (regions.cpp), how each edge is wired and *)
(* the order in which frame nodes and block segments are evaluated         *)
(* (build_impl in exec_plan.cpp).                                          *)
(*                                                                         *)
(* A document is a sequence of node ids and a sequence of edges, in the    *)
(* order they were written.  A port is reduced to its discipline: an edge  *)
(* carries those of its two ends.  Kinds always agree.                     *)
(***************************************************************************)
EXTENDS Naturals, FiniteSets, Sequences, SequencesExt

CONSTANTS
  Id,         \* node ids
  KindOf      \* the native each id names

\* The starter vocabulary, by what the executor asks of a native.
Sinks == {"dac"}
LongDelay == {"delay"}            \* "samples" of at least a block
Mappers == {"smoother"}
OverridesBlock == {"spectro"}     \* may not sit on an island

Clocked(discipline) == discipline \notin {"event", "value"}

Disciplines == {"block", "frame", "event", "value"}
Edge == [src : Id, from : Disciplines, dst : Id, to : Disciplines]

-----------------------------------------------------------------------------
(* Regions and boundaries                                                  *)

Members(s) == {s[i] : i \in DOMAIN s}

\* The elements of s that are in S, in their order.
Those(s, S) ==
  LET kept[n \in 0..Len(s)] ==
        IF n = 0 THEN << >>
        ELSE IF s[n] \in S THEN Append(kept[n - 1], s[n]) ELSE kept[n - 1]
  IN  kept[Len(s)]

\* infer_regions: the sinks, and upstream of them through edges that leave a
\* port of block discipline, pass after pass until nothing is added.
BlockOf(doc) ==
  LET sinks == {id \in Members(doc.nodes) : KindOf[id] \in Sinks}
      grow(S) ==
        S \cup {e.src : e \in {f \in Members(doc.edges) : f.dst \in S /\ f.from = "block"}}
      grown[n \in Nat] == IF n = 0 THEN sinks ELSE grow(grown[n - 1])
  IN  grown[Len(doc.nodes)]

\* connection_legal: two events meet or none; what differs needs a mapping.
Legal(e) == e.from = e.to \/ "event" \notin {e.from, e.to}
OracleMapping(e) ==
  CASE e.from = e.to -> "none"
    [] e.from # e.to /\ Clocked(e.to) -> "latch"
    [] OTHER -> "snapshot"

\* The boundary of one edge, given the block region: a mapping node stands for
\* its own; a snapshot into a clocked region becomes a latch; a crossing with
\* equal promises is one too.
Boundary(block, e) ==
  LET m == OracleMapping(e)
  IN  IF KindOf[e.dst] \in Mappers THEN "none"
      ELSE IF m = "snapshot" /\ e.dst \in block THEN "latch"
      ELSE IF m = "none" /\ e.src \in block /\ e.dst \notin block THEN "snapshot" ELSE m

\* build_impl's wiring loop: what carries the edge, or "throws".
Carrier(block, e) ==
  LET blockSrc == e.src \in block
      blockDst == e.dst \in block
      m == Boundary(block, e)
  IN  IF ~blockSrc /\ e.from = "event" THEN IF blockDst THEN "throws" ELSE "event"
      ELSE IF m = "snapshot" THEN IF blockSrc /\ ~blockDst THEN "snapshot" ELSE "throws"
      ELSE IF m = "latch" \/ (~blockSrc /\ blockDst)
           THEN IF blockSrc \/ ~blockDst THEN "throws"
                ELSE IF e.to = "value" THEN "param" ELSE "latch"
      ELSE IF blockSrc # blockDst THEN "throws"
      ELSE IF blockDst THEN "buffer" ELSE "cell"

Carriers == {"event", "snapshot", "latch", "param", "buffer", "cell", "throws"}

\* Each list of the plan, in document order.
Wiring(doc) ==
  LET block == BlockOf(doc)
      carried(how) == {e \in Members(doc.edges) : Carrier(block, e) = how}
  IN  [how \in Carriers |-> Those(doc.edges, carried(how))]

Pairs(edges) == {<<e.src, e.dst>> : e \in Members(edges)}

\* Where an edge list leads from a node, how often it leads on to another, and
\* the source a node hears: the last edge in document order that was wired to it.
Targets(edges, id) == {w[2] : w \in {v \in Pairs(edges) : v[1] = id}}
Count(edges, src, dst) == Cardinality({i \in DOMAIN edges : edges[i].src = src /\ edges[i].dst = dst})
Sources(edges, id) == {w[1] : w \in {v \in Pairs(edges) : v[2] = id}}
HasSource(edges, id) == Sources(edges, id) # {}
Source(edges, id) ==
  LET into == {i \in DOMAIN edges : edges[i].dst = id}
  IN  edges[CHOOSE i \in into : \A j \in into : j <= i].src

-----------------------------------------------------------------------------
(* The frame order                                                         *)

\* One scan of the nodes in document order takes each whose sources are taken.
OneScan(order, nodes, wires) ==
  LET ready(taken, id) ==
        id \notin Members(taken) /\ \A w \in wires : w[2] = id => w[1] \in Members(taken)
      scan[n \in 0..Len(nodes)] ==
        IF n = 0 THEN order
        ELSE IF ready(scan[n - 1], nodes[n]) THEN Append(scan[n - 1], nodes[n]) ELSE scan[n - 1]
  IN  scan[Len(nodes)]

\* A scan that takes a node wherever it stands.
ScanAnyway(order, nodes) == OneScan(order, nodes, {})

\* Document order, whatever the wires say.
FrameOrderOfDoc(nodes, wires) == nodes

\* Scans until one takes nothing; the rest, on or behind a value cycle, follow
\* in document order.
FrameOrder(nodes, wires) ==
  LET scanned[n \in 0..Len(nodes)] ==
        IF n = 0 THEN << >> ELSE OneScan(scanned[n - 1], nodes, wires)
  IN  ScanAnyway(scanned[Len(nodes)], nodes)

-----------------------------------------------------------------------------
(* The block schedule: scc_order                                           *)

\* The edges that a long delay does not cut.
CycleEdges(edges) == Those(edges, {e \in Members(edges) : KindOf[e.dst] \notin LongDelay})

Smaller(a, b) == IF a < b THEN a ELSE b
LeastOf(S) == CHOOSE i \in S : \A j \in S : i <= j

\* Tarjan's dfs is called on a node, which gets the next number and goes on the
\* stack.  The stack is a set: its nodes lie on it in the order of their numbers.
Call(s, v) ==
  [s EXCEPT !.num[v] = s.counter, !.low[v] = s.counter, !.counter = @ + 1,
            !.stack = @ \cup {v}, !.calls = Append(@, v)]
Lower(s, v, n) == [s EXCEPT !.low[v] = Smaller(@, n)]

\* It returns: a node whose link is its own number closes a component, which is
\* what has been stacked since; its caller takes its link over.
Return(s) ==
  LET v == s.calls[Len(s.calls)]
      since == {u \in s.stack : s.low[v] = s.num[v] /\ s.num[u] >= s.num[v]}
      back == [s EXCEPT !.calls = SubSeq(@, 1, Len(@) - 1), !.stack = @ \ since,
                        !.closed = IF since = {} THEN @ ELSE Append(@, since)]
  IN  IF back.calls = << >> THEN back ELSE Lower(back, back.calls[Len(back.calls)], s.low[v])

\* One turn of the search: the node called last looks along its next edge and
\* calls a new node, or lowers its link to one on the stack; it returns when no
\* edge is left.  Without a call, the next new node is called.
Search(nodes, edges, s) ==
  LET v == s.calls[Len(s.calls)]
      along == {i \in s.left : edges[i].src = v}
      to == edges[LeastOf(along)].dst
      looked == [s EXCEPT !.left = @ \ {LeastOf(along)}]
      new == {i \in DOMAIN nodes : s.num[nodes[i]] = 0}
  IN  IF s.calls = << >> THEN IF new = {} THEN s ELSE Call(s, nodes[LeastOf(new)])
      ELSE IF along = {} THEN Return(s)
      ELSE IF s.num[to] = 0 THEN Call(looked, to)
      ELSE IF to \in s.stack THEN Lower(looked, v, s.num[to]) ELSE looked

\* The components in the order they are closed.  A node is called and returns
\* once, and each edge is looked at once.
Components(nodes, edges) ==
  LET none == [v \in Members(nodes) |-> 0]
      start == [num |-> none, low |-> none, counter |-> 1, stack |-> {}, calls |-> << >>,
                left |-> DOMAIN edges, closed |-> << >>]
      turns == 2 * Len(nodes) + Len(edges)
      searched[n \in 0..turns] == IF n = 0 THEN start ELSE Search(nodes, edges, searched[n - 1])
  IN  searched[turns].closed

\* A component may be drawn when no component it depends on is still waiting.
Awaits(todo, c, edges) ==
  \E e \in Members(edges) : e.dst \in c /\ \E d \in todo \ {c} : e.src \in d
Open(comps, todo, edges) == Those(comps, {c \in todo : ~Awaits(todo, c, edges)})

\* Kahn over the components: the first, in Tarjan's order, that awaits nothing;
\* if there is none, the first that awaits nothing through uncut edges.
Kahn(comps, hard, all) ==
  LET next(todo) ==
        Head(IF Open(comps, todo, all) # << >> THEN Open(comps, todo, all)
             ELSE Open(comps, todo, hard))
      drawn[n \in 0..Len(comps)] ==
        IF n = 0 THEN << >>
        ELSE Append(drawn[n - 1], next(Members(comps) \ Members(drawn[n - 1])))
  IN  drawn[Len(comps)]

\* The components in an order that asks only for uncut edges.
SegmentsHard(nodes, edges) ==
  Kahn(Components(nodes, CycleEdges(edges)), CycleEdges(edges), CycleEdges(edges))

\* The segments of the block nodes joined by these edges: the components in
\* schedule order.
Segments(nodes, edges) ==
  Kahn(Components(nodes, CycleEdges(edges)), CycleEdges(edges), edges)

Island(seg, edges) ==
  Cardinality(seg) > 1 \/ \E id \in seg : <<id, id>> \in Pairs(CycleEdges(edges))

-----------------------------------------------------------------------------
(* The plan                                                                *)

\* build_impl.
Built(doc) ==
  LET block == BlockOf(doc)
      frames == Those(doc.nodes, Id \ block)
      blocks == Those(doc.nodes, block)
      wiring == Wiring(doc)
  IN  [frames |-> frames, blocks |-> blocks, wiring |-> wiring,
       order |-> FrameOrder(frames, Pairs(wiring["cell"])),
       segments |-> Segments(blocks, wiring["buffer"])]

\* It refuses an illegal edge, one that nothing can carry, and an island through
\* a native that overrides its block.
Realizable(doc, plan) ==
  /\ \A e \in Members(doc.edges) : Legal(e)
  /\ plan.wiring["throws"] = << >>
  /\ \A seg \in Members(plan.segments) :
       Island(seg, plan.wiring["buffer"]) => \A id \in seg : KindOf[id] \notin OverridesBlock
===============================================================================
