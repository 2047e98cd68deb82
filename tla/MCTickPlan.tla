------------------------------ MODULE MCTickPlan ------------------------------
(***************************************************************************)
(* Graphs for TLC: every digraph over three nodes of mixed descriptors, and *)
(* a few that tick and are edited into one another.                         *)
(***************************************************************************)
EXTENDS TickPlan

CONSTANTS a, b, c, d, p, q

Descriptor(out, v6, sets, lift, cells, key) ==
  [out |-> out, v6 |-> v6, sets |-> sets, lift |-> lift, cells |-> cells, key |-> key]
Scalar == {<<"in", "scalar">>}      \* what a node with one input of scalars takes

MCDesc ==
  [num |-> Descriptor("scalar", TRUE, Scalar, "clones", {"in"}, NoPort),
   old |-> Descriptor("scalar", FALSE, Scalar, "clones", {}, NoPort),
   list |-> Descriptor("span", TRUE, Scalar, "clones", {}, NoPort),
   card |-> Descriptor("scalar", TRUE, Scalar, "clones", {"in", "id"}, "id"),
   sign |-> Descriptor("scalar", TRUE, Scalar, "clones", {"in", "id"}, "id"),
   plot |-> Descriptor("mesh", TRUE, Scalar \cup {<<"view", "scalar">>}, "stateless", {"in"}, NoPort),
   screen |-> Descriptor("scalar", TRUE, Scalar, "holder", {"in"}, NoPort),
   osc |-> Descriptor("audio", TRUE, Scalar, "clones", {}, NoPort),
   dac |-> Descriptor("none", TRUE, {}, "holder", {}, NoPort)]

MCId == {a, b, c, d}
MCRows == {<< >>, <<p>>, <<p, q>>, <<q, p>>, <<p, p>>}

Node(id, type) == [id |-> id, type |-> type]
Edge(src, dst, in) == [src |-> src, dst |-> dst, in |-> in]

\* A list of cards, keyed; then reordered around a feedback; then of signs.
Cards == [nodes |-> <<Node(b, "card"), Node(a, "list"), Node(c, "num")>>,
          edges |-> <<Edge(a, b, "id"), Edge(a, b, "in"), Edge(b, c, "in")>>]
Feedback == [nodes |-> <<Node(c, "num"), Node(d, "old"), Node(b, "card"), Node(a, "list")>>,
             edges |-> <<Edge(c, d, "in"), Edge(d, c, "in"), Edge(a, b, "in"), Edge(c, c, "in")>>]
\* A plot that looks at itself: no setter takes its mesh.
Signs == [nodes |-> <<Node(a, "list"), Node(b, "sign"), Node(d, "plot")>>,
          edges |-> <<Edge(a, b, "in"), Edge(d, d, "view")>>]
\* No cards, but a plot and numbers by index; what the plot's number gives back to
\* it is delayed, into a lifted host.
Others == [nodes |-> <<Node(a, "list"), Node(b, "num"), Node(c, "num"), Node(d, "plot")>>,
           edges |-> <<Edge(a, b, "in"), Edge(a, d, "in"), Edge(d, c, "in"), Edge(c, d, "view")>>]
MCPlayed == {Cards, Feedback, Signs, Others}

AllEdges(ids) == FlattenSeq([i \in DOMAIN ids |-> [j \in DOMAIN ids |-> Edge(ids[i], ids[j], "in")]])
Digraphs(types) ==
  LET ids == <<a, b, c>>
  IN  {[nodes |-> [i \in 1..3 |-> Node(ids[i], types[i])],
        edges |-> SelectSeq(AllEdges(ids), LAMBDA e : e \in chosen)]
         : chosen \in SUBSET Members(AllEdges(ids))}
MCGraphs ==
  MCPlayed \cup UNION {Digraphs(t) : t \in {<<"num", "old", "num">>, <<"card", "list", "num">>,
                                            <<"dac", "num", "osc">>, <<"screen", "list", "plot">>}}
===============================================================================
