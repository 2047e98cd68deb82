-------------------------------- MODULE MCPump --------------------------------
(***************************************************************************)
(* Documents for TLC: seven that are pumped and edited into one another, and *)
(* every digraph over three block nodes, which are scheduled.              *)
(***************************************************************************)
EXTENDS Pump

MCKindOf == [c |-> "cell", s |-> "scale", s2 |-> "scale", l |-> "lfo",
             b |-> "button", k |-> "counter", h |-> "head", r |-> "draw", r2 |-> "draw",
             o |-> "osc", m |-> "smoother", v |-> "vca", a |-> "add", z |-> "bomb",
             f |-> "spectro", d1 |-> "delay", d2 |-> "delay", d3 |-> "delay", dac |-> "dac"]
MCId == DOMAIN MCKindOf

Wire(src, from, dst, to) == [src |-> src, from |-> from, dst |-> dst, to |-> to]
Value2(src, dst) == Wire(src, "value", dst, "value")
Stream(src, dst) == Wire(src, "block", dst, "block")
Chain(src, dst) == Wire(src, "event", dst, "event")

\* A knob through a scale into a gain; the scale is written first.
Gain == [nodes |-> <<"s", "c", "o", "v", "dac">>,
         edges |-> <<Value2("c", "s"), Stream("o", "v"), Wire("s", "value", "v", "block"),
                     Stream("v", "dac")>>]
\* The gain becomes a smoothed one, metered on the frame side.
Metered == [nodes |-> <<"s", "c", "m", "o", "v", "dac">>,
            edges |-> <<Stream("o", "v"), Value2("c", "m"), Stream("m", "v"), Stream("v", "dac"),
                        Wire("m", "block", "s", "value")>>]
\* An lfo on the gain, and a value cycle with a node behind it.
Wobble == [nodes |-> <<"s", "s2", "c", "l", "o", "v", "dac">>,
           edges |-> <<Value2("c", "s"), Value2("s2", "s2"), Value2("s2", "s"), Stream("o", "v"),
                       Wire("l", "frame", "v", "block"), Stream("v", "dac")>>]
Ring == [nodes |-> <<"s", "s2", "k", "b">>,
         edges |-> <<Value2("s2", "s"), Value2("s", "s2"), Chain("b", "k")>>]
\* A render chain written backwards, its last draw counted.
Present == [nodes |-> <<"s", "k", "r2", "r", "h", "b">>,
            edges |-> <<Chain("h", "r"), Chain("r", "r2"), Chain("r2", "k"), Chain("b", "k"),
                        Value2("k", "s")>>]
\* A chain that bites its tail.
Loop == [nodes |-> <<"r", "r2", "h">>,
         edges |-> <<Chain("h", "r"), Chain("r", "r2"), Chain("r2", "r")>>]
\* A bomb in a loop that a long delay cuts.
Bombed == [nodes |-> <<"d1", "a", "z", "dac">>,
           edges |-> <<Stream("z", "a"), Stream("d1", "a"), Stream("a", "d1"), Stream("a", "dac")>>]
MCPlayed == {Gain, Metered, Wobble, Ring, Present, Loop, Bombed}

\* Every edge between the nodes, source by source, and those whose pair is drawn.
AllStreams(nodes) ==
  FlattenSeq([i \in DOMAIN nodes |-> [j \in DOMAIN nodes |-> Stream(nodes[i], nodes[j])]])
Drawn(nodes, pairs) ==
  [nodes |-> Append(nodes, "dac"),
   edges |-> SelectSeq(AllStreams(nodes), LAMBDA e : <<e.src, e.dst>> \in pairs)
             \o [i \in DOMAIN nodes |-> Stream(nodes[i], "dac")]]
Digraphs(nodes) ==
  {Drawn(nodes, pairs) : pairs \in SUBSET (Members(nodes) \X Members(nodes))}
MCDocs ==
  MCPlayed \cup Digraphs(<<"d3", "d1", "d2">>) \cup Digraphs(<<"a", "d1", "v">>)
           \cup Digraphs(<<"d1", "a", "f">>) \cup Digraphs(<<"z", "a", "v">>)
===============================================================================
