------------------------------ MODULE MCExecPlan ------------------------------
(***************************************************************************)
(* Instances of ExecPlan for TLC.  Types: an oscillator (block out port),  *)
(* an FFT-shaped kernel with block_override, a sink, a knob of the frame   *)
(* region, and a name no native is linked for.                             *)
(***************************************************************************)
EXTENDS ExecPlan

MCLinked == {"osc", "fft", "dac", "knob"}
MCSink == {"dac"}
MCBlockOut == {"osc", "fft"}
MCOverride == {"fft"}
MCIllegal == {<<"knob", "dac">>}

Doc(ns, es, ds) == [nodes |-> ns, edges |-> es, defaults |-> ds]

\* One oscillator into the dac, and an empty document.
WiredDocs ==
  { Doc(<<<<"a", "osc">>, <<"d", "dac">>>>, <<<<"a", "d">>>>, << >>),
    Doc(<< >>, << >>, << >>) }

\* Two oscillators summed at the dac.
SummedDocs ==
  { Doc(<<<<"a", "osc">>, <<"b", "osc">>, <<"d", "dac">>>>,
        <<<<"a", "d">>, <<"b", "d">>>>, << >>) }

Structural == {"add_node", "remove_node", "add_edge", "remove_edge"}

\* Two nodes with params, one default loaded and one not.
CONSTANTS Tiny, Word, List
ParamDocs ==
  { Doc(<<<<"a", "osc">>, <<"t", "knob">>>>, << >>, [x \in {"a"} |-> Tiny]) }

\* Printed with every number short enough, and with one that prints as 0.
Exact == [v \in Num |-> v]
SixDecimals == [v \in Num |-> IF v = Tiny THEN Zero ELSE v]

Params == {"set_param", "set_text", "add_node", "remove_node"}

AllNum == [id \in Id |-> "num"]
MixedKinds == [id \in Id |-> CASE id = "a" -> "num" [] id = "t" -> "text"
                               [] OTHER -> "array"]
===============================================================================
