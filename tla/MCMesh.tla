-------------------------------- MODULE MCMesh --------------------------------
(***************************************************************************)
(* Sessions of three peers for TLC.  Their local ops have led to pairings   *)
(* that are complete, or lack one pair; b keeps an object, and another in   *)
(* a store it shares with a alone.                                          *)
(***************************************************************************)
EXTENDS Mesh

CONSTANTS a, b, c, obj, big, graph, take, cap, op1, op2

MCPeer == {a, b, c}
MCObj == {obj, big, graph, take}
MCTake == [g \in {graph} |-> take]
MCOrder == <<a, b, c>>

Pairing(pairs) == [p \in MCPeer |-> {q \in MCPeer : {p, q} \in pairs}]
MCSessions ==
  {[accepted |-> Pairing(pairs),
    run |-> [p \in MCPeer |-> IF p = c THEN {cap} ELSE {}],
    stores |-> [p \in MCPeer |->
      IF p = b THEN <<[share |-> MCPeer, held |-> {big}], [share |-> {a}, held |-> {obj}]>>
      ELSE <<[share |-> MCPeer, held |-> {}]>>]]
     : pairs \in {{{a, b}, {a, c}, {b, c}}, {{a, b}, {b, c}}}}

Do(op, on, arg) == [op |-> op, on |-> on, arg |-> arg]
MCLocals ==
  {Do("pair", a, c), Do("revoke", a, b), Do("revoke", b, a), Do("advertise", b, {cap}),
   Do("share-store", c, {b}), Do("put", c, obj)}

Req(op, from, to, arg) == [op |-> op, from |-> from, to |-> to, arg |-> arg]
MCRequests ==
  {Req("fetch", a, <<b>>, obj), Req("fetch", c, <<b>>, obj), Req("fetch", c, <<a>>, obj), Req("fetch", a, <<b>>, big),
   Req("ops", a, <<b>>, op1), Req("ops", c, <<b>>, op2),
   Req("place", a, <<b, c>>, cap), Req("place", a, <<c, b>>, cap),
   Req("derive", a, <<b, c>>, <<cap, graph>>),
   Req("net-pair", a, <<b>>, [blocks |-> 5, kill |-> 1, back |-> 3, events |-> 4]),
   Req("net-pair", a, <<b>>, [blocks |-> 4, kill |-> 2, back |-> 2, events |-> 2]),
   Req("net-pair", a, <<b>>, [blocks |-> 4, kill |-> 2, back |-> 1, events |-> 4])}
MCProbes == {<< >>, <<Frame("garbage")>>}
===============================================================================
