------------------------------ MODULE PumpProofs ------------------------------
(***************************************************************************)
(* What exec_plan::pump_block keeps for any documents, vocabulary, clocks  *)
(* and bounds: a clean frame node shows what its inputs say, a mute is     *)
(* earned, and when the block ends nothing is left to tick or to deliver   *)
(* outside the cycles of value wires and of chains.                        *)
(*                                                                         *)
(* Of the plan this needs how it was cut (a node is on one side, a value   *)
(* wire leads to the source that a node hears, a latch lands on the block  *)
(* side) and that FrameOrder puts a node before all it reaches.  Of the    *)
(* schedule it is proved that Tarjan's search ends and finds the strongly  *)
(* connected components of the uncut edges, sinks first, and that Kahn's   *)
(* drawing runs over none of them, and backward only where it must.        *)
(***************************************************************************)
EXTENDS Pump, SequenceTheorems, FiniteSetTheorems, NaturalsInduction, TLAPS

-----------------------------------------------------------------------------
(* Lists                                                                   *)

\* A set of naturals has a least member.
LEMMA LeastNatural ==
  ASSUME NEW S, S \subseteq Nat, S # {}
  PROVE  \E m \in S : \A k \in S : m <= k
<1> DEFINE R == OpToRel(<, Nat)
<1>1. IsWellFoundedOn(R, Nat)
  BY NatLessThanWellFounded
<1>2. \A x, y \in Nat : x < y => <<x, y>> \in R
  BY DEF OpToRel
<1> HIDE DEF R
<1>3. PICK m \in S : \A k \in S : <<k, m>> \notin R
  BY <1>1, WFMin
<1>4. \A k \in S : k \in Nat /\ m \in Nat /\ ~(k < m)
  BY <1>2, <1>3
<1>5. \A k \in S : m <= k
  BY <1>4
<1> QED  BY <1>5

\* A nonempty set of places of a list has a last one.
LEMMA LastPlace ==
  ASSUME NEW n \in Nat, NEW S, S \subseteq 1..n, S # {}
  PROVE  \E m \in S : \A k \in S : k <= m
<1> DEFINE T == {n - k : k \in S}
<1>1. \A k \in S : n - k \in Nat
  OBVIOUS
<1>2. T \subseteq Nat /\ T # {}
  BY <1>1
<1> HIDE DEF T
<1>3. PICK t \in T : \A k \in T : t <= k
  BY <1>2, LeastNatural
<1>4. PICK m \in S : t = n - m
  BY DEF T
<1>5. \A k \in S : n - m <= n - k
  BY <1>3, <1>4 DEF T
<1> QED  BY <1>5

\* What holds at the start and from each round to the next holds up to the end.
LEMMA Along ==
  ASSUME NEW m \in Nat, NEW P, 0 \in P, \A n \in 1..m : n - 1 \in P => n \in P
  PROVE  0..m \subseteq P
<1> DEFINE B == (0..m) \ P
<1> SUFFICES ASSUME B # {}  PROVE FALSE
  OBVIOUS
<1>1. B \subseteq Nat
  OBVIOUS
<1>2. PICK b \in B : \A k \in B : b <= k
  BY <1>1, LeastNatural
<1>3. b \in Nat /\ b <= m /\ b \notin P /\ b # 0
  OBVIOUS
<1>4. b \in 1..m /\ b - 1 \in 0..m /\ ~(b <= b - 1)
  BY <1>3
<1>5. b - 1 \in P
  BY <1>2, <1>4
<1> QED  BY <1>3, <1>4, <1>5

\* Round after round of a loop, from a, over values of D.
Rounds(f, m, a, step) == f = [n \in 0..m |-> IF n = 0 THEN a ELSE step[<<n, f[n - 1]>>]]

\* The rounds of a loop can be written down.
LEMMA RoundsExist ==
  ASSUME NEW D, NEW a \in D, NEW m \in Nat, NEW step \in [(1..m) \X D -> D]
  PROVE  \E f \in [0..m -> D] : Rounds(f, m, a, step)
<1> DEFINE P == {k \in 0..m : \E f \in [0..k -> D] : Rounds(f, k, a, step)}
<1>1. 0 \in P
  <2> DEFINE f == [n \in 0..0 |-> a]
  <2>1. Rounds(f, 0, a, step)
    BY DEF Rounds
  <2>2. f \in [0..0 -> D]
    OBVIOUS
  <2> HIDE DEF f
  <2> QED  BY <2>1, <2>2
<1>2. ASSUME NEW b \in 1..m, b - 1 \in P  PROVE b \in P
  <2>1. PICK f \in [0..(b - 1) -> D] : Rounds(f, b - 1, a, step)
    BY <1>2
  <2> DEFINE last == step[<<b, f[b - 1]>>]
             g == [n \in 0..b |-> IF n = b THEN last ELSE f[n]]
  <2>2. b \in Nat /\ b # 0 /\ b - 1 \in Nat /\ b \in 0..m
    OBVIOUS
  <2>3. f[b - 1] \in D
    BY <2>1, <2>2
  <2>4. last \in D
    BY <2>3
  <2>5. \A n \in 0..b : g[n] = IF n = b THEN last ELSE f[n]
    OBVIOUS
  <2>6. \A n \in 0..b : n # b => n \in 0..(b - 1)
    BY <2>2
  <2>7. g \in [0..b -> D]
    BY <2>1, <2>4, <2>6
  <2>8. \A n \in 0..(b - 1) : f[n] = IF n = 0 THEN a ELSE step[<<n, f[n - 1]>>]
    BY <2>1 DEF Rounds
  <2>9. \A n \in 0..b : g[n] = IF n = 0 THEN a ELSE step[<<n, g[n - 1]>>]
    <3> HIDE DEF g
    <3> SUFFICES ASSUME NEW n \in 0..b
                 PROVE  g[n] = IF n = 0 THEN a ELSE step[<<n, g[n - 1]>>]
      OBVIOUS
    <3>1. CASE n = b
      <4>1. g[b] = last /\ g[b - 1] = f[b - 1]
        BY <2>2, <2>5
      <4> QED  BY <2>2, <3>1, <4>1
    <3>2. CASE n # b
      <4>1. n \in 0..(b - 1) /\ g[n] = f[n]
        BY <2>5, <2>6, <3>2
      <4>2. n # 0 => n - 1 \in 0..b /\ n - 1 # b
        BY <2>2
      <4>3. n # 0 => g[n - 1] = f[n - 1]
        BY <2>5, <4>2
      <4> QED  BY <2>8, <4>1, <4>3
    <3> QED  BY <3>1, <3>2
  <2>10. g = [n \in 0..b |-> g[n]]
    OBVIOUS
  <2> HIDE DEF g
  <2>11. Rounds(g, b, a, step)
    BY <2>9, <2>10 DEF Rounds
  <2> QED  BY <2>2, <2>7, <2>11
<1> HIDE DEF P
<1>3. 0..m \subseteq P
  BY <1>1, <1>2, Along
<1>4. m \in P
  BY <1>3
<1> QED  BY <1>4 DEF P

\* A list has no more members than places.
LEMMA MembersAreFew ==
  ASSUME NEW T, NEW s \in Seq(T)
  PROVE  IsFiniteSet(Members(s)) /\ Cardinality(Members(s)) <= Len(s)
         /\ Cardinality(Members(s)) \in Nat
<1>1. Len(s) \in Nat /\ DOMAIN s = 1..Len(s)
  OBVIOUS
<1>2. s \in [1..Len(s) -> Members(s)]
  BY <1>1 DEF Members
<1>3. \A t \in Members(s) : \E i \in 1..Len(s) : s[i] = t
  BY <1>1 DEF Members
<1>4. s \in Surjection(1..Len(s), Members(s))
  BY <1>2, <1>3 DEF Surjection
<1>5. ExistsSurjection(1..Len(s), Members(s))
  BY <1>4 DEF ExistsSurjection
<1>6. IsFiniteSet(Members(s))
  BY <1>1, <1>5, FS_NatSurjection
<1> QED  BY <1>1, <1>5, <1>6, FS_SurjCardinalityBound, FS_CardinalityType

\* An element more is a member more.
LEMMA MembersOfAppend ==
  ASSUME NEW T, NEW s \in Seq(T), NEW x \in T
  PROVE  Members(Append(s, x)) = Members(s) \cup {x}
<1> DEFINE a == Append(s, x)
<1>1. /\ a \in Seq(T) /\ Len(a) = Len(s) + 1 /\ Len(s) \in Nat
      /\ \A i \in 1..Len(s) : a[i] = s[i]
      /\ a[Len(s) + 1] = x
  BY AppendProperties
<1>2. DOMAIN a = 1..(Len(s) + 1) /\ DOMAIN s = 1..Len(s)
  <2> HIDE DEF a
  <2> QED  BY <1>1
<1> HIDE DEF a
<1>3. \A i \in DOMAIN a : a[i] \in Members(s) \cup {x}
  BY <1>1, <1>2 DEF Members
<1>4. \A i \in DOMAIN s : s[i] \in Members(a)
  BY <1>1, <1>2 DEF Members
<1>5. x \in Members(a)
  BY <1>1, <1>2 DEF Members
<1>6. Members(a) = Members(s) \cup {x}
  BY <1>3, <1>4, <1>5 DEF Members
<1> QED  BY <1>6 DEF a

\* The elements kept of the first n of a list.
KeptUpTo(kept, s, S, m) ==
  kept = [n \in 0..m |-> IF n = 0 THEN << >>
                         ELSE IF s[n] \in S THEN Append(kept[n - 1], s[n]) ELSE kept[n - 1]]

\* They can be written down for every list.
LEMMA KeptExists ==
  ASSUME NEW T, NEW s \in Seq(T), NEW S
  PROVE  \E kept : KeptUpTo(kept, s, S, Len(s))
<1>1. PICK N \in Nat : N = Len(s) /\ \A n \in 1..N : s[n] \in T
  OBVIOUS
<1> DEFINE take(q, n) == IF s[n] \in S THEN Append(q, s[n]) ELSE q
           step == [w \in (1..N) \X Seq(T) |-> take(w[2], w[1])]
<1>2. \A n \in 1..N, q \in Seq(T) : take(q, n) \in Seq(T)
  BY <1>1, AppendProperties
<1> HIDE DEF take
<1>3. step \in [(1..N) \X Seq(T) -> Seq(T)]
  BY <1>2
<1>4. \A n \in 1..N, q \in Seq(T) : step[<<n, q>>] = take(q, n)
  OBVIOUS
<1> HIDE DEF step
<1>5. << >> \in Seq(T)
  OBVIOUS
<1>6. PICK f \in [0..N -> Seq(T)] : Rounds(f, N, << >>, step)
  BY <1>3, <1>5, RoundsExist
<1>7. \A n \in 0..N : f[n] = IF n = 0 THEN << >> ELSE step[<<n, f[n - 1]>>]
  BY <1>6 DEF Rounds
<1>8. \A n \in 0..N : n # 0 => n \in 1..N /\ n - 1 \in 0..N
  OBVIOUS
<1>9. \A n \in 0..N : n # 0 => step[<<n, f[n - 1]>>] = take(f[n - 1], n)
  BY <1>4, <1>6, <1>8
<1>10. f = [n \in 0..N |-> IF n = 0 THEN << >> ELSE take(f[n - 1], n)]
  BY <1>6, <1>7, <1>9
<1>11. KeptUpTo(f, s, S, N)
  BY <1>10 DEF KeptUpTo, take
<1> QED  BY <1>1, <1>11

\* What is kept of a list is a list of what is in the kept set, and all of it.
LEMMA ThoseIs ==
  ASSUME NEW T, NEW s \in Seq(T), NEW S
  PROVE  Those(s, S) \in Seq(T \cap S) /\ Members(Those(s, S)) = Members(s) \cap S
<1>1. Len(s) \in Nat /\ DOMAIN s = 1..Len(s) /\ \A n \in 1..Len(s) : s[n] \in T
  OBVIOUS
<1>2. PICK kept : KeptUpTo(kept, s, S, Len(s)) /\ Those(s, S) = kept[Len(s)]
  <2> DEFINE kept == CHOOSE f : KeptUpTo(f, s, S, Len(s))
  <2>1. KeptUpTo(kept, s, S, Len(s))
    BY <1>1, KeptExists
  <2>2. Those(s, S) = kept[Len(s)]
    BY DEF Those, KeptUpTo
  <2> HIDE DEF kept
  <2> QED  BY <2>1, <2>2
<1>3. \A n \in 0..Len(s) :
         kept[n] = IF n = 0 THEN << >>
                   ELSE IF s[n] \in S THEN Append(kept[n - 1], s[n]) ELSE kept[n - 1]
  BY <1>2 DEF KeptUpTo
<1> DEFINE P == {n \in 0..Len(s) : /\ kept[n] \in Seq(T \cap S)
                                   /\ Members(kept[n]) = {s[i] : i \in 1..n} \cap S}
<1>4. 0 \in P
  <2>1. kept[0] = << >>
    BY <1>1, <1>3
  <2>2. Members(<< >>) = {} /\ << >> \in Seq(T \cap S)
    BY DEF Members
  <2>3. 0 \in 0..Len(s) /\ {s[i] : i \in 1..0} = {}
    BY <1>1
  <2> QED  BY <2>1, <2>2, <2>3
<1>5. ASSUME NEW n \in 1..Len(s), n - 1 \in P  PROVE n \in P
  <2>1. n \in 0..Len(s) /\ n - 1 \in Nat /\ n # 0 /\ s[n] \in T
    BY <1>1
  <2>2. kept[n - 1] \in Seq(T \cap S) /\ Members(kept[n - 1]) = {s[i] : i \in 1..(n - 1)} \cap S
    BY <1>5
  <2>3. {s[i] : i \in 1..n} = {s[i] : i \in 1..(n - 1)} \cup {s[n]}
    <3>1. 1..n = (1..(n - 1)) \cup {n}
      BY <2>1
    <3> QED  BY <3>1
  <2>4. CASE s[n] \in S
    <3>1. kept[n] = Append(kept[n - 1], s[n])
      BY <1>3, <2>1, <2>4
    <3>2. kept[n] \in Seq(T \cap S) /\ Members(kept[n]) = Members(kept[n - 1]) \cup {s[n]}
      <4>1. s[n] \in T \cap S
        BY <2>1, <2>4
      <4> QED  BY <2>2, <3>1, <4>1, AppendProperties, MembersOfAppend
    <3> QED  BY <2>1, <2>2, <2>3, <2>4, <3>2
  <2>5. CASE s[n] \notin S
    <3>1. kept[n] = kept[n - 1]
      BY <1>3, <2>1, <2>5
    <3> QED  BY <2>1, <2>2, <2>3, <2>5, <3>1
  <2> QED  BY <2>4, <2>5
<1> HIDE DEF P
<1>6. 0..Len(s) \subseteq P
  BY <1>1, <1>4, <1>5, Along
<1>7. Len(s) \in P
  BY <1>1, <1>6
<1>8. kept[Len(s)] \in Seq(T \cap S) /\ Members(kept[Len(s)]) = {s[i] : i \in 1..Len(s)} \cap S
  BY <1>7 DEF P
<1> QED  BY <1>1, <1>2, <1>8 DEF Members

-----------------------------------------------------------------------------
(* The plan                                                                *)

\* How a plan is cut: wires join nodes, a node is on one side, and a param is
\* driven on the block side only.
Cut(p) ==
  /\ \A how \in Carriers : p.wiring[how] \in Seq(Edge)
  /\ p.frames \in Seq(Id) /\ p.blocks \in Seq(Id)
  /\ Members(p.frames) \cap Members(p.blocks) = {}
  /\ \A e \in Members(p.wiring["param"]) : e.dst \notin Members(p.frames)

\* A wire that carries a param ends in the block region.
LEMMA ParamsEndInBlock ==
  ASSUME NEW block, NEW e, Carrier(block, e) = "param"
  PROVE  e.dst \in block
BY DEF Carrier

\* infer_regions and build_impl: every plan is cut so.
LEMMA BuiltIsCut ==
  ASSUME NEW d \in Docs
  PROVE  Cut(Built(d))
<1>1. d.nodes \in Seq(Id) /\ d.edges \in Seq(Edge)
  BY PumpAssumption
<1>2. PICK block : block = BlockOf(d)
  OBVIOUS
<1>3. PICK p : p = Built(d)
  OBVIOUS
<1>4. p.frames = Those(d.nodes, Id \ block) /\ p.blocks = Those(d.nodes, block)
  BY <1>2, <1>3 DEF Built
<1>5. p.frames \in Seq(Id \cap (Id \ block)) /\ p.blocks \in Seq(Id \cap block)
  BY <1>1, <1>4, ThoseIs
<1>6. p.wiring = Wiring(d)
  BY <1>3 DEF Built
<1> DEFINE carried(how) == {e \in Members(d.edges) : Carrier(block, e) = how}
<1>7. \A how \in Carriers : p.wiring[how] = Those(d.edges, carried(how))
  BY <1>2, <1>6 DEF Wiring
<1>8. \A how \in Carriers : p.wiring[how] \in Seq(Edge \cap carried(how))
  <2> HIDE DEF carried
  <2> QED  BY <1>1, <1>7, ThoseIs
<1>9. \A S, T : \A s \in Seq(S \cap T) : s \in Seq(S) /\ Members(s) \subseteq S \cap T
  <2> SUFFICES ASSUME NEW S, NEW T, NEW s \in Seq(S \cap T)
               PROVE  s \in Seq(S) /\ Members(s) \subseteq S \cap T
    OBVIOUS
  <2>1. \A i \in DOMAIN s : s[i] \in S \cap T
    OBVIOUS
  <2>2. Members(s) \subseteq S \cap T
    BY <2>1 DEF Members
  <2> QED  BY <2>2
<1>10. \A how \in Carriers : p.wiring[how] \in Seq(Edge)
  <2> HIDE DEF carried
  <2> QED  BY <1>8, <1>9
<1>11. p.frames \in Seq(Id) /\ p.blocks \in Seq(Id)
  BY <1>5, <1>9
<1>12. Members(p.frames) \cap block = {} /\ Members(p.frames) \cap Members(p.blocks) = {}
  <2>1. Members(p.frames) \subseteq Id \cap (Id \ block)
    BY <1>5, <1>9
  <2>2. Members(p.blocks) \subseteq Id \cap block
    BY <1>5, <1>9
  <2> QED  BY <2>1, <2>2
<1>13. \A e \in Members(p.wiring["param"]) : e.dst \notin Members(p.frames)
  <2>1. "param" \in Carriers
    BY DEF Carriers
  <2>2. Members(p.wiring["param"]) \subseteq carried("param")
    <3> HIDE DEF carried
    <3>1. p.wiring["param"] \in Seq(Edge \cap carried("param"))
      BY <1>8, <2>1
    <3>2. \A S, T : \A s \in Seq(S \cap T) : Members(s) \subseteq T
      BY <1>9
    <3>3. PICK S, T : S = Edge /\ T = carried("param")
      OBVIOUS
    <3>4. p.wiring["param"] \in Seq(S \cap T)
      BY <3>1, <3>3
    <3>5. Members(p.wiring["param"]) \subseteq T
      BY <3>2, <3>4
    <3> QED  BY <3>3, <3>5
  <2>3. \A e \in carried("param") : e.dst \in block
    BY ParamsEndInBlock
  <2> QED  BY <1>12, <2>2, <2>3
<1> QED  BY <1>3, <1>10, <1>11, <1>12, <1>13 DEF Cut

\* The source that a node hears is one that is wired to it.
LEMMA SourceIsWired ==
  ASSUME NEW edges \in Seq(Edge), NEW id, HasSource(edges, id)
  PROVE  Source(edges, id) \in Id /\ id \in Targets(edges, Source(edges, id))
<1> DEFINE into == {i \in DOMAIN edges : edges[i].dst = id}
           last == CHOOSE i \in into : \A j \in into : j <= i
<1>1. DOMAIN edges = 1..Len(edges) /\ Len(edges) \in Nat
  OBVIOUS
<1>2. into # {}
  BY DEF HasSource, Sources, Pairs, Members
<1>3. into \subseteq 1..Len(edges)
  BY <1>1
<1>4. last \in into
  <2> HIDE DEF into
  <2> QED  BY <1>1, <1>2, <1>3, LastPlace
<1>5. Source(edges, id) = edges[last].src
  BY DEF Source
<1> HIDE DEF last
<1>6. last \in DOMAIN edges /\ edges[last] \in Edge /\ edges[last].dst = id
  BY <1>4
<1>7. edges[last].src \in Id
  BY <1>6 DEF Edge
<1>8. PICK w : w = <<edges[last].src, id>>
  OBVIOUS
<1>9. w \in Pairs(edges) /\ w[1] = edges[last].src /\ w[2] = id
  BY <1>6, <1>8 DEF Pairs, Members
<1>10. id \in Targets(edges, edges[last].src)
  BY <1>9 DEF Targets
<1> QED  BY <1>5, <1>7, <1>10

\* How often a node is wired to another is a number.
LEMMA CountIsNumber ==
  ASSUME NEW edges \in Seq(Edge), NEW src, NEW dst
  PROVE  Count(edges, src, dst) \in Nat
<1>1. IsFiniteSet(1..Len(edges)) /\ DOMAIN edges = 1..Len(edges)
  BY FS_Interval
<1>2. IsFiniteSet({i \in DOMAIN edges : edges[i].src = src /\ edges[i].dst = dst})
  BY <1>1, FS_Subset
<1> QED  BY <1>2, FS_CardinalityType DEF Count

\* A value wire and an event wire join frame nodes.
LEMMA WiresJoinFrames ==
  ASSUME NEW d \in Docs, NEW how \in {"cell", "event"},
         NEW e \in Members(Built(d).wiring[how])
  PROVE  e.dst \in Members(Built(d).frames)
         /\ (how = "cell" => e.src \in Members(Built(d).frames))
<1>1. d.nodes \in Seq(Id) /\ d.edges \in Seq(Edge)
  BY PumpAssumption
<1>2. PICK block : block = BlockOf(d)
  OBVIOUS
<1>3. PICK p : p = Built(d)
  OBVIOUS
<1>4. p.frames = Those(d.nodes, Id \ block) /\ p.wiring = Wiring(d)
  BY <1>2, <1>3 DEF Built
<1> DEFINE carried == {f \in Members(d.edges) : Carrier(block, f) = how}
<1>5. p.wiring[how] = Those(d.edges, carried)
  BY <1>2, <1>4 DEF Wiring, Carriers
<1>6. Members(p.wiring[how]) = Members(d.edges) \cap carried
  <2> HIDE DEF carried
  <2> QED  BY <1>1, <1>5, ThoseIs
<1>7. e \in Members(d.edges) /\ Carrier(block, e) = how
  BY <1>3, <1>6
<1>8. e.dst \in Members(d.nodes) /\ e.src \in Members(d.nodes)
  BY <1>7, PumpAssumption
<1>9. e.dst \notin block /\ (how = "cell" => e.src \notin block)
  BY <1>7 DEF Carrier
<1>10. Members(d.nodes) \subseteq Id
  BY <1>1 DEF Members
<1>11. Members(p.frames) = Members(d.nodes) \cap (Id \ block)
  <2>1. PICK free : free = Id \ block
    OBVIOUS
  <2>2. p.frames = Those(d.nodes, free)
    BY <1>4, <2>1
  <2>3. Members(Those(d.nodes, free)) = Members(d.nodes) \cap free
    BY <1>1, ThoseIs, ZenonT(60)
  <2> QED  BY <2>1, <2>2, <2>3
<1> HIDE DEF carried
<1> QED  BY <1>3, <1>8, <1>9, <1>10, <1>11

-----------------------------------------------------------------------------
(* Freshness                                                               *)

\* The states of the nodes are functions on the ids; what a chain counts and
\* what waits in it are numbers, on the frame side.
Typed ==
  /\ param = [id \in Id |-> param[id]] /\ kernel = [id \in Id |-> kernel[id]]
  /\ pend = [id \in Id |-> pend[id]] /\ out = [id \in Id |-> out[id]]
  /\ cell = [id \in Id |-> cell[id]]
  /\ dirty \in [Id -> BOOLEAN]
  /\ \A id \in Id : pend[id] \in Nat
  /\ \A id \in Id \ BlockIds : KindOf[id] \in {"draw", "counter"} => kernel[id] \in 0..MaxCount

Planned == doc \in Docs /\ plan = Built(doc)

\* The inductive invariant.
FreshInv == Planned /\ Typed /\ CleanIsFresh

\* What is asked of a node before it must be fresh.
Claimed(id) ==
  /\ KindOf[id] \in ValueTicks
  /\ id \notin Targets(Wires("cell"), id) /\ ~HasSource(Wires("snapshot"), id)

\* Freshness of a node depends on its param, its state, its cell and the cell
\* of the source it hears.
LEMMA SameFresh ==
  ASSUME Planned, plan' = plan, NEW id \in Id, Claimed(id), Fresh(id),
         out'[id] = out[id], kernel'[id] = kernel[id],
         KindOf[id] = "cell" => param'[id] = param[id],
         HasSource(Wires("cell"), id) =>
           out'[Source(Wires("cell"), id)] = out[Source(Wires("cell"), id)]
  PROVE  Fresh(id)'
<1>1. Wires("cell")' = Wires("cell") /\ Wires("snapshot")' = Wires("snapshot")
  BY DEF Wires
<1>2. PICK wires, snapshots : wires = Wires("cell") /\ snapshots = Wires("snapshot")
  OBVIOUS
<1>3. ~HasSource(snapshots, id)
  BY <1>2 DEF Claimed
<1>4. Input(id) = IF HasSource(wires, id) THEN out[Source(wires, id)] ELSE 0
  BY <1>2, <1>3 DEF Input
<1>5. Input(id)' = IF HasSource(wires, id) THEN out'[Source(wires, id)] ELSE 0
  BY <1>1, <1>2, <1>3 DEF Input
<1>6. Input(id)' = Input(id)
  BY <1>2, <1>4, <1>5
<1>7. Value(id, kernel[id], Input(id))' = Value(id, kernel[id], Input(id))
  BY <1>6 DEF Value
<1> QED  BY <1>7 DEF Fresh

\* The plan's own facts, in a state.
LEMMA PlanFacts ==
  ASSUME Planned
  PROVE  /\ Cut(plan) /\ FrameIds \subseteq Id /\ FrameIds \cap BlockIds = {}
         /\ \A id : HasSource(Wires("cell"), id) =>
              /\ Source(Wires("cell"), id) \in Id
              /\ id \in Targets(Wires("cell"), Source(Wires("cell"), id))
<1>1. Cut(plan)
  BY BuiltIsCut DEF Planned
<1>2. plan.frames \in Seq(Id) /\ "cell" \in Carriers
  BY <1>1 DEF Cut, Carriers
<1>3. FrameIds \subseteq Id
  BY <1>2 DEF FrameIds, Members
<1>4. FrameIds \cap BlockIds = {}
  BY <1>1 DEF Cut, FrameIds, BlockIds
<1>5. Wires("cell") \in Seq(Edge)
  BY <1>1, <1>2 DEF Cut, Wires
<1> QED  BY <1>1, <1>3, <1>4, <1>5, SourceIsWired

\* So a step that leaves alone the plan, the cells and the states of clean nodes,
\* and makes none clean, keeps freshness.
LEMMA QuietKeepsFresh ==
  ASSUME Planned, CleanIsFresh, plan' = plan, out' = out,
         \A id \in FrameIds : ~dirty'[id] /\ Claimed(id) =>
           /\ ~dirty[id] /\ kernel'[id] = kernel[id]
           /\ KindOf[id] = "cell" => param'[id] = param[id]
  PROVE  CleanIsFresh'
<1>1. FrameIds' = FrameIds /\ \A id : Claimed(id)' <=> Claimed(id)
  BY DEF FrameIds, Claimed, Wires
<1> SUFFICES ASSUME NEW id \in FrameIds, ~dirty'[id], Claimed(id)
             PROVE  Fresh(id)'
  BY <1>1 DEF CleanIsFresh, Claimed
<1>2. ~dirty[id] /\ kernel'[id] = kernel[id] /\ (KindOf[id] = "cell" => param'[id] = param[id])
  OBVIOUS
<1>3. Fresh(id)
  BY <1>2 DEF CleanIsFresh, Claimed
<1>4. id \in Id
  BY PlanFacts
<1> QED  BY <1>2, <1>3, <1>4, SameFresh

-----------------------------------------------------------------------------
(* The boundary: writes, rebuilds, bangs and emitters                      *)

\* A write marks the node it writes to.
LEMMA WritesKeepFresh ==
  ASSUME FreshInv, NEW id \in Id, NEW v, SetParam(id, v)
  PROVE  FreshInv'
<1>1. Planned /\ Typed /\ CleanIsFresh
  BY DEF FreshInv
<1>2. /\ param' = [param EXCEPT ![id] = v]
      /\ dirty' = IF id \in FrameIds THEN [dirty EXCEPT ![id] = TRUE] ELSE dirty
      /\ UNCHANGED <<doc, plan, kernel, pend, out, cell>>
  BY DEF SetParam, loop, ladder
<1>3. Planned'
  BY <1>1, <1>2 DEF Planned
<1>4. Typed'
  BY <1>1, <1>2 DEF Typed, BlockIds
<1>5. CleanIsFresh'
  <2> SUFFICES ASSUME NEW x \in FrameIds, ~dirty'[x], Claimed(x)
               PROVE  ~dirty[x] /\ kernel'[x] = kernel[x] /\ param'[x] = param[x]
    BY <1>1, <1>2, QuietKeepsFresh
  <2>1. x \in Id
    BY <1>1, PlanFacts
  <2>2. x # id
    BY <1>1, <1>2, <2>1 DEF Typed
  <2> QED  BY <1>1, <1>2, <2>1, <2>2 DEF Typed
<1> QED  BY <1>3, <1>4, <1>5 DEF FreshInv

\* A rebuild leaves every node dirty.
LEMMA RebuildsKeepFresh ==
  ASSUME FreshInv, NEW d \in Played, Rebuild(d)
  PROVE  FreshInv'
<1>1. Planned /\ Typed
  BY DEF FreshInv
<1>2. Planned'
  BY PumpAssumption DEF Rebuild, Planned
<1>3. PICK home : /\ home = (FrameIds \cap Members(plan'.frames)) \cup (BlockIds \cap Members(plan'.blocks))
                  /\ kernel' = [id \in Id |-> IF id \in home THEN kernel[id] ELSE 0]
                  /\ pend' = [id \in Id |-> IF id \in home THEN pend[id] ELSE 0]
  BY DEF Rebuild
<1>4. /\ out' = [id \in Id |-> 0] /\ cell' = [id \in Id |-> 0] /\ param' = param
      /\ dirty' = [id \in Id |-> TRUE]
  BY DEF Rebuild
<1>5. BlockIds' = Members(plan'.blocks)
  BY DEF BlockIds
<1>6. FrameIds \cap BlockIds = {}
  BY <1>1, PlanFacts
<1>7. MaxCount \in Nat /\ 0 \in 0..MaxCount
  BY PumpAssumption
<1>8. \A id \in Id \ BlockIds' :
         KindOf[id] \in {"draw", "counter"} => kernel'[id] \in 0..MaxCount
  <2> SUFFICES ASSUME NEW id \in Id \ BlockIds', KindOf[id] \in {"draw", "counter"}
               PROVE  kernel'[id] \in 0..MaxCount
    OBVIOUS
  <2>1. CASE id \in home
    <3>1. id \in FrameIds /\ id \notin BlockIds
      BY <1>3, <1>5, <1>6, <2>1
    <3> QED  BY <1>1, <1>3, <2>1, <3>1 DEF Typed
  <2>2. CASE id \notin home
    BY <1>3, <1>7, <2>2
  <2> QED  BY <2>1, <2>2
<1>9. \A id \in Id : pend'[id] \in Nat
  BY <1>1, <1>3 DEF Typed
<1>10. Typed'
  BY <1>1, <1>3, <1>4, <1>8, <1>9 DEF Typed
<1>11. CleanIsFresh'
  <2>1. FrameIds' \subseteq Id
    <3>1. Cut(plan')
      BY <1>2, BuiltIsCut DEF Planned
    <3> QED  BY <3>1 DEF Cut, FrameIds, Members
  <2>2. \A id \in FrameIds' : dirty'[id]
    BY <1>4, <2>1
  <2> QED  BY <2>2 DEF CleanIsFresh
<1> QED  BY <1>2, <1>10, <1>11 DEF FreshInv

\* Least stays within its bound.
LEMMA LeastBounds ==
  ASSUME NEW n \in Nat
  PROVE  /\ Least(n, MaxCount) \in 0..MaxCount
         /\ n \in 0..MaxCount => Least(n, MaxCount) = n
BY PumpAssumption DEF Least

\* Whoever is struck by an event is marked.
LEMMA StrikesKeepFresh ==
  ASSUME FreshInv, NEW struck,
         UNCHANGED <<doc, plan, param, out, cell>>,
         kernel' = [x \in Id |-> kernel'[x]], pend' = [x \in Id |-> pend'[x]],
         dirty' = [x \in Id |-> dirty[x] \/ x \in struck],
         \A x \in Id : pend'[x] \in Nat,
         \A x \in Id \ BlockIds : KindOf[x] \in {"draw", "counter"} => kernel'[x] \in 0..MaxCount,
         \A x \in Id \ BlockIds : x \notin struck => kernel'[x] = kernel[x]
  PROVE  FreshInv'
<1>1. Planned /\ Typed /\ CleanIsFresh
  BY DEF FreshInv
<1>2. Planned'
  BY <1>1 DEF Planned
<1>3. BlockIds' = BlockIds
  BY DEF BlockIds
<1>4. dirty' \in [Id -> BOOLEAN]
  BY <1>1 DEF Typed
<1>5. Typed'
  BY <1>1, <1>3, <1>4 DEF Typed
<1>6. CleanIsFresh'
  <2> SUFFICES ASSUME NEW x \in FrameIds, ~dirty'[x], Claimed(x)
               PROVE  ~dirty[x] /\ kernel'[x] = kernel[x] /\ param'[x] = param[x]
    BY <1>1, QuietKeepsFresh
  <2>1. x \in Id \ BlockIds
    BY <1>1, PlanFacts
  <2>2. ~dirty[x] /\ x \notin struck
    BY <2>1
  <2> QED  BY <2>1, <2>2
<1> QED  BY <1>2, <1>5, <1>6 DEF FreshInv

\* A bang posted on a button.
LEMMA BangsKeepFresh ==
  ASSUME FreshInv, NEW id \in Id, Bang(id)
  PROVE  FreshInv'
<1>1. Typed
  BY DEF FreshInv
<1>2. PICK cone : cone = Targets(Wires("event"), id)
  OBVIOUS
<1>3. /\ kernel' = [x \in Id |-> IF x \in cone /\ KindOf[x] \in AppliesBangs
                                 THEN Least(kernel[x] + 1, MaxCount) ELSE kernel[x]]
      /\ dirty' = [x \in Id |-> dirty[x] \/ x \in cone]
      /\ UNCHANGED <<doc, plan, param, pend, out, cell>>
  BY <1>2 DEF Bang, loop, ladder
<1>4. \A x \in Id : KindOf[x] \in AppliesBangs => KindOf[x] \in {"draw", "counter"}
  BY DEF AppliesBangs
<1>5. \A x \in Id \ BlockIds : KindOf[x] \in {"draw", "counter"} => kernel'[x] \in 0..MaxCount
  <2> SUFFICES ASSUME NEW x \in Id \ BlockIds, KindOf[x] \in {"draw", "counter"}
               PROVE  kernel'[x] \in 0..MaxCount
    OBVIOUS
  <2>1. kernel[x] \in 0..MaxCount /\ kernel[x] + 1 \in Nat
    BY <1>1 DEF Typed
  <2>2. Least(kernel[x] + 1, MaxCount) \in 0..MaxCount
    BY <2>1, LeastBounds
  <2> QED  BY <1>3, <2>1, <2>2
<1>6. kernel' = [x \in Id |-> kernel'[x]] /\ pend' = [x \in Id |-> pend'[x]]
      /\ \A x \in Id : pend'[x] \in Nat
  BY <1>1, <1>3 DEF Typed
<1>7. \A x \in Id \ BlockIds : x \notin cone => kernel'[x] = kernel[x]
  BY <1>3
<1> QED  BY <1>3, <1>5, <1>6, <1>7, StrikesKeepFresh

\* An emitter that emits all it has.
LEMMA EmissionsKeepFresh ==
  ASSUME FreshInv, NEW id \in Id, pend[id] > 0, Emit(id, pend[id]),
         UNCHANGED <<doc, plan, param, out, cell>>
  PROVE  FreshInv'
<1>1. Planned /\ Typed
  BY DEF FreshInv
<1>2. PICK events : events = Wires("event")
  OBVIOUS
<1>3. events \in Seq(Edge)
  BY <1>1, <1>2, PlanFacts DEF Cut, Wires, Carriers
<1>4. PICK struck : struck = Targets(events, id)
  OBVIOUS
<1>5. PICK n : n = pend[id]
  OBVIOUS
<1>6. n \in Nat
  BY <1>1, <1>5 DEF Typed
<1> DEFINE into(x) == IF x \in struck THEN n * Count(events, id, x) ELSE 0
<1>7. /\ pend' = [x \in Id |-> IF x = id THEN 0
                               ELSE IF KindOf[x] = "draw" THEN Least(pend[x] + into(x), MaxCount)
                               ELSE pend[x]]
      /\ kernel' = [x \in Id |-> IF KindOf[x] \in {"draw", "counter"}
                                 THEN Least(kernel[x] + into(x), MaxCount) ELSE kernel[x]]
      /\ dirty' = [x \in Id |-> dirty[x] \/ x \in struck]
  BY <1>2, <1>4, <1>5 DEF Emit
<1>8. \A x : into(x) \in Nat
  <2> SUFFICES ASSUME NEW x  PROVE into(x) \in Nat
    OBVIOUS
  <2>1. PICK k : k = Count(events, id, x)
    OBVIOUS
  <2>2. k \in Nat
    BY <1>3, <2>1, CountIsNumber
  <2>3. n * k \in Nat
    BY <1>6, <2>2
  <2> QED  BY <2>1, <2>3
<1>9. \A x : x \notin struck => into(x) = 0
  OBVIOUS
<1> HIDE DEF into
<1>10. \A x \in Id : pend'[x] \in Nat
  <2> SUFFICES ASSUME NEW x \in Id  PROVE pend'[x] \in Nat
    OBVIOUS
  <2>1. pend[x] \in Nat /\ pend[x] + into(x) \in Nat
    BY <1>1, <1>8 DEF Typed
  <2>2. Least(pend[x] + into(x), MaxCount) \in Nat
    BY <2>1, LeastBounds
  <2> QED  BY <1>7, <2>1, <2>2
<1>11. \A x \in Id \ BlockIds : KindOf[x] \in {"draw", "counter"} =>
          kernel'[x] \in 0..MaxCount /\ (x \notin struck => kernel'[x] = kernel[x])
  <2> SUFFICES ASSUME NEW x \in Id \ BlockIds, KindOf[x] \in {"draw", "counter"}
               PROVE  kernel'[x] \in 0..MaxCount /\ (x \notin struck => kernel'[x] = kernel[x])
    OBVIOUS
  <2>1. kernel[x] \in 0..MaxCount /\ kernel[x] + into(x) \in Nat
    BY <1>1, <1>8 DEF Typed
  <2>2. Least(kernel[x] + into(x), MaxCount) \in 0..MaxCount
    BY <2>1, LeastBounds
  <2>3. x \notin struck => Least(kernel[x] + into(x), MaxCount) = kernel[x]
    BY <1>9, <2>1, LeastBounds
  <2>4. kernel'[x] = Least(kernel[x] + into(x), MaxCount)
    BY <1>7
  <2> QED  BY <2>2, <2>3, <2>4
<1>12. \A x \in Id \ BlockIds : x \notin struck => kernel'[x] = kernel[x]
  BY <1>7, <1>11
<1>13. kernel' = [x \in Id |-> kernel'[x]] /\ pend' = [x \in Id |-> pend'[x]]
  BY <1>7
<1> QED  BY <1>7, <1>10, <1>11, <1>12, <1>13, StrikesKeepFresh

\* The turn of one frame node to emit.
LEMMA EmittersKeepFresh ==
  ASSUME FreshInv, EmitOne
  PROVE  FreshInv'
<1>1. Planned /\ Typed /\ CleanIsFresh
  BY DEF FreshInv
<1>2. at \in DOMAIN plan.frames /\ plan.frames \in Seq(Id)
  BY <1>1, PlanFacts DEF EmitOne, Cut
<1>3. PICK id \in Id : id = plan.frames[at]
  BY <1>2
<1>4. UNCHANGED <<doc, plan, param, out, cell>>
  BY DEF EmitOne
<1>5. CASE KindOf[id] \in Emitters /\ pend[id] > 0
  <2>1. Emit(id, pend[id])
    BY <1>3, <1>5 DEF EmitOne
  <2> QED  BY <1>4, <1>5, <2>1, EmissionsKeepFresh
<1>6. CASE ~(KindOf[id] \in Emitters /\ pend[id] > 0)
  <2>1. UNCHANGED <<pend, kernel, dirty>>
    BY <1>3, <1>6 DEF EmitOne
  <2>2. Planned' /\ Typed'
    BY <1>1, <1>4, <2>1 DEF Planned, Typed, BlockIds
  <2>3. CleanIsFresh'
    BY <1>1, <1>4, <2>1, QuietKeepsFresh
  <2> QED  BY <2>2, <2>3 DEF FreshInv
<1> QED  BY <1>5, <1>6

-----------------------------------------------------------------------------
(* The frame tick and the block                                            *)

\* A node that ticks writes what its inputs say, and wakes whoever hears it.
LEMMA TicksKeepFresh ==
  ASSUME FreshInv, TickOne
  PROVE  FreshInv'
<1>1. Planned /\ Typed /\ CleanIsFresh
  BY DEF FreshInv
<1>2. PICK id : id = plan.order[at]
  OBVIOUS
<1>3. PICK runs \in BOOLEAN : runs = (KindOf[id] \in AlwaysTicks \/ dirty[id])
  OBVIOUS
<1>4. PICK k : k = Ticked(id, kernel[id])
  OBVIOUS
<1>5. PICK wires : wires = Wires("cell") /\ wires = Wires("cell")'
  BY DEF TickOne, Wires
<1>6. /\ UNCHANGED <<doc, plan, param, cell>>
      /\ IF runs /\ KindOf[id] \in ValueTicks
         THEN /\ kernel' = [kernel EXCEPT ![id] = k]
              /\ out' = [out EXCEPT ![id] = Value(id, k, Input(id))]
              /\ pend' = IF KindOf[id] = "head"
                         THEN [pend EXCEPT ![id] = Least(@ + 1, MaxCount)] ELSE pend
              /\ dirty' = [x \in Id |-> (dirty[x] \/ x \in Targets(wires, id)) /\ x # id]
         ELSE /\ dirty' = [dirty EXCEPT ![id] = FALSE]
              /\ UNCHANGED <<kernel, out, pend>>
  BY <1>2, <1>3, <1>4, <1>5 DEF TickOne, Wakes, Rests
<1>7. Planned'
  BY <1>1, <1>6 DEF Planned
<1>8. FrameIds' = FrameIds /\ BlockIds' = BlockIds /\ \A x : Claimed(x)' <=> Claimed(x)
  BY <1>6 DEF FrameIds, BlockIds, Claimed, Wires
<1>9. CASE runs /\ KindOf[id] \in ValueTicks
  <2>1. \A x \in Id : pend'[x] \in Nat
    <3> SUFFICES ASSUME NEW x \in Id  PROVE pend'[x] \in Nat
      OBVIOUS
    <3>1. pend[x] \in Nat /\ pend[x] + 1 \in Nat
      BY <1>1 DEF Typed
    <3>2. Least(pend[x] + 1, MaxCount) \in Nat
      BY <3>1, LeastBounds
    <3>3. pend'[x] = pend[x] \/ pend'[x] = Least(pend[x] + 1, MaxCount)
      BY <1>1, <1>6, <1>9 DEF Typed
    <3> QED  BY <3>1, <3>2, <3>3
  <2>2. KindOf[id] \in {"draw", "counter"} => k = kernel[id]
    BY <1>4 DEF Ticked
  <2>3. \A x \in Id \ BlockIds : KindOf[x] \in {"draw", "counter"} => kernel'[x] \in 0..MaxCount
    BY <1>1, <1>6, <1>9, <2>2 DEF Typed
  <2>4. dirty' \in [Id -> BOOLEAN]
    BY <1>1, <1>6, <1>9 DEF Typed
  <2>5. /\ kernel' = [x \in Id |-> kernel'[x]] /\ out' = [x \in Id |-> out'[x]]
        /\ pend' = [x \in Id |-> pend'[x]]
    BY <1>1, <1>6, <1>9 DEF Typed
  <2>6. Typed'
    BY <1>1, <1>6, <1>8, <2>1, <2>3, <2>4, <2>5 DEF Typed
  <2>7. ASSUME NEW x \in FrameIds, ~dirty'[x], Claimed(x)
        PROVE  Fresh(x)'
    <3>1. x \in Id
      BY <1>1, PlanFacts
    <3>2. x \notin Targets(wires, x)
      BY <1>5, <2>7 DEF Claimed
    <3>3. HasSource(wires, x) =>
            Source(wires, x) \in Id /\ x \in Targets(wires, Source(wires, x))
      BY <1>1, <1>5, PlanFacts
    <3>4. CASE x = id
      <4>1. kernel'[x] = k /\ out'[x] = Value(x, k, Input(x))
        BY <1>1, <1>6, <1>9, <3>1, <3>4 DEF Typed
      <4>2. HasSource(wires, x) => out'[Source(wires, x)] = out[Source(wires, x)]
        BY <1>1, <1>6, <1>9, <3>2, <3>3, <3>4 DEF Typed
      <4>3. PICK snapshots : snapshots = Wires("snapshot") /\ snapshots = Wires("snapshot")'
        BY <1>6 DEF Wires
      <4>4. ~HasSource(snapshots, x)
        BY <2>7, <4>3 DEF Claimed
      <4>5. Input(x) = IF HasSource(wires, x) THEN out[Source(wires, x)] ELSE 0
        BY <1>5, <4>3, <4>4 DEF Input
      <4>6. Input(x)' = IF HasSource(wires, x) THEN out'[Source(wires, x)] ELSE 0
        BY <1>5, <4>3, <4>4 DEF Input
      <4>7. PICK input : input = Input(x) /\ input = Input(x)'
        BY <4>2, <4>5, <4>6
      <4>8. Value(x, kernel[x], Input(x))' = Value(x, k, input)
        BY <1>6, <4>1, <4>7 DEF Value
      <4> QED  BY <4>1, <4>7, <4>8 DEF Fresh
    <3>5. CASE x # id
      <4>1. ~dirty[x] /\ x \notin Targets(wires, id)
        BY <1>1, <1>6, <1>9, <2>7, <3>1, <3>5 DEF Typed
      <4>2. out'[x] = out[x] /\ kernel'[x] = kernel[x]
        BY <1>1, <1>6, <1>9, <3>1, <3>5 DEF Typed
      <4>3. HasSource(wires, x) => out'[Source(wires, x)] = out[Source(wires, x)]
        BY <1>1, <1>6, <1>9, <3>3, <4>1 DEF Typed
      <4>4. Fresh(x)
        BY <1>1, <2>7, <4>1 DEF CleanIsFresh, Claimed
      <4> QED  BY <1>1, <1>5, <1>6, <2>7, <3>1, <4>2, <4>3, <4>4, SameFresh
    <3> QED  BY <3>4, <3>5
  <2>8. CleanIsFresh'
    BY <1>8, <2>7 DEF CleanIsFresh, Claimed
  <2> QED  BY <1>7, <2>6, <2>8 DEF FreshInv
<1>10. CASE ~(runs /\ KindOf[id] \in ValueTicks)
  <2>1. Typed'
    BY <1>1, <1>6, <1>8, <1>10 DEF Typed
  <2>2. \A x \in FrameIds : ~dirty'[x] /\ Claimed(x) => ~dirty[x]
    <3> SUFFICES ASSUME NEW x \in FrameIds, ~dirty'[x], Claimed(x)
                 PROVE  ~dirty[x]
      OBVIOUS
    <3>1. x \in Id
      BY <1>1, PlanFacts
    <3>2. CASE x = id
      BY <1>3, <1>10, <3>2 DEF Claimed
    <3>3. CASE x # id
      BY <1>1, <1>6, <1>10, <3>1, <3>3 DEF Typed
    <3> QED  BY <3>2, <3>3
  <2>3. CleanIsFresh'
    BY <1>1, <1>6, <1>10, <2>2, QuietKeepsFresh
  <2> QED  BY <1>7, <2>1, <2>3 DEF FreshInv
<1> QED  BY <1>9, <1>10

\* A block touches the states of block nodes, and drives params on their side.
LEMMA BlocksKeepFresh ==
  ASSUME FreshInv, PlayBlock
  PROVE  FreshInv'
<1>1. Planned /\ Typed /\ CleanIsFresh
  BY DEF FreshInv
<1>2. param' = Latched /\ UNCHANGED <<doc, plan, pend, out, dirty, cell>>
  BY DEF PlayBlock
<1>3. PICK played : kernel' = [id \in Id |-> IF id \in BlockIds THEN played.kernel[id]
                                            ELSE kernel[id]]
  BY DEF PlayBlock
<1>4. Planned'
  BY <1>1, <1>2 DEF Planned
<1>5. Typed'
  <2>1. param' = [id \in Id |-> param'[id]] /\ kernel' = [id \in Id |-> kernel'[id]]
    BY <1>2, <1>3 DEF Latched
  <2>2. \A id \in Id \ BlockIds : kernel'[id] = kernel[id]
    BY <1>3
  <2> QED  BY <1>1, <1>2, <2>1, <2>2 DEF Typed, BlockIds
<1>6. CleanIsFresh'
  <2> SUFFICES ASSUME NEW x \in FrameIds
               PROVE  kernel'[x] = kernel[x] /\ param'[x] = param[x]
    BY <1>1, <1>2, QuietKeepsFresh
  <2>1. x \in Id /\ x \notin BlockIds
    BY <1>1, PlanFacts
  <2>2. ~HasSource(Wires("param"), x)
    <3>1. PICK params : params = plan.wiring["param"]
      OBVIOUS
    <3>2. \A e \in Members(params) : e.dst # x
      BY <1>1, <3>1, PlanFacts DEF Cut, FrameIds
    <3>3. Sources(params, x) = {}
      BY <3>2 DEF Sources, Pairs
    <3> QED  BY <3>1, <3>3 DEF HasSource, Wires
  <2>3. param'[x] = param[x]
    BY <1>2, <2>1, <2>2 DEF Latched
  <2> QED  BY <1>3, <2>1, <2>3
<1> QED  BY <1>4, <1>5, <1>6 DEF FreshInv

\* The end of a block publishes snapshots, which are not claimed.
LEMMA SnapshotsKeepFresh ==
  ASSUME FreshInv, BlockEnds
  PROVE  FreshInv'
<1>1. Planned /\ Typed /\ CleanIsFresh
  BY DEF FreshInv
<1>2. UNCHANGED <<doc, plan, param, kernel, pend, out, dirty>> /\ cell' = [id \in Id |-> cell'[id]]
  BY DEF BlockEnds, states
<1>3. Planned' /\ Typed'
  BY <1>1, <1>2 DEF Planned, Typed, BlockIds
<1>4. CleanIsFresh'
  BY <1>1, <1>2, QuietKeepsFresh
<1> QED  BY <1>3, <1>4 DEF FreshInv

-----------------------------------------------------------------------------
\* No step lets a clean node go stale.
LEMMA FreshSteps ==
  ASSUME FreshInv, [Next]_vars
  PROVE  FreshInv'
<1>1. CASE \E id \in Id, v \in {0, 1} : SetParam(id, v)
  BY <1>1, WritesKeepFresh
<1>2. CASE \E d \in Played : Rebuild(d)
  BY <1>2, RebuildsKeepFresh
<1>3. CASE \E id \in Id : Bang(id)
  BY <1>3, BangsKeepFresh
<1>4. CASE EmitOne
  BY <1>4, EmittersKeepFresh
<1>5. CASE TickOne
  BY <1>5, TicksKeepFresh
<1>6. CASE PlayBlock
  BY <1>6, BlocksKeepFresh
<1>7. CASE BlockEnds
  BY <1>7, SnapshotsKeepFresh
<1>8. CASE Drained \/ BeginEmit \/ PassEnds \/ FrameEnds \/ Measured \/ UNCHANGED vars
  <2>1. UNCHANGED <<doc, plan, states, cells>>
    BY <1>8 DEF Drained, BeginEmit, PassEnds, FrameEnds, Measured, vars, states, cells
  <2>2. UNCHANGED <<doc, plan, param, kernel, pend, out, dirty, cell>>
    BY <2>1 DEF states, cells
  <2>3. Planned /\ Typed /\ CleanIsFresh
    BY DEF FreshInv
  <2>4. Planned' /\ Typed'
    BY <2>2, <2>3 DEF Planned, Typed, BlockIds
  <2>5. CleanIsFresh'
    BY <2>2, <2>3, QuietKeepsFresh
  <2> QED  BY <2>4, <2>5 DEF FreshInv
<1> QED  BY <1>1, <1>2, <1>3, <1>4, <1>5, <1>6, <1>7, <1>8 DEF Next, Pumping

\* At first every node is dirty.
LEMMA FreshInit == Init => FreshInv
<1> SUFFICES ASSUME Init  PROVE FreshInv
  OBVIOUS
<1>1. Planned
  BY DEF Init, Planned
<1>2. Typed
  <2>1. 0 \in Nat /\ 0 \in 0..MaxCount
    BY PumpAssumption
  <2> QED  BY <2>1 DEF Init, Typed
<1>3. \A id \in Id : dirty[id]
  BY DEF Init
<1>4. CleanIsFresh
  BY <1>1, <1>3, PlanFacts DEF CleanIsFresh
<1> QED  BY <1>1, <1>2, <1>4 DEF FreshInv

\* exec_plan::pump_block, "lazy but never stale": whatever writes, bangs and
\* rebuilds come between blocks, a frame node that is not dirty shows the value
\* it would compute, for any documents, vocabulary and bounds.
THEOREM CleanNodesAreFresh == Spec => []CleanIsFresh
<1>1. FreshInv /\ [Next]_vars => FreshInv'
  BY FreshSteps
<1>2. FreshInv => CleanIsFresh
  BY DEF FreshInv
<1> QED  BY <1>1, <1>2, FreshInit, PTL DEF Spec

-----------------------------------------------------------------------------
(* Downstream                                                              *)

\* Sets that grow within V for as many rounds as V has members: either one round
\* adds nothing, or in the end they are all of V.
LEMMA GrowthEnds ==
  ASSUME NEW V, IsFiniteSet(V), NEW N \in Nat, Cardinality(V) <= N,
         NEW f \in [0..N -> SUBSET V], \A n \in 1..N : f[n - 1] \subseteq f[n]
  PROVE  (\E n \in 1..N : f[n] = f[n - 1]) \/ f[N] = V
<1> SUFFICES ASSUME \A n \in 1..N : f[n] # f[n - 1]
             PROVE  f[N] = V
  OBVIOUS
<1>1. Cardinality(V) \in Nat
  BY FS_CardinalityType
<1>2. \A S \in SUBSET V : /\ IsFiniteSet(S) /\ Cardinality(S) \in Nat
                          /\ Cardinality(S) <= Cardinality(V)
                          /\ Cardinality(S) = Cardinality(V) => S = V
  BY FS_Subset, FS_CardinalityType
<1> DEFINE P == {n \in 0..N : n <= Cardinality(f[n])}
<1>3. 0 \in P
  BY <1>2
<1>4. ASSUME NEW n \in 1..N, n - 1 \in P  PROVE n \in P
  <2>1. n \in 0..N /\ n - 1 \in 0..N /\ n - 1 <= Cardinality(f[n - 1])
    BY <1>4
  <2>2. PICK S, R : S = f[n - 1] /\ R = f[n] /\ S \subseteq R /\ S # R /\ R \in SUBSET V
    BY <2>1
  <2>3. IsFiniteSet(R) /\ Cardinality(R) \in Nat /\ Cardinality(S) \in Nat
    BY <1>2, <2>2
  <2>4. Cardinality(S) <= Cardinality(R) /\ (Cardinality(S) = Cardinality(R) => S = R)
    BY <2>2, <2>3, FS_Subset
  <2>5. n <= Cardinality(R)
    BY <2>1, <2>2, <2>3, <2>4
  <2> QED  BY <2>1, <2>2, <2>5
<1> HIDE DEF P
<1>5. 0..N \subseteq P
  BY <1>3, <1>4, Along
<1>6. N <= Cardinality(f[N]) /\ f[N] \in SUBSET V
  BY <1>5 DEF P
<1> QED  BY <1>1, <1>2, <1>6
\* Where wires that join nodes of V lead from V.
Closed(edges, R) == \A id \in R : Targets(edges, id) \subseteq R

\* The rounds that follow the wires from S.
Reaches(f, edges, S, N) ==
  f = [n \in 0..N |-> IF n = 0 THEN S
                      ELSE f[n - 1] \cup UNION {Targets(edges, id) : id \in f[n - 1]}]

\* Down, on lists: the rounds that follow the wires end in the least closed set.
LEMMA FollowedToTheEnd ==
  ASSUME NEW V, IsFiniteSet(V), NEW N \in Nat, Cardinality(V) <= N,
         NEW edges, Closed(edges, V), NEW S \in SUBSET V, NEW reach, Reaches(reach, edges, S, N)
  PROVE  /\ S \subseteq reach[N] /\ reach[N] \subseteq V
         /\ Closed(edges, reach[N])
         /\ \A R : S \subseteq R /\ Closed(edges, R) => reach[N] \subseteq R
<1> DEFINE grow(R) == R \cup UNION {Targets(edges, id) : id \in R}
<1>1. \A n \in 0..N : reach[n] = IF n = 0 THEN S ELSE grow(reach[n - 1])
  BY DEF Reaches
<1>2. \A R : R \subseteq grow(R)
  OBVIOUS
<1>3. \A R : Closed(edges, R) <=> grow(R) = R
  BY DEF Closed
<1>4. \A Q, R : Q \subseteq R => grow(Q) \subseteq grow(R)
  OBVIOUS
<1> HIDE DEF grow
<1>5. reach[0] = S /\ \A n \in 1..N : n \in 0..N /\ n - 1 \in 0..N /\ reach[n] = grow(reach[n - 1])
  <2>1. 0 \in 0..N /\ \A n \in 1..N : n \in 0..N /\ n - 1 \in 0..N /\ n # 0
    OBVIOUS
  <2> HIDE DEF grow
  <2> QED  BY <1>1, <2>1
<1>6. ASSUME NEW R, S \subseteq R, Closed(edges, R)
      PROVE  \A n \in 0..N : reach[n] \subseteq R
  <2> DEFINE P == {n \in 0..N : reach[n] \subseteq R}
  <2>1. 0 \in P
    BY <1>5, <1>6
  <2>2. \A n \in 1..N : n - 1 \in P => n \in P
    <3> SUFFICES ASSUME NEW n \in 1..N, n - 1 \in P  PROVE n \in P
      OBVIOUS
    <3>1. reach[n] = grow(reach[n - 1]) /\ reach[n - 1] \subseteq R
      BY <1>5
    <3>2. reach[n] \subseteq grow(R)
      BY <1>4, <3>1
    <3> QED  BY <1>3, <1>5, <1>6, <3>2
  <2> HIDE DEF P
  <2>3. 0..N \subseteq P
    BY <2>1, <2>2, Along
  <2> QED  BY <2>3 DEF P
<1>7. \A n \in 0..N : reach[n] \subseteq V
  BY <1>6
<1>8. \A n \in 1..N : reach[n - 1] \subseteq reach[n]
  BY <1>2, <1>5
<1>9. \A n \in 0..N : S \subseteq reach[n]
  <2> DEFINE P == {n \in 0..N : S \subseteq reach[n]}
  <2>1. 0 \in P
    BY <1>5
  <2>2. \A n \in 1..N : n - 1 \in P => n \in P
    BY <1>8
  <2> HIDE DEF P
  <2>3. 0..N \subseteq P
    BY <2>1, <2>2, Along
  <2> QED  BY <2>3 DEF P
<1>10. Closed(edges, reach[N])
  <2>1. reach = [n \in 0..N |-> reach[n]]
    BY DEF Reaches
  <2>2. reach \in [0..N -> SUBSET V]
    BY <1>7, <2>1
  <2>3. CASE reach[N] = V
    BY <2>3
  <2>4. CASE \E n \in 1..N : reach[n] = reach[n - 1]
    <3>1. PICK b \in 1..N : reach[b] = reach[b - 1]
      BY <2>4
    <3>2. grow(reach[b]) = reach[b]
      BY <1>5, <3>1
    <3> DEFINE P == {n \in 0..N : n >= b => reach[n] = reach[b]}
    <3>3. 0 \in P
      OBVIOUS
    <3>4. ASSUME NEW n \in 1..N, n - 1 \in P  PROVE n \in P
      <4>1. CASE n - 1 >= b
        BY <1>5, <3>2, <3>4, <4>1
      <4>2. CASE n = b
        BY <1>5, <4>2
      <4> QED  BY <1>5, <4>1, <4>2
    <3> HIDE DEF P
    <3>5. 0..N \subseteq P
      BY <3>3, <3>4, Along
    <3>6. N \in P /\ N >= b
      BY <3>5
    <3>7. reach[N] = reach[b]
      BY <3>6 DEF P
    <3> QED  BY <1>3, <3>2, <3>7
  <2> QED  BY <1>8, <2>2, <2>3, <2>4, GrowthEnds
<1> QED  BY <1>6, <1>7, <1>9, <1>10

\* Down, of a plan.
Follow(p, S) ==
  LET grow(R) == R \cup UNION {Targets(p.wiring["cell"], id) : id \in R}
      reach[n \in 0..Len(p.frames)] == IF n = 0 THEN S ELSE grow(reach[n - 1])
  IN  reach[Len(p.frames)]

LEMMA DownFollows == \A S : Down(S) = Follow(plan, S)
BY DEF Down, Follow, Wires

\* The frame nodes of a plan are closed under its value wires.
LEMMA FramesAreClosed ==
  ASSUME NEW d \in Docs, NEW p, p = Built(d)
  PROVE  /\ p.frames \in Seq(Id) /\ p.wiring["cell"] \in Seq(Edge)
         /\ IsFiniteSet(Members(p.frames)) /\ Cardinality(Members(p.frames)) <= Len(p.frames)
         /\ \A id : Targets(p.wiring["cell"], id) \subseteq Members(p.frames)
<1>1. Cut(p)
  BY BuiltIsCut
<1>2. p.frames \in Seq(Id) /\ p.wiring["cell"] \in Seq(Edge)
  BY <1>1 DEF Cut, Carriers
<1>3. \A e \in Members(p.wiring["cell"]) : e.dst \in Members(p.frames)
  BY WiresJoinFrames
<1>4. \A id : Targets(p.wiring["cell"], id) \subseteq Members(p.frames)
  BY <1>3 DEF Targets, Pairs
<1> QED  BY <1>2, <1>4, MembersAreFew

\* Follow is the least set that holds S and is closed under the value wires.
LEMMA FollowIsClosure ==
  ASSUME NEW d \in Docs, NEW p, p = Built(d), NEW S \in SUBSET Members(p.frames)
  PROVE  /\ S \subseteq Follow(p, S) /\ Follow(p, S) \subseteq Members(p.frames)
         /\ Closed(p.wiring["cell"], Follow(p, S))
         /\ \A R : S \subseteq R /\ Closed(p.wiring["cell"], R) => Follow(p, S) \subseteq R
<1>1. PICK V, N, edges : V = Members(p.frames) /\ N = Len(p.frames) /\ edges = p.wiring["cell"]
  OBVIOUS
<1>2. /\ N \in Nat /\ IsFiniteSet(V) /\ Cardinality(V) <= N /\ S \in SUBSET V
      /\ \A id : Targets(edges, id) \subseteq V
  BY <1>1, FramesAreClosed
<1>3. Closed(edges, V)
  BY <1>2 DEF Closed
<1> DEFINE grow(R) == R \cup UNION {Targets(edges, id) : id \in R}
           step == [w \in (1..N) \X SUBSET V |-> grow(w[2])]
<1>4. \A R \in SUBSET V : grow(R) \in SUBSET V
  BY <1>2
<1>5. \E f : Reaches(f, edges, S, N)
  <2> HIDE DEF grow
  <2>1. step \in [(1..N) \X SUBSET V -> SUBSET V]
    BY <1>4
  <2>2. \A n \in 1..N, R \in SUBSET V : step[<<n, R>>] = grow(R)
    OBVIOUS
  <2> HIDE DEF step
  <2>3. PICK f \in [0..N -> SUBSET V] : Rounds(f, N, S, step)
    BY <1>2, <2>1, RoundsExist
  <2>4. \A n \in 0..N : f[n] = IF n = 0 THEN S ELSE step[<<n, f[n - 1]>>]
    BY <2>3 DEF Rounds
  <2>5. \A n \in 0..N : n # 0 => n \in 1..N /\ n - 1 \in 0..N
    BY <1>2
  <2>6. \A n \in 0..N : n # 0 => step[<<n, f[n - 1]>>] = grow(f[n - 1])
    BY <2>2, <2>3, <2>5
  <2>7. f = [n \in 0..N |-> IF n = 0 THEN S ELSE grow(f[n - 1])]
    BY <2>3, <2>4, <2>6
  <2>8. Reaches(f, edges, S, N)
    BY <2>7 DEF Reaches, grow
  <2> QED  BY <2>8
<1> DEFINE reach == CHOOSE f : Reaches(f, edges, S, N)
<1>6. Reaches(reach, edges, S, N)
  BY <1>5
<1>7. Follow(p, S) = reach[N]
  BY <1>1 DEF Follow, Reaches
<1> HIDE DEF reach, grow, step
<1>9. /\ S \subseteq reach[N] /\ reach[N] \subseteq V /\ Closed(edges, reach[N])
      /\ \A R : S \subseteq R /\ Closed(edges, R) => reach[N] \subseteq R
  BY <1>2, <1>3, <1>6, FollowedToTheEnd
<1> QED  BY <1>1, <1>7, <1>9

-----------------------------------------------------------------------------
(* The frame order                                                         *)

Distinct(s) == \A i, j \in 1..Len(s) : s[i] = s[j] => i = j

\* The sources of the node at i come before it.
Led(s, wires, i) == \A w \in wires : w[2] = s[i] => \E j \in 1..Len(s) : j < i /\ s[j] = w[1]

\* What part of a scan makes of the order it began with.
Scanned(s, order, nodes, wires) ==
  /\ Len(order) <= Len(s)
  /\ \A i \in 1..Len(order) : s[i] = order[i]
  /\ Members(s) \subseteq Members(order) \cup Members(nodes)
  /\ Distinct(order) => Distinct(s)
  /\ \A i \in 1..Len(s) : Len(order) < i => Led(s, wires, i)

\* A node waits for a source that is not taken.
Waits(s, wires, id) == \E w \in wires : w[2] = id /\ w[1] \notin Members(s)

\* One node more of it.
LEMMA TakenKeepsScanned ==
  ASSUME NEW T, NEW order \in Seq(T), NEW nodes \in Seq(T), NEW wires, NEW s \in Seq(T),
         Scanned(s, order, nodes, wires), NEW x \in T, x \in Members(nodes), x \notin Members(s),
         ~Waits(s, wires, x)
  PROVE  Append(s, x) \in Seq(T) /\ Scanned(Append(s, x), order, nodes, wires)
<1> DEFINE a == Append(s, x)
<1>1. /\ a \in Seq(T) /\ Len(a) = Len(s) + 1 /\ Len(s) \in Nat /\ Len(order) \in Nat
      /\ \A i \in 1..Len(s) : a[i] = s[i]
      /\ a[Len(s) + 1] = x
      /\ Members(a) = Members(s) \cup {x}
  BY AppendProperties, MembersOfAppend
<1> HIDE DEF a
<1>2. /\ Len(order) <= Len(s)
      /\ \A i \in 1..Len(order) : s[i] = order[i]
      /\ Members(s) \subseteq Members(order) \cup Members(nodes)
      /\ Distinct(order) => Distinct(s)
      /\ \A i \in 1..Len(s) : Len(order) < i => Led(s, wires, i)
  BY DEF Scanned
<1>3. \A i \in 1..Len(a) : i # Len(s) + 1 => i \in 1..Len(s)
  BY <1>1
<1>4. Len(order) <= Len(a) /\ \A i \in 1..Len(order) : a[i] = order[i]
  BY <1>1, <1>2
<1>5. Members(a) \subseteq Members(order) \cup Members(nodes)
  BY <1>1, <1>2
<1>6. \A i \in 1..Len(s) : s[i] # x
  BY DEF Members
<1>7. ASSUME Distinct(s)  PROVE Distinct(a)
  <2> SUFFICES ASSUME NEW i \in 1..Len(a), NEW j \in 1..Len(a), a[i] = a[j]
               PROVE  i = j
    BY DEF Distinct
  <2>1. CASE i # Len(s) + 1 /\ j # Len(s) + 1
    BY <1>1, <1>3, <1>7, <2>1 DEF Distinct
  <2>2. CASE i = Len(s) + 1 /\ j # Len(s) + 1
    BY <1>1, <1>3, <1>6, <2>2
  <2>3. CASE i # Len(s) + 1 /\ j = Len(s) + 1
    BY <1>1, <1>3, <1>6, <2>3
  <2> QED  BY <2>1, <2>2, <2>3
<1>8. ASSUME NEW i \in 1..Len(a), Len(order) < i, NEW w \in wires, w[2] = a[i]
      PROVE  \E j \in 1..Len(a) : j < i /\ a[j] = w[1]
  <2>1. CASE i # Len(s) + 1
    <3>1. i \in 1..Len(s) /\ a[i] = s[i]
      BY <1>1, <1>3, <2>1
    <3>2. PICK j \in 1..Len(s) : j < i /\ s[j] = w[1]
      BY <1>2, <1>8, <3>1 DEF Led
    <3>3. j \in 1..Len(a) /\ a[j] = s[j]
      BY <1>1
    <3> QED  BY <3>2, <3>3
  <2>2. CASE i = Len(s) + 1
    <3>1. w[2] = x
      BY <1>1, <1>8, <2>2
    <3>2. w[1] \in Members(s)
      BY <3>1 DEF Waits
    <3>3. PICK j \in DOMAIN s : s[j] = w[1]
      BY <3>2 DEF Members
    <3>4. j \in 1..Len(s) /\ j \in 1..Len(a) /\ j < i
      BY <1>1, <2>2
    <3>5. a[j] = s[j]
      BY <1>1, <3>4
    <3> QED  BY <3>3, <3>4, <3>5
  <2> QED  BY <2>1, <2>2
<1>9. Scanned(a, order, nodes, wires)
  BY <1>2, <1>4, <1>5, <1>7, <1>8 DEF Scanned, Led
<1> QED  BY <1>1, <1>9 DEF a

\* The rounds of a scan.
Scans(f, order, nodes, wires) ==
  f = [n \in 0..Len(nodes) |->
         IF n = 0 THEN order
         ELSE IF nodes[n] \notin Members(f[n - 1])
                 /\ \A w \in wires : w[2] = nodes[n] => w[1] \in Members(f[n - 1])
              THEN Append(f[n - 1], nodes[n]) ELSE f[n - 1]]

LEMMA ScansExist ==
  ASSUME NEW T, NEW order \in Seq(T), NEW nodes \in Seq(T), NEW wires
  PROVE  \E f : Scans(f, order, nodes, wires)
<1>1. PICK N \in Nat : N = Len(nodes) /\ \A n \in 1..N : nodes[n] \in T
  OBVIOUS
<1> DEFINE ready(s, n) == nodes[n] \notin Members(s)
                          /\ \A w \in wires : w[2] = nodes[n] => w[1] \in Members(s)
           take(s, n) == IF ready(s, n) THEN Append(s, nodes[n]) ELSE s
           step == [w \in (1..N) \X Seq(T) |-> take(w[2], w[1])]
<1>2. \A n \in 1..N, s \in Seq(T) : take(s, n) \in Seq(T)
  <2> HIDE DEF ready
  <2> QED  BY <1>1, AppendProperties
<1> HIDE DEF take
<1>3. step \in [(1..N) \X Seq(T) -> Seq(T)]
  BY <1>2
<1>4. \A n \in 1..N, s \in Seq(T) : step[<<n, s>>] = take(s, n)
  OBVIOUS
<1> HIDE DEF step
<1>5. PICK f \in [0..N -> Seq(T)] : Rounds(f, N, order, step)
  BY <1>3, RoundsExist
<1>6. \A n \in 0..N : f[n] = IF n = 0 THEN order ELSE step[<<n, f[n - 1]>>]
  BY <1>5 DEF Rounds
<1>7. \A n \in 0..N : n # 0 => n \in 1..N /\ n - 1 \in 0..N
  OBVIOUS
<1>8. \A n \in 0..N : n # 0 => step[<<n, f[n - 1]>>] = take(f[n - 1], n)
  BY <1>4, <1>5, <1>7
<1>9. f = [n \in 0..N |-> IF n = 0 THEN order ELSE take(f[n - 1], n)]
  BY <1>5, <1>6, <1>8
<1>10. Scans(f, order, nodes, wires)
  BY <1>1, <1>9 DEF Scans, take
<1> QED  BY <1>10

\* OneScan: the order goes on with nodes whose sources are before them, and a
\* node that is not taken waits for a source that was not.
LEMMA OneScanTakes ==
  ASSUME NEW T, NEW order \in Seq(T), NEW nodes \in Seq(T), NEW wires,
         NEW r, r = OneScan(order, nodes, wires)
  PROVE  /\ r \in Seq(T) /\ Scanned(r, order, nodes, wires)
         /\ \A id \in Members(nodes) \ Members(r) : Waits(order, wires, id)
<1>1. PICK N \in Nat : N = Len(nodes) /\ DOMAIN nodes = 1..N /\ \A n \in 1..N : nodes[n] \in T
  OBVIOUS
<1>2. PICK f : Scans(f, order, nodes, wires) /\ r = f[N]
  <2> DEFINE f == CHOOSE g : Scans(g, order, nodes, wires)
  <2>1. Scans(f, order, nodes, wires)
    BY ScansExist
  <2>2. r = f[N]
    BY <1>1 DEF OneScan, Scans
  <2> HIDE DEF f
  <2> QED  BY <2>1, <2>2
<1>3. \A n \in 0..N : f[n] = IF n = 0 THEN order
                             ELSE IF nodes[n] \notin Members(f[n - 1]) /\ ~Waits(f[n - 1], wires, nodes[n])
                                  THEN Append(f[n - 1], nodes[n]) ELSE f[n - 1]
  BY <1>1, <1>2 DEF Scans, Waits
<1> DEFINE P == {n \in 0..N : /\ f[n] \in Seq(T) /\ Scanned(f[n], order, nodes, wires)
                              /\ \A i \in 1..n : nodes[i] \notin Members(f[n]) =>
                                   Waits(order, wires, nodes[i])}
<1>4. 0 \in P
  <2>1. f[0] = order /\ 0 \in 0..N /\ 1..0 = {}
    BY <1>3
  <2>2. Scanned(order, order, nodes, wires)
    BY DEF Scanned
  <2> QED  BY <2>1, <2>2
<1>5. ASSUME NEW n \in 1..N, n - 1 \in P  PROVE n \in P
  <2>1. n \in 0..N /\ n # 0 /\ nodes[n] \in T /\ nodes[n] \in Members(nodes)
    BY <1>1 DEF Members
  <2>2. PICK s : s = f[n - 1]
    OBVIOUS
  <2>3. /\ s \in Seq(T) /\ Scanned(s, order, nodes, wires)
        /\ \A i \in 1..(n - 1) : nodes[i] \notin Members(s) => Waits(order, wires, nodes[i])
    BY <1>5, <2>2
  <2>4. \A i \in 1..n : i # n => i \in 1..(n - 1)
    OBVIOUS
  <2>5. CASE nodes[n] \notin Members(s) /\ ~Waits(s, wires, nodes[n])
    <3>1. f[n] = Append(s, nodes[n])
      BY <1>3, <2>1, <2>2, <2>5
    <3>2. f[n] \in Seq(T) /\ Scanned(f[n], order, nodes, wires)
      BY <2>1, <2>3, <2>5, <3>1, TakenKeepsScanned
    <3>3. Members(f[n]) = Members(s) \cup {nodes[n]}
      BY <2>1, <2>3, <3>1, MembersOfAppend
    <3>4. \A i \in 1..n : nodes[i] \notin Members(f[n]) => Waits(order, wires, nodes[i])
      BY <2>3, <2>4, <3>3
    <3> QED  BY <2>1, <3>2, <3>4
  <2>6. CASE ~(nodes[n] \notin Members(s) /\ ~Waits(s, wires, nodes[n]))
    <3>1. f[n] = s
      BY <1>3, <2>1, <2>2, <2>6
    <3>2. Members(order) \subseteq Members(s)
      <4>1. DOMAIN order = 1..Len(order) /\ DOMAIN s = 1..Len(s) /\ Len(order) \in Nat /\ Len(s) \in Nat
        BY <2>3
      <4> QED  BY <2>3, <4>1 DEF Scanned, Members
    <3>3. Waits(s, wires, nodes[n]) => Waits(order, wires, nodes[n])
      BY <3>2 DEF Waits
    <3>4. \A i \in 1..n : nodes[i] \notin Members(f[n]) => Waits(order, wires, nodes[i])
      BY <2>3, <2>4, <2>6, <3>1, <3>3
    <3> QED  BY <2>1, <2>3, <3>1, <3>4
  <2> QED  BY <2>5, <2>6
<1> HIDE DEF P
<1>6. 0..N \subseteq P
  BY <1>4, <1>5, Along
<1>7. N \in P
  BY <1>6
<1>8. /\ r \in Seq(T) /\ Scanned(r, order, nodes, wires)
      /\ \A i \in 1..N : nodes[i] \notin Members(r) => Waits(order, wires, nodes[i])
  BY <1>2, <1>7 DEF P
<1> QED  BY <1>1, <1>8 DEF Members

\* The orders after each scan of them.
Orders(f, nodes, wires) ==
  f = [n \in 0..Len(nodes) |-> IF n = 0 THEN << >> ELSE OneScan(f[n - 1], nodes, wires)]

LEMMA OrdersExist ==
  ASSUME NEW T, NEW nodes \in Seq(T), NEW wires
  PROVE  \E f : Orders(f, nodes, wires)
<1>1. PICK N \in Nat : N = Len(nodes)
  OBVIOUS
<1> DEFINE step == [w \in (1..N) \X Seq(T) |-> OneScan(w[2], nodes, wires)]
<1>2. \A s \in Seq(T) : OneScan(s, nodes, wires) \in Seq(T)
  BY OneScanTakes
<1>3. step \in [(1..N) \X Seq(T) -> Seq(T)]
  BY <1>2
<1>4. \A n \in 1..N, s \in Seq(T) : step[<<n, s>>] = OneScan(s, nodes, wires)
  OBVIOUS
<1> HIDE DEF step
<1>5. << >> \in Seq(T)
  OBVIOUS
<1>6. PICK f \in [0..N -> Seq(T)] : Rounds(f, N, << >>, step)
  BY <1>3, <1>5, RoundsExist
<1>7. \A n \in 0..N : f[n] = IF n = 0 THEN << >> ELSE step[<<n, f[n - 1]>>]
  BY <1>6 DEF Rounds
<1>8. \A n \in 0..N : n # 0 => n \in 1..N /\ n - 1 \in 0..N
  OBVIOUS
<1>9. \A n \in 0..N : n # 0 => step[<<n, f[n - 1]>>] = OneScan(f[n - 1], nodes, wires)
  BY <1>4, <1>6, <1>8
<1>10. f = [n \in 0..N |-> IF n = 0 THEN << >> ELSE OneScan(f[n - 1], nodes, wires)]
  BY <1>6, <1>7, <1>9
<1>11. Orders(f, nodes, wires)
  BY <1>1, <1>10 DEF Orders
<1> QED  BY <1>11

\* An order in which every node of the list that is missing waits for another.
Stuck(s, nodes, wires) == \A id \in Members(nodes) \ Members(s) : Waits(s, wires, id)

\* A scan adds nothing to it; and an order to which a scan adds nothing is one.
LEMMA StuckAddsNothing ==
  ASSUME NEW T, NEW order \in Seq(T), NEW nodes \in Seq(T), NEW wires, Distinct(order),
         NEW r, r = OneScan(order, nodes, wires)
  PROVE  /\ Members(order) \subseteq Members(r)
         /\ Members(r) = Members(order) <=> Stuck(order, nodes, wires)
<1>1. /\ r \in Seq(T) /\ Scanned(r, order, nodes, wires)
      /\ \A id \in Members(nodes) \ Members(r) : Waits(order, wires, id)
  BY OneScanTakes
<1>2. /\ DOMAIN order = 1..Len(order) /\ Len(order) \in Nat
      /\ DOMAIN r = 1..Len(r) /\ Len(r) \in Nat
  BY <1>1
<1>3. Members(order) \subseteq Members(r)
  BY <1>1, <1>2 DEF Scanned, Members
<1>4. Members(r) = Members(order) => Stuck(order, nodes, wires)
  BY <1>1 DEF Stuck
<1>5. ASSUME Stuck(order, nodes, wires)  PROVE Members(r) = Members(order)
  <2>1. ASSUME Len(order) < Len(r)  PROVE FALSE
    <3>1. PICK i : i = Len(order) + 1
      OBVIOUS
    <3>2. i \in 1..Len(r) /\ Len(order) < i
      BY <1>2, <2>1, <3>1
    <3>3. r[i] \notin Members(order)
      <4> SUFFICES ASSUME r[i] \in Members(order)  PROVE FALSE
        OBVIOUS
      <4>1. PICK k \in 1..Len(order) : order[k] = r[i]
        BY <1>2 DEF Members
      <4>2. k \in 1..Len(r) /\ r[k] = r[i] /\ k # i
        BY <1>1, <1>2, <2>1, <3>1, <4>1 DEF Scanned
      <4> QED  BY <1>1, <3>2, <4>2 DEF Scanned, Distinct
    <3>4. r[i] \in Members(nodes)
      BY <1>1, <1>2, <3>2, <3>3 DEF Scanned, Members
    <3>5. PICK w \in wires : w[2] = r[i] /\ w[1] \notin Members(order)
      BY <1>5, <3>3, <3>4 DEF Stuck, Waits
    <3>6. Led(r, wires, i)
      BY <1>1, <3>2 DEF Scanned
    <3>7. PICK j \in 1..Len(r) : j < i /\ r[j] = w[1]
      BY <3>5, <3>6 DEF Led
    <3>8. j \in 1..Len(order) /\ order[j] = w[1]
      BY <1>1, <1>2, <3>1, <3>7 DEF Scanned
    <3> QED  BY <1>2, <3>5, <3>8 DEF Members
  <2>2. Len(order) <= Len(r) /\ \A i \in 1..Len(order) : r[i] = order[i]
    BY <1>1 DEF Scanned
  <2>3. Len(r) = Len(order)
    <3>1. \A m, n \in Nat : m <= n /\ ~(m < n) => n = m
      OBVIOUS
    <3> QED  BY <1>2, <2>1, <2>2, <3>1, Zenon
  <2> QED  BY <1>2, <2>2, <2>3 DEF Members
<1> QED  BY <1>3, <1>4, <1>5

\* FrameOrder: first nodes whose sources are before them, then those that wait for
\* a source that is not among the first.
LEMMA FrameOrderIs ==
  ASSUME NEW T, NEW nodes \in Seq(T), NEW wires,
         NEW o, o = FrameOrder(nodes, wires)
  PROVE  /\ o \in Seq(T) /\ Members(o) = Members(nodes) /\ Distinct(o)
         /\ \E first \in Seq(T) :
              /\ Stuck(first, nodes, wires)
              /\ \A i \in 1..Len(o) : o[i] \in Members(first) => Led(o, wires, i)
<1>1. PICK N \in Nat : N = Len(nodes)
  OBVIOUS
<1>2. PICK f : Orders(f, nodes, wires) /\ o = ScanAnyway(f[N], nodes)
  <2> DEFINE f == CHOOSE g : Orders(g, nodes, wires)
  <2>1. Orders(f, nodes, wires)
    BY OrdersExist
  <2>2. o = ScanAnyway(f[N], nodes)
    BY <1>1 DEF FrameOrder, Orders
  <2> HIDE DEF f
  <2> QED  BY <2>1, <2>2
<1>3. DOMAIN f = 0..N /\ f[0] = << >>
      /\ \A n \in 1..N : f[n] = OneScan(f[n - 1], nodes, wires)
  <2>1. \A n \in 0..N : f[n] = IF n = 0 THEN << >> ELSE OneScan(f[n - 1], nodes, wires)
    BY <1>1, <1>2 DEF Orders
  <2>2. 0 \in 0..N /\ \A n \in 1..N : n \in 0..N /\ n # 0
    OBVIOUS
  <2> QED  BY <1>1, <1>2, <2>1, <2>2 DEF Orders
<1>4. \A n \in 1..N : n \in 0..N /\ n - 1 \in 0..N
  OBVIOUS
<1> DEFINE Good(s) == /\ s \in Seq(T) /\ Distinct(s) /\ Members(s) \subseteq Members(nodes)
                      /\ \A i \in 1..Len(s) : Led(s, wires, i)
           P == {n \in 0..N : Good(f[n])}
<1>5. 0 \in P
  <2>1. << >> \in Seq(T) /\ Len(<< >>) = 0 /\ Members(<< >>) = {}
    BY DEF Members
  <2>2. Distinct(<< >>)
    BY <2>1 DEF Distinct
  <2>3. Good(<< >>)
    BY <2>1, <2>2
  <2> HIDE DEF Good
  <2> QED  BY <1>3, <2>3
<1>6. ASSUME NEW n \in 1..N, n - 1 \in P  PROVE n \in P
  <2>1. PICK s, r : s = f[n - 1] /\ r = f[n] /\ r = OneScan(s, nodes, wires)
    BY <1>3
  <2>2. s \in Seq(T) /\ Distinct(s) /\ Members(s) \subseteq Members(nodes)
        /\ \A i \in 1..Len(s) : Led(s, wires, i)
    BY <1>6, <2>1
  <2>3. r \in Seq(T) /\ Scanned(r, s, nodes, wires)
    BY <2>1, <2>2, OneScanTakes
  <2>4. Distinct(r) /\ Members(r) \subseteq Members(nodes)
    BY <2>2, <2>3 DEF Scanned
  <2>5. ASSUME NEW i \in 1..Len(r)  PROVE Led(r, wires, i)
    <3>1. CASE Len(s) < i
      BY <2>3, <3>1 DEF Scanned
    <3>2. CASE ~(Len(s) < i)
      <4>1. i \in 1..Len(s) /\ r[i] = s[i] /\ Len(s) <= Len(r) /\ Len(r) \in Nat /\ Len(s) \in Nat
        BY <2>2, <2>3, <3>2 DEF Scanned
      <4>2. \A j \in 1..Len(s) : j \in 1..Len(r) /\ r[j] = s[j]
        BY <2>3, <4>1 DEF Scanned
      <4>3. Led(s, wires, i)
        BY <2>2, <4>1
      <4> QED  BY <4>1, <4>2, <4>3 DEF Led
    <3> QED  BY <3>1, <3>2
  <2>6. Good(r)
    BY <2>3, <2>4, <2>5
  <2> HIDE DEF Good
  <2> QED  BY <1>4, <2>1, <2>6
<1> HIDE DEF P
<1>7. 0..N \subseteq P
  BY <1>5, <1>6, Along
<1>8. \A n \in 0..N : Good(f[n])
  BY <1>7 DEF P
<1> DEFINE taken == [n \in 0..N |-> Members(f[n])]
<1>9. \A n \in 1..N : /\ taken[n - 1] \subseteq taken[n]
                      /\ taken[n] = taken[n - 1] <=> Stuck(f[n - 1], nodes, wires)
  <2> SUFFICES ASSUME NEW n \in 1..N
               PROVE  /\ taken[n - 1] \subseteq taken[n]
                      /\ taken[n] = taken[n - 1] <=> Stuck(f[n - 1], nodes, wires)
    OBVIOUS
  <2>1. f[n - 1] \in Seq(T) /\ Distinct(f[n - 1]) /\ f[n] = OneScan(f[n - 1], nodes, wires)
    BY <1>3, <1>4, <1>8
  <2>2. taken[n] = Members(f[n]) /\ taken[n - 1] = Members(f[n - 1])
    BY <1>4
  <2> HIDE DEF taken, Good
  <2> QED  BY <2>1, <2>2, StuckAddsNothing
<1>10. Stuck(f[N], nodes, wires)
  <2>1. IsFiniteSet(Members(nodes)) /\ Cardinality(Members(nodes)) <= N
    BY <1>1, MembersAreFew
  <2>2. taken \in [0..N -> SUBSET Members(nodes)]
    BY <1>8
  <2>3. N \in 0..N /\ taken[N] = Members(f[N])
    OBVIOUS
  <2>4. \A n \in 0..N : taken[n] = Members(f[n])
    OBVIOUS
  <2> HIDE DEF taken, Good
  <2>5. CASE taken[N] = Members(nodes)
    BY <2>3, <2>5 DEF Stuck
  <2>6. CASE \E n \in 1..N : taken[n] = taken[n - 1]
    <3>1. PICK b \in 1..N : taken[b] = taken[b - 1]
      BY <2>6
    <3> DEFINE Q == {n \in 0..N : n >= b => Stuck(f[n], nodes, wires)}
    <3>2. 0 \in Q
      OBVIOUS
    <3>3. ASSUME NEW n \in 1..N, n - 1 \in Q  PROVE n \in Q
      <4>1. CASE n >= b
        <5>1. Stuck(f[n - 1], nodes, wires)
          <6>1. CASE n = b
            BY <1>9, <3>1, <6>1
          <6>2. CASE n # b
            <7>1. n - 1 >= b
              BY <4>1, <6>2
            <7> QED  BY <3>3, <7>1
          <6> QED  BY <6>1, <6>2
        <5>2. Members(f[n]) = Members(f[n - 1])
          BY <1>4, <1>9, <2>4, <5>1
        <5>3. Stuck(f[n], nodes, wires)
          BY <5>1, <5>2 DEF Stuck, Waits
        <5> QED  BY <1>4, <5>3
      <4> QED  BY <1>4, <4>1
    <3> HIDE DEF Q
    <3>4. 0..N \subseteq Q
      BY <3>2, <3>3, Along
    <3>5. N \in Q /\ N >= b
      BY <3>4
    <3> QED  BY <3>5 DEF Q
  <2> QED  BY <1>9, <2>1, <2>2, <2>5, <2>6, GrowthEnds
<1>11. PICK first : first = f[N] /\ first \in Seq(T) /\ Good(first)
  <2>1. N \in 0..N
    OBVIOUS
  <2> QED  BY <1>8, <2>1
<1>12. o = OneScan(first, nodes, {})
  BY <1>2, <1>11 DEF ScanAnyway
<1>13. o \in Seq(T) /\ Scanned(o, first, nodes, {}) /\ Members(nodes) \subseteq Members(o)
  <2>1. /\ o \in Seq(T) /\ Scanned(o, first, nodes, {})
        /\ \A id \in Members(nodes) \ Members(o) : Waits(first, {}, id)
    BY <1>11, <1>12, OneScanTakes
  <2> QED  BY <2>1 DEF Waits
<1>14. Members(o) = Members(nodes) /\ Distinct(o)
  BY <1>11, <1>13 DEF Scanned
<1>15. /\ Len(first) \in Nat /\ Len(o) \in Nat /\ Len(first) <= Len(o)
       /\ DOMAIN first = 1..Len(first) /\ \A i \in 1..Len(first) : o[i] = first[i]
  BY <1>11, <1>13 DEF Scanned
<1>16. ASSUME NEW i \in 1..Len(o), o[i] \in Members(first)  PROVE Led(o, wires, i)
  <2>1. PICK k \in 1..Len(first) : first[k] = o[i]
    BY <1>15, <1>16 DEF Members
  <2>2. k \in 1..Len(o) /\ o[k] = o[i]
    BY <1>15, <2>1
  <2>3. k = i
    BY <1>14, <2>2 DEF Distinct
  <2>4. Led(first, wires, i)
    BY <1>11, <2>1, <2>3
  <2>5. \A j \in 1..Len(first) : j \in 1..Len(o) /\ o[j] = first[j]
    BY <1>15
  <2> QED  BY <2>1, <2>3, <2>4, <2>5 DEF Led
<1> QED  BY <1>10, <1>11, <1>13, <1>14, <1>16

\* The nodes on a value cycle of a plan, or behind one.
CyclicOf(p) ==
  Follow(p, {id \in Members(p.frames) : id \in Follow(p, Targets(p.wiring["cell"], id))})

LEMMA CyclicIs == Cyclic = CyclicOf(plan)
BY DownFollows DEF Cyclic, OnCycle, After, CyclicOf, FrameIds, Wires

\* What is downstream of a node on a cycle, or behind one, is behind one too.
LEMMA CyclicIsClosed ==
  ASSUME NEW d \in Docs, NEW p, p = Built(d)
  PROVE  /\ CyclicOf(p) \subseteq Members(p.frames)
         /\ Closed(p.wiring["cell"], CyclicOf(p))
         /\ \A id \in Members(p.frames) :
              id \in Follow(p, Targets(p.wiring["cell"], id)) => id \in CyclicOf(p)
         /\ \A id \in CyclicOf(p) : Follow(p, {id}) \subseteq CyclicOf(p)
<1> DEFINE on == {id \in Members(p.frames) : id \in Follow(p, Targets(p.wiring["cell"], id))}
<1>1. on \in SUBSET Members(p.frames) /\ CyclicOf(p) = Follow(p, on)
  BY DEF CyclicOf
<1>2. on \subseteq CyclicOf(p) /\ CyclicOf(p) \subseteq Members(p.frames)
      /\ Closed(p.wiring["cell"], CyclicOf(p))
  <2> HIDE DEF on
  <2> QED  BY <1>1, FollowIsClosure
<1>3. ASSUME NEW id \in CyclicOf(p)  PROVE Follow(p, {id}) \subseteq CyclicOf(p)
  <2>1. {id} \in SUBSET Members(p.frames) /\ {id} \subseteq CyclicOf(p)
    BY <1>2
  <2> HIDE DEF on
  <2> QED  BY <1>2, <2>1, FollowIsClosure
<1> QED  BY <1>2, <1>3

\* Following on from a node that is reached leads nowhere else.
LEMMA FollowOn ==
  ASSUME NEW d \in Docs, NEW p, p = Built(d), NEW S \in SUBSET Members(p.frames),
         NEW id \in Follow(p, S)
  PROVE  /\ id \in Members(p.frames)
         /\ Follow(p, {id}) \subseteq Follow(p, S)
         /\ Follow(p, Targets(p.wiring["cell"], id)) \subseteq Follow(p, S)
<1>1. Follow(p, S) \subseteq Members(p.frames) /\ Closed(p.wiring["cell"], Follow(p, S))
  BY FollowIsClosure
<1>2. {id} \subseteq Follow(p, S) /\ Targets(p.wiring["cell"], id) \subseteq Follow(p, S)
  BY <1>1 DEF Closed
<1>3. {id} \in SUBSET Members(p.frames)
      /\ Targets(p.wiring["cell"], id) \in SUBSET Members(p.frames)
  BY <1>1, <1>2
<1> QED  BY <1>1, <1>2, <1>3, FollowIsClosure

\* Among nodes that all wait for another of them, the furthest upstream is on a cycle.
LEMMA WaitersAreCyclic ==
  ASSUME NEW d \in Docs, NEW p, p = Built(d), NEW U \in SUBSET Members(p.frames),
         \A x \in U : \E s \in U : x \in Targets(p.wiring["cell"], s),
         NEW v \in U
  PROVE  v \in CyclicOf(p)
<1>1. PICK V : V = Members(p.frames) /\ IsFiniteSet(V) /\ Cardinality(V) \in Nat
  BY FramesAreClosed, FS_CardinalityType
<1>2. \A x \in V : /\ x \in Follow(p, {x}) /\ Follow(p, {x}) \subseteq V
                   /\ \A y \in Follow(p, {x}) : Follow(p, {y}) \subseteq Follow(p, {x})
                   /\ Targets(p.wiring["cell"], x) \subseteq Follow(p, {x})
                   /\ Targets(p.wiring["cell"], x) \subseteq V
  <2> SUFFICES ASSUME NEW x \in V
               PROVE  /\ x \in Follow(p, {x}) /\ Follow(p, {x}) \subseteq V
                      /\ \A y \in Follow(p, {x}) : Follow(p, {y}) \subseteq Follow(p, {x})
                      /\ Targets(p.wiring["cell"], x) \subseteq Follow(p, {x})
                      /\ Targets(p.wiring["cell"], x) \subseteq V
    OBVIOUS
  <2>1. {x} \in SUBSET Members(p.frames)
    BY <1>1
  <2>2. /\ {x} \subseteq Follow(p, {x}) /\ Follow(p, {x}) \subseteq V
        /\ Closed(p.wiring["cell"], Follow(p, {x}))
    BY <1>1, <2>1, FollowIsClosure
  <2>3. \A y \in Follow(p, {x}) : Follow(p, {y}) \subseteq Follow(p, {x})
    BY <2>1, FollowOn
  <2> QED  BY <2>2, <2>3 DEF Closed
<1>3. \A x \in V : /\ IsFiniteSet(Follow(p, {x})) /\ Cardinality(Follow(p, {x})) \in Nat
                   /\ Cardinality(Follow(p, {x})) <= Cardinality(V)
  BY <1>1, <1>2, FS_Subset, FS_CardinalityType
<1> DEFINE X == {x \in U : v \in Follow(p, {x})}
           Short(x) == Cardinality(V) - Cardinality(Follow(p, {x}))
<1>4. v \in X /\ X \subseteq V
  BY <1>1, <1>2
<1>5. \A x \in X : Short(x) \in Nat
  BY <1>1, <1>3, <1>4
<1>6. PICK x \in X : \A y \in X : Short(x) <= Short(y)
  <2> DEFINE D == {Short(y) : y \in X}
  <2> HIDE DEF X, Short
  <2>1. D \subseteq Nat /\ D # {}
    BY <1>4, <1>5
  <2>2. PICK m \in D : \A k \in D : m <= k
    BY <2>1, LeastNatural
  <2> QED  BY <2>2
<1>7. PICK s \in U : x \in Targets(p.wiring["cell"], s)
  OBVIOUS
<1>8. s \in V /\ x \in V /\ x \in Follow(p, {s})
  BY <1>1, <1>2, <1>7
<1>9. Follow(p, {x}) \subseteq Follow(p, {s})
  BY <1>2, <1>8
<1>10. s \in X
  BY <1>9
<1>11. Cardinality(Follow(p, {s})) <= Cardinality(Follow(p, {x}))
  <2>1. Short(x) <= Short(s)
    BY <1>6, <1>10
  <2>2. \A a, b, c \in Nat : c - a <= c - b => b <= a
    OBVIOUS
  <2>3. Cardinality(Follow(p, {x})) \in Nat /\ Cardinality(Follow(p, {s})) \in Nat
    BY <1>3, <1>8
  <2> HIDE DEF X
  <2> QED  BY <1>1, <2>1, <2>2, <2>3
<1>12. Follow(p, {x}) = Follow(p, {s})
  <2>1. PICK A, B : A = Follow(p, {x}) /\ B = Follow(p, {s})
    OBVIOUS
  <2>2. /\ A \in SUBSET B /\ IsFiniteSet(B) /\ Cardinality(B) <= Cardinality(A)
        /\ Cardinality(A) \in Nat /\ Cardinality(B) \in Nat
    BY <1>3, <1>8, <1>9, <1>11, <2>1
  <2>3. Cardinality(A) <= Cardinality(B) /\ (Cardinality(B) = Cardinality(A) => B = A)
    BY <2>2, FS_Subset
  <2>4. Cardinality(B) = Cardinality(A)
    BY <2>2, <2>3
  <2> QED  BY <2>1, <2>3, <2>4
<1>13. s \in Follow(p, {x})
  BY <1>2, <1>8, <1>12
<1>14. s \in Follow(p, Targets(p.wiring["cell"], s))
  <2>1. Targets(p.wiring["cell"], s) \in SUBSET Members(p.frames)
    BY <1>1, <1>2, <1>8
  <2>2. x \in Follow(p, Targets(p.wiring["cell"], s))
    BY <1>7, <2>1, FollowIsClosure
  <2> QED  BY <1>13, <2>1, <2>2, FollowOn
<1>15. s \in CyclicOf(p) /\ Follow(p, {s}) \subseteq CyclicOf(p)
  BY <1>1, <1>8, <1>14, CyclicIsClosed
<1> QED  BY <1>10, <1>15

\* The frame order of a plan.
LEMMA OrderIs ==
  ASSUME NEW d \in Docs, NEW p, p = Built(d)
  PROVE  /\ p.order \in Seq(Id) /\ Members(p.order) = Members(p.frames) /\ Distinct(p.order)
         /\ \E first \in Seq(Id) :
              /\ Stuck(first, p.frames, Pairs(p.wiring["cell"]))
              /\ \A i \in 1..Len(p.order) :
                   p.order[i] \in Members(first) => Led(p.order, Pairs(p.wiring["cell"]), i)
<1>1. p.frames \in Seq(Id)
  BY FramesAreClosed
<1>2. p.order = FrameOrder(p.frames, Pairs(p.wiring["cell"]))
  BY DEF Built
<1> QED  BY <1>1, <1>2, FrameOrderIs

\* A value wire that leads back in the order ends on a cycle or behind one.
LEMMA OrderRunsForward ==
  ASSUME NEW d \in Docs, NEW p, p = Built(d),
         NEW i \in 1..Len(p.order), NEW j \in 1..Len(p.order), i < j,
         p.order[i] \in Targets(p.wiring["cell"], p.order[j])
  PROVE  p.order[i] \in CyclicOf(p)
<1>1. PICK o, edges : o = p.order /\ edges = p.wiring["cell"]
  OBVIOUS
<1>2. PICK wires : wires = Pairs(edges)
  OBVIOUS
<1>3. /\ o \in Seq(Id) /\ Members(o) = Members(p.frames) /\ Distinct(o)
      /\ \E first \in Seq(Id) :
           /\ Stuck(first, p.frames, wires)
           /\ \A k \in 1..Len(o) : o[k] \in Members(first) => Led(o, wires, k)
  BY <1>1, <1>2, OrderIs
<1>4. PICK first \in Seq(Id) :
           /\ Stuck(first, p.frames, wires)
           /\ \A k \in 1..Len(o) : o[k] \in Members(first) => Led(o, wires, k)
  BY <1>3
<1>5. PICK w \in wires : w[1] = o[j] /\ w[2] = o[i]
  BY <1>1, <1>2 DEF Targets
<1>6. o[i] \notin Members(first)
  <2> SUFFICES ASSUME o[i] \in Members(first)  PROVE FALSE
    OBVIOUS
  <2>1. i \in 1..Len(o) /\ j \in 1..Len(o)
    BY <1>1
  <2>2. PICK k \in 1..Len(o) : k < i /\ o[k] = o[j]
    BY <1>4, <1>5, <2>1 DEF Led
  <2>3. k = j
    BY <1>3, <2>1, <2>2 DEF Distinct
  <2> QED  BY <2>2, <2>3
<1> DEFINE U == Members(p.frames) \ Members(first)
<1>7. o[i] \in U
  <2>1. i \in DOMAIN o
    BY <1>1, <1>3
  <2> QED  BY <1>3, <1>6, <2>1 DEF Members
<1>8. ASSUME NEW x \in U  PROVE \E s \in U : x \in Targets(edges, s)
  <2>1. PICK q \in wires : q[2] = x /\ q[1] \notin Members(first)
    BY <1>4 DEF Stuck, Waits
  <2>2. PICK e \in Members(edges) : q = <<e.src, e.dst>>
    BY <1>2, <2>1 DEF Pairs
  <2>3. e.src \in Members(p.frames) /\ q[1] = e.src
    BY <1>1, <2>2, WiresJoinFrames
  <2>4. x \in Targets(edges, q[1])
    BY <1>2, <2>1 DEF Targets
  <2> QED  BY <2>1, <2>3, <2>4
<1> HIDE DEF U
<1>9. U \in SUBSET Members(p.frames)
  BY DEF U
<1>10. o[i] \in CyclicOf(p)
  BY <1>1, <1>7, <1>8, <1>9, WaitersAreCyclic
<1> QED  BY <1>1, <1>10

\* What is downstream of a node ticks after it, unless it is on a cycle or behind one.
LEMMA DownstreamIsLater ==
  ASSUME NEW d \in Docs, NEW p, p = Built(d),
         NEW i \in 1..Len(p.order), NEW x \in Follow(p, {p.order[i]}), x \notin CyclicOf(p)
  PROVE  \E j \in 1..Len(p.order) : i <= j /\ p.order[j] = x
<1>1. PICK o, edges : o = p.order /\ edges = p.wiring["cell"]
  OBVIOUS
<1>2. /\ o \in Seq(Id) /\ Members(o) = Members(p.frames) /\ i \in 1..Len(o)
      /\ DOMAIN o = 1..Len(o) /\ Len(o) \in Nat
  <2>1. o \in Seq(Id) /\ Members(o) = Members(p.frames) /\ i \in 1..Len(o)
    BY <1>1, OrderIs
  <2> QED  BY <2>1
<1> DEFINE S == CyclicOf(p) \cup {y \in Members(p.frames) : \E j \in 1..Len(o) : i <= j /\ o[j] = y}
<1>3. \A y \in Members(p.frames) : \E k \in 1..Len(o) : o[k] = y
  BY <1>2 DEF Members
<1>4. o[i] \in Members(p.frames) /\ {o[i]} \subseteq S
  <2>1. o[i] \in Members(p.frames)
    BY <1>2 DEF Members
  <2>2. i \in 1..Len(o) /\ i <= i
    BY <1>2
  <2> QED  BY <2>1, <2>2
<1>5. ASSUME NEW y \in S  PROVE Targets(edges, y) \subseteq S
  <2>1. CASE y \in CyclicOf(p)
    <3>1. Targets(edges, y) \subseteq CyclicOf(p)
      BY <1>1, <2>1, CyclicIsClosed DEF Closed
    <3> QED  BY <3>1
  <2>2. CASE y \notin CyclicOf(p)
    <3>1. PICK j \in 1..Len(o) : i <= j /\ o[j] = y
      BY <2>2
    <3>2. Targets(edges, y) \subseteq Members(p.frames)
      BY <1>1, FramesAreClosed
    <3> SUFFICES ASSUME NEW z \in Targets(edges, y)  PROVE z \in S
      OBVIOUS
    <3>3. PICK k \in 1..Len(o) : o[k] = z
      BY <1>3, <3>2
    <3>4. CASE k < j
      BY <1>1, <3>1, <3>3, <3>4, OrderRunsForward
    <3>5. CASE ~(k < j)
      <4>1. i <= k
        BY <1>2, <3>1, <3>5
      <4> QED  BY <3>2, <3>3, <4>1
    <3> QED  BY <3>4, <3>5
  <2> QED  BY <2>1, <2>2
<1>6. Closed(edges, S)
  BY <1>5 DEF Closed
<1>7. x \in S
  <2>1. {o[i]} \in SUBSET Members(p.frames)
    BY <1>4
  <2> HIDE DEF S
  <2>2. Follow(p, {o[i]}) \subseteq S
    BY <1>1, <1>4, <1>6, <2>1, FollowIsClosure
  <2> QED  BY <1>1, <2>2
<1> QED  BY <1>1, <1>7

-----------------------------------------------------------------------------
(* The frame settles                                                       *)

\* What is downstream of a dirty node, and not on or behind a cycle, is due.
Cone == \A id \in FrameIds : dirty[id] => Down({id}) \ Cyclic \subseteq due

\* The nodes that have had their turn in this frame are clean.
Swept ==
  /\ at \in Nat \ {0}
  /\ pc = "frame" =>
       \A k \in 1..Len(plan.order) :
         k < at /\ plan.order[k] \notin Cyclic => ~dirty[plan.order[k]]

\* The inductive invariant.
SettleInv == FreshInv /\ Cone /\ Swept

\* The nodes downstream of frame nodes, in a state.
LEMMA DownIs ==
  ASSUME Planned
  PROVE  /\ \A S \in SUBSET FrameIds :
              /\ S \subseteq Down(S) /\ Down(S) \subseteq FrameIds
              /\ \A id \in Down(S) :
                   /\ Down({id}) \subseteq Down(S)
                   /\ Down(Targets(Wires("cell"), id)) \subseteq Down(S)
         /\ Cyclic \subseteq FrameIds /\ \A id \in Cyclic : Down({id}) \subseteq Cyclic
         /\ \A id \in FrameIds : id \in After(id) => id \in Cyclic
         /\ \A how \in {"cell", "event"} : \A id : Targets(Wires(how), id) \subseteq FrameIds
<1>1. doc \in Docs /\ plan = Built(doc) /\ FrameIds = Members(plan.frames)
      /\ Wires("cell") = plan.wiring["cell"]
  BY DEF Planned, FrameIds, Wires
<1>2. ASSUME NEW S \in SUBSET FrameIds
      PROVE  /\ S \subseteq Down(S) /\ Down(S) \subseteq FrameIds
             /\ \A id \in Down(S) :
                  /\ Down({id}) \subseteq Down(S)
                  /\ Down(Targets(Wires("cell"), id)) \subseteq Down(S)
  <2>1. S \subseteq Follow(plan, S) /\ Follow(plan, S) \subseteq FrameIds
    BY <1>1, FollowIsClosure
  <2>2. \A id \in Follow(plan, S) :
           /\ Follow(plan, {id}) \subseteq Follow(plan, S)
           /\ Follow(plan, Targets(plan.wiring["cell"], id)) \subseteq Follow(plan, S)
    BY <1>1, FollowOn
  <2> QED  BY <1>1, <2>1, <2>2, DownFollows
<1>3. Cyclic \subseteq FrameIds /\ \A id \in Cyclic : Down({id}) \subseteq Cyclic
  BY <1>1, DownFollows, CyclicIs, CyclicIsClosed
<1>4. \A id \in FrameIds : id \in After(id) => id \in Cyclic
  BY <1>1, DownFollows, CyclicIs, CyclicIsClosed DEF After
<1>5. \A how \in {"cell", "event"} : \A id : Targets(Wires(how), id) \subseteq FrameIds
  <2> SUFFICES ASSUME NEW how \in {"cell", "event"}, NEW id
               PROVE  Targets(plan.wiring[how], id) \subseteq FrameIds
    BY DEF Wires
  <2>1. \A e \in Members(plan.wiring[how]) : e.dst \in FrameIds
    BY <1>1, WiresJoinFrames
  <2> QED  BY <2>1 DEF Targets, Pairs
<1> QED  BY <1>2, <1>3, <1>4, <1>5

\* A step that keeps the plan keeps what is downstream of what.
LEMMA DownStays ==
  ASSUME plan' = plan
  PROVE  /\ \A S : Down(S)' = Down(S)
         /\ Cyclic' = Cyclic /\ FrameIds' = FrameIds
<1>1. \A S : Down(S)' = Follow(plan', S)
  BY DEF Down, Follow, Wires
<1>2. \A S : Down(S)' = Down(S)
  BY <1>1, DownFollows
<1>3. Cyclic' = CyclicOf(plan')
  BY <1>1 DEF Cyclic, OnCycle, After, CyclicOf, FrameIds, Wires
<1> QED  BY <1>2, <1>3, CyclicIs DEF FrameIds

\* Who is struck is due, and all that is downstream of it.
LEMMA StrikesKeepCone ==
  ASSUME Planned, Cone, plan' = plan, NEW struck \in SUBSET FrameIds,
         \A x \in FrameIds : dirty'[x] => dirty[x] \/ x \in struck,
         due' = due \cup Down(struck)
  PROVE  Cone'
<1>1. /\ \A S : Down(S)' = Down(S)
      /\ Cyclic' = Cyclic /\ FrameIds' = FrameIds
  BY DownStays
<1> SUFFICES ASSUME NEW x \in FrameIds, dirty'[x]  PROVE Down({x}) \ Cyclic \subseteq due'
  BY <1>1 DEF Cone
<1>2. CASE dirty[x]
  BY <1>2 DEF Cone
<1>3. CASE x \in struck
  <2>1. Down({x}) \subseteq Down(struck)
    BY <1>3, DownIs
  <2> QED  BY <2>1
<1> QED  BY <1>2, <1>3

\* A step outside the frame tick that keeps the plan, the marks and what is due.
LEMMA QuietKeepsCone ==
  ASSUME Cone, plan' = plan, dirty' = dirty, due' = due
  PROVE  Cone'
BY DownStays DEF Cone

\* The turn of a node in the frame.  It is clean afterwards, and the nodes that it
\* wakes come later or lie on or behind a cycle.
LEMMA TicksSettle ==
  ASSUME SettleInv, TickOne
  PROVE  Cone' /\ Swept'
<1>1. /\ Planned /\ Typed /\ Cone /\ pc = "frame" /\ at \in Nat \ {0}
      /\ \A k \in 1..Len(plan.order) :
           k < at /\ plan.order[k] \notin Cyclic => ~dirty[plan.order[k]]
  BY DEF SettleInv, FreshInv, Swept, TickOne
<1>2. /\ \A S : Down(S)' = Down(S)
      /\ Cyclic' = Cyclic /\ FrameIds' = FrameIds
  BY DownStays DEF TickOne
<1>3. /\ plan.order \in Seq(Id) /\ Members(plan.order) = FrameIds
      /\ at \in 1..Len(plan.order) /\ FrameIds \subseteq Id
  <2>1. plan.order \in Seq(Id) /\ Members(plan.order) = FrameIds
    BY <1>1, OrderIs DEF Planned, FrameIds
  <2>2. at \in DOMAIN plan.order /\ DOMAIN plan.order = 1..Len(plan.order)
    BY <2>1 DEF TickOne
  <2> QED  BY <1>1, <2>1, <2>2, PlanFacts
<1>4. PICK id : id = plan.order[at] /\ id \in FrameIds
  BY <1>3 DEF Members
<1>5. PICK woken : woken = Targets(Wires("cell"), id) /\ woken \in SUBSET FrameIds
  BY <1>1, DownIs
<1>6. \A k \in 1..Len(plan.order) :
         k < at /\ plan.order[k] \in woken => plan.order[k] \in Cyclic
  <2> SUFFICES ASSUME NEW k \in 1..Len(plan.order), k < at, plan.order[k] \in woken
               PROVE  plan.order[k] \in CyclicOf(plan)
    BY CyclicIs
  <2> QED  BY <1>1, <1>3, <1>4, <1>5, OrderRunsForward DEF Planned, Wires
<1>7. PICK marked \in SUBSET woken :
        /\ \A x \in Id : dirty'[x] => x # id /\ (dirty[x] \/ x \in marked)
        /\ dirty' \in [Id -> BOOLEAN]
        /\ due \ {id} \subseteq due'
        /\ marked = {} \/ dirty[id] \/ After(id) \subseteq due'
  <2>1. CASE /\ KindOf[id] \in AlwaysTicks \/ dirty[id]
             /\ KindOf[id] \in ValueTicks
    <3>1. /\ dirty' = [x \in Id |-> (dirty[x] \/ x \in woken) /\ x # id]
          /\ due' = (due \ {id}) \cup (IF KindOf[id] \in AlwaysTicks THEN After(id) ELSE {})
      BY <1>4, <1>5, <2>1 DEF TickOne, Wakes, Rests
    <3>2. dirty' \in [Id -> BOOLEAN]
      BY <1>1, <3>1 DEF Typed
    <3>3. \A x \in Id : dirty'[x] => x # id /\ (dirty[x] \/ x \in woken)
      BY <3>1
    <3>4. dirty[id] \/ After(id) \subseteq due'
      BY <2>1, <3>1
    <3>5. due \ {id} \subseteq due'
      BY <3>1
    <3> QED  BY <3>2, <3>3, <3>4, <3>5
  <2>2. CASE ~(/\ KindOf[id] \in AlwaysTicks \/ dirty[id]
               /\ KindOf[id] \in ValueTicks)
    <3>1. /\ dirty' = [dirty EXCEPT ![id] = FALSE]
          /\ due' = due \/ due' = due \ {id}
      BY <1>4, <2>2 DEF TickOne
    <3>2. dirty' \in [Id -> BOOLEAN] /\ \A x \in Id : dirty'[x] => x # id /\ dirty[x]
      BY <1>1, <3>1 DEF Typed
    <3>3. {} \in SUBSET woken /\ due \ {id} \subseteq due'
      BY <3>1
    <3> QED  BY <3>2, <3>3
  <2> QED  BY <2>1, <2>2
<1>8. Swept'
  <2>1. at' = at + 1 /\ plan' = plan
    BY DEF TickOne
  <2> SUFFICES ASSUME NEW k \in 1..Len(plan.order), k < at + 1, plan.order[k] \notin Cyclic,
                      dirty'[plan.order[k]]
               PROVE  FALSE
    BY <1>1, <1>2, <2>1 DEF Swept
  <2>2. plan.order[k] \in Id
    BY <1>3
  <2>3. k # at
    BY <1>4, <1>7, <2>2
  <2>4. k < at
    BY <1>1, <2>3
  <2> QED  BY <1>1, <1>6, <1>7, <2>2, <2>4
<1>9. Cone'
  <2> SUFFICES ASSUME NEW x \in FrameIds, dirty'[x], NEW y \in Down({x}), y \notin Cyclic
               PROVE  y \in due'
    BY <1>2 DEF Cone
  <2>1. x \in Id /\ x # id /\ (dirty[x] \/ x \in marked)
    BY <1>3, <1>7
  <2>2. x \notin Cyclic
    BY <1>1, DownIs
  <2>3. CASE dirty[x]
    <3>1. y \in due
      BY <2>3, <1>1 DEF Cone
    <3>2. y # id
      <4> SUFFICES ASSUME y = id  PROVE FALSE
        OBVIOUS
      <4>1. PICK k \in 1..Len(plan.order) : plan.order[k] = x
        BY <1>3 DEF Members
      <4>2. ~(k < at)
        BY <1>1, <2>2, <2>3, <4>1
      <4>3. PICK j \in 1..Len(plan.order) : k <= j /\ plan.order[j] = id
        BY <1>1, <4>1, DownFollows, CyclicIs, DownstreamIsLater DEF Planned
      <4>4. j = at
        BY <1>1, <1>3, <1>4, <4>3, OrderIs DEF Planned, Distinct
      <4>5. k = at
        BY <1>1, <4>2, <4>3, <4>4
      <4> QED  BY <1>4, <2>1, <4>1, <4>5
    <3> QED  BY <1>7, <3>1, <3>2
  <2>4. CASE ~dirty[x]
    <3>1. x \in woken /\ marked # {}
      BY <2>1, <2>4
    <3>2. woken \subseteq Down(woken) /\ After(id) = Down(woken)
      BY <1>1, <1>5, DownIs DEF After
    <3>3. y \in After(id)
      BY <1>1, <1>5, <3>1, <3>2, DownIs
    <3>4. CASE dirty[id]
      <4>1. {id} \in SUBSET FrameIds
        BY <1>4
      <4>2. id \in Down({id})
        BY <1>1, <4>1, DownIs
      <4>3. After(id) \subseteq Down({id})
        BY <1>1, <1>5, <4>1, <4>2, DownIs DEF After
      <4>4. y \in due
        BY <1>1, <1>4, <3>3, <3>4, <4>3 DEF Cone
      <4>5. y # id
        BY <1>1, <1>4, <3>3, DownIs
      <4> QED  BY <1>7, <4>4, <4>5
    <3>5. CASE ~dirty[id]
      BY <1>7, <3>1, <3>3, <3>5
    <3> QED  BY <3>4, <3>5
  <2> QED  BY <2>3, <2>4
<1> QED  BY <1>8, <1>9

\* A rebuild makes every frame node due.
LEMMA RebuildsSettle ==
  ASSUME SettleInv, NEW d \in Played, Rebuild(d)
  PROVE  Cone' /\ Swept'
<1>1. d \in Docs /\ plan' = Built(d)
  BY PumpAssumption DEF Rebuild
<1>2. due' = Members(plan'.frames) /\ FrameIds' = Members(plan'.frames)
  BY DEF Rebuild, FrameIds
<1>3. \A S : Down(S)' = Follow(plan', S)
  BY DEF Down, Follow, Wires
<1>4. Cone'
  <2> SUFFICES ASSUME NEW x \in FrameIds'  PROVE Follow(plan', {x}) \subseteq Members(plan'.frames)
    BY <1>2, <1>3 DEF Cone
  <2>1. {x} \in SUBSET Members(plan'.frames)
    BY <1>2
  <2> QED  BY <1>1, <2>1, FollowIsClosure
<1>5. Swept'
  <2>1. at' = at /\ pc' = "events"
    BY DEF Rebuild, loop
  <2> QED  BY <2>1 DEF SettleInv, Swept
<1> QED  BY <1>4, <1>5

\* The turn of an emitter strikes its consumers, or nobody.
LEMMA EmittersSettle ==
  ASSUME SettleInv, EmitOne
  PROVE  Cone' /\ Swept'
<1>1. Planned /\ Cone /\ Swept /\ Typed
  BY DEF SettleInv, FreshInv
<1>2. plan' = plan /\ pc = "emit" /\ pc' = pc /\ at' = at + 1
  BY DEF EmitOne
<1>3. Swept'
  BY <1>1, <1>2 DEF Swept
<1>4. PICK id : id = plan.frames[at]
  OBVIOUS
<1>5. CASE KindOf[id] \in Emitters /\ pend[id] > 0
  <2>1. Emit(id, pend[id])
    BY <1>4, <1>5 DEF EmitOne
  <2>2. PICK struck : struck = Targets(Wires("event"), id)
    OBVIOUS
  <2>3. dirty' = [x \in Id |-> dirty[x] \/ x \in struck] /\ due' = due \cup Down(struck)
    BY <2>1, <2>2 DEF Emit
  <2>4. struck \in SUBSET FrameIds /\ FrameIds \subseteq Id
    BY <1>1, <2>2, DownIs, PlanFacts
  <2>5. \A x \in FrameIds : dirty'[x] => dirty[x] \/ x \in struck
    BY <2>3, <2>4
  <2>6. Cone'
    BY <1>1, <1>2, <2>3, <2>4, <2>5, StrikesKeepCone
  <2> QED  BY <1>3, <2>6
<1>6. CASE ~(KindOf[id] \in Emitters /\ pend[id] > 0)
  <2>1. dirty' = dirty /\ due' = due
    BY <1>4, <1>6 DEF EmitOne
  <2> QED  BY <1>1, <1>2, <1>3, <2>1, QuietKeepsCone
<1> QED  BY <1>5, <1>6

\* Every step keeps what is dirty due, and what has ticked clean.
LEMMA SettleSteps ==
  ASSUME SettleInv, [Next]_vars
  PROVE  SettleInv'
<1>1. Planned /\ Cone /\ Swept /\ Typed /\ FrameIds \subseteq Id
  BY PlanFacts DEF SettleInv, FreshInv
<1>2. FreshInv'
  BY FreshSteps DEF SettleInv
<1>3. CASE \E id \in Id, v \in {0, 1} : SetParam(id, v)
  <2>1. PICK id \in Id, v \in {0, 1} : SetParam(id, v)
    BY <1>3
  <2>2. plan' = plan /\ at' = at /\ pc' = "inlet"
    BY <2>1 DEF SetParam, loop
  <2>3. Swept'
    BY <1>1, <2>2 DEF Swept
  <2>4. CASE id \in FrameIds
    <3>1. dirty' = [dirty EXCEPT ![id] = TRUE] /\ due' = due \cup Down({id})
      BY <2>1, <2>4 DEF SetParam
    <3>2. {id} \in SUBSET FrameIds /\ \A x \in FrameIds : dirty'[x] => dirty[x] \/ x \in {id}
      BY <1>1, <2>4, <3>1 DEF Typed
    <3>3. Cone'
      BY <1>1, <2>2, <3>1, <3>2, StrikesKeepCone
    <3> QED  BY <1>2, <2>3, <3>3 DEF SettleInv
  <2>5. CASE id \notin FrameIds
    <3>1. dirty' = dirty /\ due' = due
      BY <2>1, <2>5 DEF SetParam
    <3>2. Cone'
      BY <1>1, <2>2, <3>1, QuietKeepsCone
    <3> QED  BY <1>2, <2>3, <3>2 DEF SettleInv
  <2> QED  BY <2>4, <2>5
<1>4. CASE \E d \in Played : Rebuild(d)
  BY <1>2, <1>4, RebuildsSettle DEF SettleInv
<1>5. CASE \E id \in Id : Bang(id)
  <2>1. PICK id \in Id : Bang(id)
    BY <1>5
  <2>2. PICK cone : cone = Targets(Wires("event"), id)
    OBVIOUS
  <2>3. /\ plan' = plan /\ at' = at /\ pc' = "events"
        /\ dirty' = [x \in Id |-> dirty[x] \/ x \in cone] /\ due' = due \cup Down(cone)
    BY <2>1, <2>2 DEF Bang, loop
  <2>4. cone \in SUBSET FrameIds
    BY <1>1, <2>2, DownIs
  <2>5. \A x \in FrameIds : dirty'[x] => dirty[x] \/ x \in cone
    BY <1>1, <2>3
  <2>6. Cone'
    BY <1>1, <2>3, <2>4, <2>5, StrikesKeepCone
  <2>7. Swept'
    BY <1>1, <2>3 DEF Swept
  <2> QED  BY <1>2, <2>6, <2>7 DEF SettleInv
<1>6. CASE EmitOne
  BY <1>2, <1>6, EmittersSettle DEF SettleInv
<1>7. CASE TickOne
  BY <1>2, <1>7, TicksSettle DEF SettleInv
<1>8. CASE PassEnds
  <2>1. plan' = plan /\ dirty' = dirty /\ due' = due /\ at' = 1
    BY <1>8 DEF PassEnds, cells
  <2>2. Cone'
    BY <1>1, <2>1, QuietKeepsCone
  <2>3. Swept'
    BY <2>1 DEF Swept
  <2> QED  BY <1>2, <2>2, <2>3 DEF SettleInv
<1>9. CASE Drained \/ BeginEmit \/ FrameEnds \/ PlayBlock \/ Measured \/ BlockEnds
  <2>1. /\ plan' = plan /\ dirty' = dirty /\ due' = due
        /\ pc' # "frame" /\ (at' = at \/ at' = 1)
    BY <1>9 DEF Drained, BeginEmit, FrameEnds, PlayBlock, Measured, BlockEnds, cells, loop
  <2>2. Cone'
    BY <1>1, <2>1, QuietKeepsCone
  <2>3. Swept'
    BY <1>1, <2>1 DEF Swept
  <2> QED  BY <1>2, <2>2, <2>3 DEF SettleInv
<1>10. CASE UNCHANGED vars
  <2>1. plan' = plan /\ dirty' = dirty /\ due' = due /\ pc' = pc /\ at' = at
    BY <1>10 DEF vars, cells, loop
  <2>2. Cone'
    BY <1>1, <2>1, QuietKeepsCone
  <2>3. Swept'
    BY <1>1, <2>1, <2>2, DownStays DEF Swept
  <2> QED  BY <1>2, <2>2, <2>3 DEF SettleInv
<1> QED  BY <1>3, <1>4, <1>5, <1>6, <1>7, <1>8, <1>9, <1>10 DEF Next, Pumping

\* At first every frame node is dirty, and due.
LEMMA SettleInit == Init => SettleInv
<1> SUFFICES ASSUME Init  PROVE SettleInv
  OBVIOUS
<1>1. FreshInv /\ Planned
  BY FreshInit DEF FreshInv
<1>2. due = FrameIds /\ at = 1 /\ pc \in {"inlet", "idle"}
  BY DEF Init
<1>3. \A x \in FrameIds : Down({x}) \subseteq FrameIds
  BY <1>1, DownIs
<1>4. Cone
  BY <1>2, <1>3 DEF Cone
<1>5. Swept
  BY <1>2 DEF Swept
<1> QED  BY <1>1, <1>4, <1>5 DEF SettleInv

\* Once every node has had its turn, what is off the cycles is clean.
LEMMA SweptIsSettled ==
  ASSUME SettleInv
  PROVE  OnlyConeIsDirty /\ (FrameEnds => \A id \in FrameIds \ Cyclic : ~dirty[id])
<1>1. Planned /\ Cone /\ Swept
  BY DEF SettleInv, FreshInv
<1>2. OnlyConeIsDirty
  <2> SUFFICES ASSUME NEW id \in FrameIds \ Cyclic, dirty[id]  PROVE id \in due
    BY DEF OnlyConeIsDirty
  <2>1. {id} \in SUBSET FrameIds
    OBVIOUS
  <2>2. id \in Down({id})
    BY <1>1, <2>1, DownIs
  <2> QED  BY <1>1, <2>2 DEF Cone
<1>3. ASSUME FrameEnds, NEW id \in FrameIds \ Cyclic  PROVE ~dirty[id]
  <2>1. plan.order \in Seq(Id) /\ Members(plan.order) = FrameIds
    BY <1>1, OrderIs DEF Planned, FrameIds
  <2>2. PICK k \in 1..Len(plan.order) : plan.order[k] = id
    BY <2>1 DEF Members
  <2>3. pc = "frame" /\ at \notin 1..Len(plan.order) /\ at \in Nat \ {0}
    BY <1>1, <1>3, <2>1 DEF FrameEnds, Swept
  <2>4. k < at
    BY <2>1, <2>3
  <2> QED  BY <1>1, <2>2, <2>3, <2>4 DEF Swept
<1> QED  BY <1>2, <1>3

\* exec_plan::pump_block, the frame tick: for any documents, only what is
\* downstream of a cause is ever dirty, each node once, and one tick in the order
\* that build_impl computed cleans all of it but the nodes on or behind a value
\* cycle.
THEOREM FramesAlwaysSettle == Spec => FrameSettles
<1>1. SettleInv /\ [Next]_vars => SettleInv'
  BY SettleSteps
<1>2. SettleInv => [/\ OnlyConeIsDirty
                    /\ FrameEnds => \A id \in FrameIds \ Cyclic : ~dirty[id]]_vars
  BY SweptIsSettled
<1> QED  BY <1>1, <1>2, SettleInit, PTL DEF Spec, FrameSettles

-----------------------------------------------------------------------------
(* Chains of emitters                                                      *)

EmittersOf(p) == {id \in Members(p.frames) : KindOf[id] \in Emitters}

\* The emitters that a chain of so many wires leads to.
HopRounds(h, p) ==
  h = [n \in 0..MaxPasses |->
         IF n = 0 THEN EmittersOf(p)
         ELSE (UNION {Targets(p.wiring["event"], id) : id \in h[n - 1]}) \cap EmittersOf(p)]
HopsOf(p) == CHOOSE h : HopRounds(h, p)

LEMMA ShortChainsIs == ShortChains <=> HopsOf(plan)[MaxPasses] = {}
BY DEF ShortChains, HopsOf, HopRounds, EmittersOf, FrameIds, Wires

\* Longer chains lead to fewer emitters.
LEMMA HopsShrink ==
  ASSUME NEW p
  PROVE  /\ HopsOf(p)[0] = EmittersOf(p)
         /\ \A n \in 1..MaxPasses :
              /\ HopsOf(p)[n] =
                   (UNION {Targets(p.wiring["event"], id) : id \in HopsOf(p)[n - 1]}) \cap EmittersOf(p)
              /\ HopsOf(p)[n] \subseteq HopsOf(p)[n - 1]
<1>1. PICK N \in Nat : N = MaxPasses
  BY PumpAssumption
<1> DEFINE hop(R) == (UNION {Targets(p.wiring["event"], id) : id \in R}) \cap EmittersOf(p)
           step == [w \in (1..N) \X SUBSET EmittersOf(p) |-> hop(w[2])]
<1>2. \A R : hop(R) \in SUBSET EmittersOf(p)
  OBVIOUS
<1>3. \A Q, R : Q \subseteq R => hop(Q) \subseteq hop(R)
  OBVIOUS
<1>4. \E h : HopRounds(h, p)
  <2> HIDE DEF hop
  <2>1. step \in [(1..N) \X SUBSET EmittersOf(p) -> SUBSET EmittersOf(p)]
    BY <1>2
  <2>2. \A n \in 1..N, R \in SUBSET EmittersOf(p) : step[<<n, R>>] = hop(R)
    OBVIOUS
  <2> HIDE DEF step
  <2>3. EmittersOf(p) \in SUBSET EmittersOf(p)
    OBVIOUS
  <2>4. PICK f \in [0..N -> SUBSET EmittersOf(p)] : Rounds(f, N, EmittersOf(p), step)
    BY <2>1, <2>3, RoundsExist
  <2>5. \A n \in 0..N : f[n] = IF n = 0 THEN EmittersOf(p) ELSE step[<<n, f[n - 1]>>]
    BY <2>4 DEF Rounds
  <2>6. \A n \in 0..N : n # 0 => n \in 1..N /\ n - 1 \in 0..N
    OBVIOUS
  <2>7. \A n \in 0..N : n # 0 => step[<<n, f[n - 1]>>] = hop(f[n - 1])
    BY <2>2, <2>4, <2>6
  <2>8. f = [n \in 0..N |-> IF n = 0 THEN EmittersOf(p) ELSE hop(f[n - 1])]
    BY <2>4, <2>5, <2>7
  <2>9. HopRounds(f, p)
    BY <1>1, <2>8 DEF HopRounds, hop
  <2> QED  BY <2>9
<1>5. PICK h : h = HopsOf(p) /\ HopRounds(h, p)
  BY <1>4 DEF HopsOf
<1> HIDE DEF step
<1>6. \A n \in 0..N : h[n] = IF n = 0 THEN EmittersOf(p) ELSE hop(h[n - 1])
  BY <1>1, <1>5 DEF HopRounds
<1> HIDE DEF hop
<1>7. h[0] = EmittersOf(p) /\ \A n \in 1..N : n \in 0..N /\ n - 1 \in 0..N /\ h[n] = hop(h[n - 1])
  <2>1. 0 \in 0..N /\ \A n \in 1..N : n \in 0..N /\ n - 1 \in 0..N /\ n # 0
    OBVIOUS
  <2> QED  BY <1>6, <2>1
<1> DEFINE P == {n \in 0..N : n # 0 => h[n] \subseteq h[n - 1]}
<1>8. 0 \in P
  OBVIOUS
<1>9. ASSUME NEW n \in 1..N, n - 1 \in P  PROVE n \in P
  <2>1. CASE n = 1
    BY <1>2, <1>7, <2>1
  <2>2. CASE n # 1
    <3>1. n - 1 \in 1..N /\ n - 1 # 0
      BY <2>2
    <3>2. h[n - 1] \subseteq h[(n - 1) - 1]
      BY <1>9, <3>1
    <3>3. h[n - 1] = hop(h[(n - 1) - 1]) /\ h[n] = hop(h[n - 1])
      BY <1>7, <3>1
    <3> QED  BY <1>3, <1>7, <3>2, <3>3
  <2> QED  BY <2>1, <2>2
<1> HIDE DEF P
<1>10. 0..N \subseteq P
  BY <1>8, <1>9, Along
<1>11. \A n \in 1..N : n # 0 /\ h[n] \subseteq h[n - 1]
  BY <1>7, <1>10 DEF P
<1> QED  BY <1>1, <1>5, <1>7, <1>11 DEF hop

\* The node still has its turn in this pass.
Ahead(id) == \E j \in DOMAIN plan.frames : at <= j /\ plan.frames[j] = id

\* Whatever waits, waits in an emitter; in pass n, in one that a chain of n wires
\* leads to, or else of n - 1 and it still has its turn; and until something is
\* delivered, only in those that do.
WaitsInChain ==
  /\ at \in Nat \ {0}
  /\ \A id \in Id : pend[id] > 0 => id \in EmittersOf(plan)
  /\ pc = "emit" =>
       /\ pass \in 1..MaxPasses
       /\ \A id \in Id : pend[id] > 0 =>
            /\ id \in HopsOf(plan)[pass] \/ (id \in HopsOf(plan)[pass - 1] /\ Ahead(id))
            /\ delivered \/ Ahead(id)

\* The inductive invariant.
ChainInv == FreshInv /\ WaitsInChain

\* An emitter that emits passes on what waits to those one wire further.
LEMMA EmittersKeepChain ==
  ASSUME ChainInv, EmitOne
  PROVE  WaitsInChain'
<1>1. Planned /\ Typed /\ WaitsInChain
  BY DEF ChainInv, FreshInv
<1>2. /\ plan' = plan /\ pc = "emit" /\ pc' = "emit" /\ at' = at + 1 /\ pass' = pass
      /\ at \in Nat \ {0} /\ pass \in 1..MaxPasses
  BY <1>1 DEF EmitOne, WaitsInChain
<1>3. PICK frames : frames = plan.frames /\ frames \in Seq(Id) /\ at \in DOMAIN frames
  BY <1>1, PlanFacts DEF EmitOne, Cut
<1>4. PICK id \in Id : id = frames[at]
  BY <1>3
<1>5. \A x \in Id : x # id => (Ahead(x)' <=> Ahead(x))
  <2>1. DOMAIN frames = 1..Len(frames) /\ Len(frames) \in Nat
    BY <1>3
  <2>2. \A j \in DOMAIN frames : at + 1 <= j <=> at <= j /\ j # at
    BY <1>2, <2>1
  <2> QED  BY <1>2, <1>3, <1>4, <2>2 DEF Ahead
<1>6. CASE KindOf[id] \in Emitters /\ pend[id] > 0
  <2>1. Emit(id, pend[id])
    BY <1>3, <1>4, <1>6 DEF EmitOne
  <2>2. PICK events : events = Wires("event") /\ events = plan.wiring["event"]
    BY DEF Wires
  <2>3. PICK struck : struck = Targets(events, id)
    OBVIOUS
  <2> DEFINE into(x) == IF x \in struck THEN pend[id] * Count(events, id, x) ELSE 0
  <2>4. /\ pend' = [x \in Id |-> IF x = id THEN 0
                                 ELSE IF KindOf[x] = "draw" THEN Least(pend[x] + into(x), MaxCount)
                                 ELSE pend[x]]
        /\ delivered' = (delivered \/ struck # {})
    BY <2>1, <2>2, <2>3 DEF Emit
  <2>5. struck \subseteq FrameIds
    BY <1>1, <2>2, <2>3, DownIs
  <2>6. id \in HopsOf(plan)[pass - 1]
    <3>1. HopsOf(plan)[pass] \subseteq HopsOf(plan)[pass - 1]
      BY <1>2, HopsShrink
    <3> QED  BY <1>1, <1>2, <1>6, <3>1 DEF WaitsInChain
  <2>7. ASSUME NEW x \in Id, pend'[x] > 0
        PROVE  x # id /\ (pend[x] > 0 \/ (x \in struck /\ KindOf[x] = "draw"))
    <3>1. 0 < MaxCount /\ MaxCount \in Nat /\ pend[x] \in Nat
      BY <1>1, PumpAssumption DEF Typed
    <3>2. x # id
      <4>1. x = id => pend'[x] = 0
        BY <2>4
      <4> QED  BY <2>7, <4>1
    <3>3. CASE KindOf[x] = "draw" /\ x \notin struck
      <4>1. pend'[x] = Least(pend[x], MaxCount)
        BY <2>4, <3>1, <3>2, <3>3
      <4>2. Least(0, MaxCount) = 0
        BY <3>1 DEF Least
      <4> QED  BY <2>7, <3>1, <3>2, <4>1, <4>2
    <3>4. CASE KindOf[x] # "draw"
      BY <2>4, <2>7, <3>2, <3>4
    <3> QED  BY <3>2, <3>3, <3>4
  <2> HIDE DEF into
  <2>8. ASSUME NEW x \in struck, KindOf[x] = "draw"
        PROVE  x \in EmittersOf(plan) /\ x \in HopsOf(plan)[pass] /\ delivered'
    <3>1. x \in EmittersOf(plan)
      BY <2>5, <2>8 DEF EmittersOf, Emitters, FrameIds
    <3>2. x \in UNION {Targets(events, y) : y \in HopsOf(plan)[pass - 1]}
      BY <2>3, <2>6
    <3>3. HopsOf(plan)[pass] = (UNION {Targets(events, y) : y \in HopsOf(plan)[pass - 1]})
                                \cap EmittersOf(plan)
      BY <1>2, <2>2, HopsShrink
    <3> QED  BY <2>4, <3>1, <3>2, <3>3
  <2>9. ASSUME NEW x \in Id, pend'[x] > 0
        PROVE  /\ x \in EmittersOf(plan)
               /\ x \in HopsOf(plan)[pass] \/ (x \in HopsOf(plan)[pass - 1] /\ Ahead(x)')
               /\ delivered' \/ Ahead(x)'
    <3>1. CASE pend[x] > 0
      BY <1>1, <1>2, <1>5, <2>4, <2>7, <2>9, <3>1 DEF WaitsInChain
    <3>2. CASE x \in struck /\ KindOf[x] = "draw"
      BY <2>8, <3>2
    <3> QED  BY <2>7, <2>9, <3>1, <3>2
  <2> QED  BY <1>2, <2>9 DEF WaitsInChain
<1>7. CASE ~(KindOf[id] \in Emitters /\ pend[id] > 0)
  <2>1. pend' = pend /\ delivered' = delivered
    BY <1>3, <1>4, <1>7 DEF EmitOne
  <2>2. pend[id] > 0 => id \in EmittersOf(plan)
    BY <1>1 DEF WaitsInChain
  <2>3. ~(pend[id] > 0)
    BY <1>7, <2>2 DEF EmittersOf
  <2> QED  BY <1>1, <1>2, <1>5, <2>1, <2>3 DEF WaitsInChain
<1> QED  BY <1>6, <1>7

\* At the beginning of a pass every frame node still has its turn.
LEMMA AllAhead ==
  ASSUME Planned, NEW x \in EmittersOf(plan)
  PROVE  \E j \in DOMAIN plan.frames : 1 <= j /\ plan.frames[j] = x
<1>1. plan.frames \in Seq(Id)
  BY PlanFacts DEF Cut
<1>2. PICK j \in DOMAIN plan.frames : plan.frames[j] = x
  BY DEF EmittersOf, Members
<1> QED  BY <1>1, <1>2

\* At the end of a pass nobody has: what waits is one wire further, and in the
\* last pass, or when nothing was delivered, nothing waits.
LEMMA PassesKeepChain ==
  ASSUME ChainInv, PassEnds
  PROVE  /\ WaitsInChain'
         /\ pc' # "emit" /\ ShortChains => \A id \in Id : pend'[id] = 0
<1>1. Planned /\ Typed /\ WaitsInChain
  BY DEF ChainInv, FreshInv
<1>2. /\ plan' = plan /\ pend' = pend /\ pc = "emit" /\ at' = 1
      /\ at \notin DOMAIN plan.frames /\ at \in Nat \ {0} /\ pass \in 1..MaxPasses
  BY <1>1 DEF PassEnds, states, WaitsInChain
<1>3. \A x : ~Ahead(x)
  <2>1. plan.frames \in Seq(Id)
    BY <1>1, PlanFacts DEF Cut
  <2>2. \A j \in DOMAIN plan.frames : ~(at <= j)
    BY <1>2, <2>1
  <2> QED  BY <2>2 DEF Ahead
<1>4. \A x \in Id : pend[x] > 0 =>
         x \in EmittersOf(plan) /\ x \in HopsOf(plan)[pass] /\ delivered
  BY <1>1, <1>2, <1>3 DEF WaitsInChain
<1>5. CASE EmitAgain
  <2>1. pass' = pass + 1 /\ pc' = pc /\ pass < MaxPasses
    BY <1>5 DEF PassEnds, EmitAgain
  <2>2. pass' \in 1..MaxPasses /\ pass' - 1 = pass
    BY <1>2, <2>1, PumpAssumption
  <2>3. \A x \in EmittersOf(plan) : Ahead(x)'
    BY <1>1, <1>2, AllAhead DEF Ahead
  <2> QED  BY <1>2, <1>4, <2>1, <2>2, <2>3 DEF WaitsInChain
<1>6. CASE ~EmitAgain
  <2>1. pc' \in {"frame", "block"}
    BY <1>6 DEF PassEnds
  <2>2. WaitsInChain'
    BY <1>2, <1>4, <2>1 DEF WaitsInChain
  <2>3. ASSUME ShortChains, NEW x \in Id  PROVE pend'[x] = 0
    <3>1. ~(pend[x] > 0)
      <4> SUFFICES ASSUME pend[x] > 0  PROVE FALSE
        OBVIOUS
      <4>1. x \in HopsOf(plan)[pass] /\ delivered
        BY <1>4
      <4>2. pass = MaxPasses
        BY <1>2, <1>6, <4>1, PumpAssumption DEF EmitAgain
      <4> QED  BY <2>3, <4>1, <4>2, ShortChainsIs
    <3>2. pend[x] \in Nat
      BY <1>1 DEF Typed
    <3> QED  BY <1>2, <3>1, <3>2
  <2> QED  BY <2>2, <2>3
<1> QED  BY <1>2, <1>5, <1>6

\* A rebuild brings what waits home to emitters of the new plan.
LEMMA RebuildsKeepChain ==
  ASSUME ChainInv, NEW d \in Played, Rebuild(d)
  PROVE  WaitsInChain'
<1>1. Planned /\ Typed /\ WaitsInChain
  BY DEF ChainInv, FreshInv
<1>2. FrameIds \cap BlockIds = {}
  BY <1>1, PlanFacts
<1>3. PICK home : /\ home = (FrameIds \cap Members(plan'.frames)) \cup (BlockIds \cap Members(plan'.blocks))
                  /\ pend' = [id \in Id |-> IF id \in home THEN pend[id] ELSE 0]
  BY DEF Rebuild
<1>4. at' = at /\ pc' = "events"
  BY DEF Rebuild, loop
<1>5. ASSUME NEW x \in Id, pend'[x] > 0  PROVE x \in EmittersOf(plan')
  <2>1. pend'[x] = IF x \in home THEN pend[x] ELSE 0
    BY <1>3
  <2>2. x \in home /\ pend[x] > 0
    <3>1. ~(0 > 0)
      OBVIOUS
    <3> QED  BY <1>5, <2>1, <3>1
  <2>3. x \in EmittersOf(plan)
    BY <1>1, <2>2 DEF WaitsInChain
  <2> QED  BY <1>2, <1>3, <2>2, <2>3 DEF EmittersOf, FrameIds
<1> QED  BY <1>1, <1>4, <1>5 DEF WaitsInChain

\* Every step keeps what waits within reach of the passes to come.
LEMMA ChainSteps ==
  ASSUME ChainInv, [Next]_vars
  PROVE  ChainInv'
<1>1. Planned /\ Typed /\ WaitsInChain
  BY DEF ChainInv, FreshInv
<1>2. FreshInv'
  BY FreshSteps DEF ChainInv
<1>3. CASE \E id \in Id, v \in {0, 1} : SetParam(id, v)
  <2>1. plan' = plan /\ pend' = pend /\ at' = at /\ pc' = "inlet"
    BY <1>3 DEF SetParam, loop
  <2> QED  BY <1>1, <1>2, <2>1 DEF ChainInv, WaitsInChain
<1>4. CASE \E d \in Played : Rebuild(d)
  BY <1>2, <1>4, RebuildsKeepChain DEF ChainInv
<1>5. CASE \E id \in Id : Bang(id)
  <2>1. plan' = plan /\ pend' = pend /\ at' = at /\ pc' = "events"
    BY <1>5 DEF Bang, loop
  <2> QED  BY <1>1, <1>2, <2>1 DEF ChainInv, WaitsInChain
<1>6. CASE BeginEmit
  <2>1. plan' = plan /\ pend' = pend /\ at' = 1 /\ pass' = 1
    BY <1>6 DEF BeginEmit, states
  <2>2. pass' \in 1..MaxPasses /\ HopsOf(plan)[0] = EmittersOf(plan) /\ pass' - 1 = 0
    BY <2>1, PumpAssumption, HopsShrink
  <2>3. \A x \in EmittersOf(plan) : Ahead(x)'
    BY <1>1, <2>1, AllAhead DEF Ahead
  <2>4. WaitsInChain'
    BY <1>1, <2>1, <2>2, <2>3 DEF WaitsInChain
  <2> QED  BY <1>2, <2>4 DEF ChainInv
<1>7. CASE EmitOne
  BY <1>2, <1>7, EmittersKeepChain DEF ChainInv
<1>8. CASE PassEnds
  BY <1>2, <1>8, PassesKeepChain DEF ChainInv
<1>9. CASE TickOne
  <2>1. PICK id : id = plan.order[at] /\ id \in FrameIds
    <3>1. plan.order \in Seq(Id) /\ Members(plan.order) = FrameIds
      BY <1>1, OrderIs DEF Planned, FrameIds
    <3> QED  BY <1>9, <3>1 DEF TickOne, Members
  <2>2. /\ plan' = plan /\ at' = at + 1 /\ pc' = "frame"
        /\ pend' = pend \/ (/\ KindOf[id] = "head"
                            /\ pend' = [pend EXCEPT ![id] = Least(@ + 1, MaxCount)])
    BY <1>9, <2>1 DEF TickOne
  <2>3. \A x \in Id : pend'[x] > 0 => pend[x] > 0 \/ (x = id /\ KindOf[id] = "head")
    BY <1>1, <2>2 DEF Typed
  <2>4. KindOf[id] = "head" => id \in EmittersOf(plan)
    BY <2>1 DEF EmittersOf, Emitters, FrameIds
  <2> QED  BY <1>1, <1>2, <2>2, <2>3, <2>4 DEF ChainInv, WaitsInChain
<1>10. CASE Drained \/ FrameEnds \/ PlayBlock \/ Measured \/ BlockEnds
  <2>1. plan' = plan /\ pend' = pend /\ (at' = at \/ at' = 1) /\ pc' # "emit"
    BY <1>10 DEF Drained, FrameEnds, PlayBlock, Measured, BlockEnds, states, loop
  <2> QED  BY <1>1, <1>2, <2>1 DEF ChainInv, WaitsInChain
<1>11. CASE UNCHANGED vars
  <2>1. UNCHANGED <<plan, pend, at, pc, pass, delivered>>
    BY <1>11 DEF vars, states, loop
  <2> QED  BY <1>1, <1>2, <2>1 DEF ChainInv, WaitsInChain, Ahead
<1> QED  BY <1>3, <1>4, <1>5, <1>6, <1>7, <1>8, <1>9, <1>10, <1>11 DEF Next, Pumping

\* exec_plan::pump_block, same-tick propagation: for any documents and any pass
\* bound, a chain of emitters no longer than the bound is empty when the emitters
\* have been polled, in whatever order the document lists them.
THEOREM ChainsAlwaysSettle == Spec => ChainSettles
<1>1. Init => ChainInv
  <2> SUFFICES ASSUME Init  PROVE ChainInv
    OBVIOUS
  <2>1. \A id \in Id : ~(pend[id] > 0)
    BY DEF Init
  <2> QED  BY <2>1, FreshInit DEF ChainInv, WaitsInChain, Init
<1>2. ChainInv /\ [Next]_vars => ChainInv'
  BY ChainSteps
<1>3. ChainInv /\ [Next]_vars =>
        [pc = "emit" /\ pc' # "emit" /\ ShortChains => \A id \in Id : pend'[id] = 0]_vars
  <2> SUFFICES ASSUME ChainInv, Next, pc = "emit", pc' # "emit", ShortChains
               PROVE  \A id \in Id : pend'[id] = 0
    OBVIOUS
  <2>1. PassEnds
    BY DEF Next, Pumping, SetParam, Rebuild, Bang, Drained, BeginEmit, EmitOne, TickOne,
           FrameEnds, PlayBlock, Measured, BlockEnds
  <2> QED  BY <2>1, PassesKeepChain
<1> QED  BY <1>1, <1>2, <1>3, PTL DEF Spec, ChainSettles

-----------------------------------------------------------------------------
(* The overrun ladder                                                      *)

\* The overruns counted are the late blocks at the end of the verdicts.
Ladder ==
  /\ overruns \in 0..3
  /\ verdicts \in Seq(BOOLEAN) /\ Len(verdicts) \in {0, 1, 2}
  /\ overruns >= 1 => Len(verdicts) >= 1 /\ verdicts[Len(verdicts)] = TRUE
  /\ overruns >= 2 => Len(verdicts) = 2 /\ verdicts[1] = TRUE

\* One more verdict after at most two: it comes last, after the last one before.
LEMMA NextVerdict ==
  ASSUME NEW S, NEW v \in Seq(S), NEW e \in S, Len(v) \in {0, 1, 2},
         NEW w, w = LastTwo(Append(v, e))
  PROVE  /\ w \in Seq(S) /\ Len(w) \in {1, 2}
         /\ w[Len(w)] = e
         /\ Len(v) >= 1 => Len(w) = 2 /\ w[1] = v[Len(v)]
<1> DEFINE a == Append(v, e)
<1>1. /\ a \in Seq(S) /\ Len(a) = Len(v) + 1 /\ a # << >>
      /\ a[Len(v) + 1] = e
      /\ \A i \in 1..Len(v) : a[i] = v[i]
  BY AppendProperties
<1>2. w = IF Len(a) <= 2 THEN a ELSE Tail(a)
  BY DEF LastTwo
<1> HIDE DEF a
<1>4. CASE Len(v) \in {0, 1}
  <2>1. w = a
    BY <1>1, <1>2, <1>4
  <2> QED  BY <1>1, <1>4, <2>1
<1>5. CASE Len(v) = 2
  <2>1. Len(a) = 3 /\ w = Tail(a)
    BY <1>1, <1>2, <1>5
  <2>2. w \in Seq(S) /\ Len(w) = 2 /\ \A i \in 1..2 : w[i] = a[i + 1]
    <3>1. /\ Tail(a) \in Seq(S) /\ Len(Tail(a)) = Len(a) - 1
          /\ \A i \in 1..Len(Tail(a)) : Tail(a)[i] = a[i + 1]
      BY <1>1, HeadTailProperties
    <3>2. /\ w \in Seq(S) /\ Len(w) = Len(a) - 1
          /\ \A i \in 1..Len(w) : w[i] = a[i + 1]
      BY <2>1, <3>1, Zenon
    <3>3. Len(w) = 2
      BY <2>1, <3>2
    <3> QED  BY <3>2, <3>3
  <2>4. w[1] = a[2] /\ w[2] = a[3]
    BY <2>2
  <2>5. a[2] = v[2] /\ a[3] = e
    BY <1>1, <1>5
  <2> QED  BY <1>5, <2>2, <2>4, <2>5
<1> QED  BY <1>4, <1>5

\* A block that is late adds to both, one that is not starts over.
LEMMA MeasuredKeepsLadder ==
  ASSUME Ladder, Measured
  PROVE  Ladder'
<1>1. PICK late \in BOOLEAN :
         IF Overruns(late) >= 3 /\ late /\ plan.segments # << >>
         THEN overruns' = 0 /\ verdicts' = << >>
         ELSE overruns' = Overruns(late) /\ verdicts' = LastTwo(Append(verdicts, late))
  BY DEF Measured
<1>2. Overruns(late) = IF ~late THEN 0 ELSE IF overruns + 1 < 3 THEN overruns + 1 ELSE 3
  BY DEF Overruns, Least
<1>3. CASE Overruns(late) >= 3 /\ late /\ plan.segments # << >>
  BY <1>1, <1>3 DEF Ladder
<1>4. CASE ~(Overruns(late) >= 3 /\ late /\ plan.segments # << >>)
  <2>1. overruns' = Overruns(late) /\ verdicts' = LastTwo(Append(verdicts, late))
    BY <1>1, <1>4
  <2>2. /\ verdicts' \in Seq(BOOLEAN) /\ Len(verdicts') \in {1, 2}
        /\ verdicts'[Len(verdicts')] = late
        /\ Len(verdicts) >= 1 => Len(verdicts') = 2 /\ verdicts'[1] = verdicts[Len(verdicts)]
    <3>1. verdicts \in Seq(BOOLEAN) /\ Len(verdicts) \in {0, 1, 2}
      BY DEF Ladder
    <3> QED  BY <2>1, <3>1, NextVerdict
  <2>3. overruns' \in 0..3
    BY <1>2, <2>1 DEF Ladder
  <2>4. overruns' >= 1 => late = TRUE
    BY <1>2, <2>1
  <2>5. overruns' >= 2 => overruns >= 1
    BY <1>2, <2>1 DEF Ladder
  <2>6. overruns' >= 2 => Len(verdicts') = 2 /\ verdicts'[1] = TRUE
    BY <2>2, <2>5 DEF Ladder
  <2> QED  BY <2>2, <2>3, <2>4, <2>6 DEF Ladder
<1> QED  BY <1>3, <1>4

\* Nothing else touches the ladder; a rebuild forgets the mutes and counts on.
LEMMA LadderSteps ==
  ASSUME Ladder, [Next]_vars
  PROVE  Ladder'
<1>1. CASE Measured
  BY <1>1, MeasuredKeepsLadder
<1>2. CASE ~Measured
  <2>1. UNCHANGED <<overruns, verdicts>>
    BY <1>2 DEF Next, Pumping, SetParam, Rebuild, Bang, Drained, BeginEmit, EmitOne, PassEnds,
                TickOne, FrameEnds, PlayBlock, BlockEnds, ladder, vars
  <2> QED  BY <2>1 DEF Ladder
<1> QED  BY <1>1, <1>2

\* A sequence of two is the pair of its elements.
LEMMA PairIs ==
  ASSUME NEW S, NEW s \in Seq(S), NEW a, NEW b, Len(s) = 2, s[1] = a, s[2] = b
  PROVE  s = <<a, b>>
<1>1. s \in [1..2 -> S] /\ DOMAIN s = 1..2
  BY LenProperties
<1>2. 1..2 = {1, 2}
  OBVIOUS
<1> QED  BY <1>1, <1>2

\* A step that mutes is the measurement of a third late block, or a rebuild.
LEMMA MutesAreEarned ==
  ASSUME Ladder, [Next]_vars, muted' # muted, doc' = doc
  PROVE  /\ verdicts = <<TRUE, TRUE>>
         /\ muted \subseteq muted' /\ Cardinality(muted' \ muted) = 1
<1>1. Measured
  <2>1. ~\E d \in Played : Rebuild(d)
    BY DEF Rebuild
  <2> QED  BY <2>1 DEF Next, Pumping, SetParam, Bang, Drained, BeginEmit, EmitOne, PassEnds,
                      TickOne, FrameEnds, PlayBlock, BlockEnds, ladder, vars
<1>2. Overruns(TRUE) >= 3 /\ \E i \in Costliest : muted' = muted \cup {i}
  BY <1>1 DEF Measured
<1>3. overruns >= 2
  BY <1>2 DEF Overruns, Least, Ladder
<1>4. PICK i : muted' = muted \cup {i}
  BY <1>2
<1>5. muted' \ muted = {i}
  BY <1>4
<1>6. Cardinality({i}) = 1
  BY FS_Singleton
<1>7. verdicts = <<TRUE, TRUE>>
  <2>1. verdicts \in Seq(BOOLEAN)
    BY DEF Ladder
  <2>2. Len(verdicts) = 2 /\ verdicts[1] = TRUE
    BY <1>3 DEF Ladder
  <2>3. overruns >= 1
    BY <1>3 DEF Ladder
  <2>4. verdicts[Len(verdicts)] = TRUE
    BY <2>3, Zenon DEF Ladder
  <2>5. verdicts[2] = TRUE
    BY <2>2, <2>4, Zenon
  <2> QED  BY <2>1, <2>2, <2>5, PairIs
<1> QED  BY <1>4, <1>5, <1>6, <1>7

\* exec_plan.cpp:829-845: a segment is muted only by the third late block in a
\* row, none of which has paid for another mute, and one at a time; across
\* rebuilds too, which do not reset the count.
THEOREM MutesAlwaysEarned == Spec => MutedIsEarned
<1>1. Init => Ladder
  BY DEF Init, Ladder
<1>2. Ladder /\ [Next]_vars => Ladder'
  BY LadderSteps
<1>3. Ladder /\ [Next]_vars =>
        [muted' # muted /\ doc' = doc =>
           /\ verdicts = <<TRUE, TRUE>>
           /\ muted \subseteq muted' /\ Cardinality(muted' \ muted) = 1]_vars
  BY MutesAreEarned
<1> QED  BY <1>1, <1>2, <1>3, PTL DEF Spec, MutedIsEarned

-----------------------------------------------------------------------------
(* Tarjan's search                                                         *)

\* One reaches itself, what an edge leads to, and what that reaches.
LEMMA LeadsOn ==
  ASSUME NEW W, NEW V, NEW x, NEW y
  PROVE  /\ Leads(W, V, x, x)
         /\ <<x, y>> \in W => Leads(W, V, x, y)
         /\ \A z : Leads(W, V, x, y) /\ Leads(W, V, y, z) => Leads(W, V, x, z)
<1>1. Leads(W, V, x, x)
  BY DEF Leads
<1>2. ASSUME <<x, y>> \in W  PROVE Leads(W, V, x, y)
  <2> SUFFICES ASSUME NEW U \in SUBSET V, x \in U, \A w \in W : w[1] \in U => w[2] \in U
               PROVE  y \in U
    BY DEF Leads
  <2>1. PICK w \in W : w = <<x, y>>
    BY <1>2
  <2> QED  BY <2>1
<1>3. ASSUME NEW z, Leads(W, V, x, y), Leads(W, V, y, z)  PROVE Leads(W, V, x, z)
  BY <1>3 DEF Leads
<1> QED  BY <1>1, <1>2, <1>3

\* A list and one element more.
LEMMA OneMore ==
  ASSUME NEW V, NEW s \in Seq(V), NEW v \in V
  PROVE  /\ Append(s, v) \in Seq(V) /\ Members(Append(s, v)) = Members(s) \cup {v}
         /\ Len(s) \in Nat /\ DOMAIN s = 1..Len(s)
         /\ Len(Append(s, v)) = Len(s) + 1 /\ DOMAIN Append(s, v) = 1..(Len(s) + 1)
         /\ Append(s, v)[Len(s) + 1] = v
         /\ \A k \in 1..Len(s) : Append(s, v)[k] = s[k]
<1>1. PICK a \in Seq(V) : a = Append(s, v)
  BY AppendProperties
<1>2. Len(s) \in Nat /\ DOMAIN s = 1..Len(s) /\ Len(a) = Len(s) + 1
      /\ a[Len(s) + 1] = v /\ \A k \in 1..Len(s) : a[k] = s[k]
  BY <1>1, AppendProperties
<1>3. Members(a) = Members(s) \cup {v}
  BY <1>1, MembersOfAppend
<1>4. DOMAIN a = 1..(Len(s) + 1)
  BY <1>2
<1> QED  BY <1>1, <1>2, <1>3, <1>4

\* A list without its last element.
LEMMA OffTheTop ==
  ASSUME NEW V, NEW t \in Seq(V), t # << >>
  PROVE  LET u == SubSeq(t, 1, Len(t) - 1)
         IN  /\ u \in Seq(V) /\ DOMAIN u = 1..(Len(t) - 1) /\ Len(u) = Len(t) - 1
             /\ Len(t) \in 1..Len(t) /\ DOMAIN t = 1..Len(t)
             /\ Members(t) = Members(u) \cup {t[Len(t)]}
             /\ \A k \in 1..(Len(t) - 1) : k \in DOMAIN t /\ u[k] = t[k]
<1>1. PICK L \in Nat : L = Len(t) /\ DOMAIN t = 1..L /\ L # 0
  OBVIOUS
<1>2. PICK u : u = SubSeq(t, 1, L - 1)
  OBVIOUS
<1>3. \A k \in 1..(L - 1) : k \in 1..L /\ t[k] \in V /\ k # L
  BY <1>1
<1>4. /\ u \in Seq(V) /\ Len(u) = L - 1 /\ DOMAIN u = 1..(L - 1)
      /\ \A k \in 1..(L - 1) : u[k] = t[k]
  <2>1. u \in [1..(L - 1) -> V] /\ u = [k \in 1..(L - 1) |-> t[k]]
    <3>1. u = [k \in 1..(1 + (L - 1) - 1) |-> t[1 + k - 1]]
      BY <1>2
    <3>2. 1 + (L - 1) - 1 = L - 1 /\ \A k \in 1..(L - 1) : 1 + k - 1 = k
      BY <1>1
    <3> QED  BY <1>3, <3>1, <3>2
  <2>2. L - 1 \in Nat
    BY <1>1
  <2> QED  BY <2>1, <2>2
<1>5. Len(u) = L - 1 /\ DOMAIN u = 1..(L - 1)
  BY <1>4
<1>6. \A k \in 1..(L - 1) : u[k] = t[k]
  BY <1>4
<1>8. L \in 1..L /\ \A k \in 1..L : k = L \/ k \in 1..(L - 1)
  BY <1>1
<1>10. Members(t) = Members(u) \cup {t[L]}
  <2>1. \A k \in 1..L : t[k] \in Members(u) \cup {t[L]}
    BY <1>5, <1>6, <1>8 DEF Members
  <2>2. \A k \in 1..(L - 1) : u[k] \in Members(t)
    BY <1>1, <1>3, <1>6 DEF Members
  <2>3. t[L] \in Members(t)
    BY <1>1, <1>8 DEF Members
  <2> QED  BY <1>1, <1>5, <2>1, <2>2, <2>3 DEF Members
<1> QED  BY <1>1, <1>2, <1>3, <1>4, <1>5, <1>6, <1>8, <1>10

\* The edges of a list join nodes of V.
Joins(V, edges) == \A i \in DOMAIN edges : edges[i].src \in V /\ edges[i].dst \in V

LEMMA EdgeLeads ==
  ASSUME NEW V, NEW edges, NEW i \in DOMAIN edges
  PROVE  Leads(Pairs(edges), V, edges[i].src, edges[i].dst)
<1>1. <<edges[i].src, edges[i].dst>> \in Pairs(edges)
  BY DEF Pairs, Members
<1> QED  BY <1>1, LeadsOn

\* A state s of the search over V.
SearchStates(V, edges) ==
  [num : [V -> Nat], low : [V -> Nat], counter : Nat, stack : SUBSET V, calls : Seq(V),
   left : SUBSET DOMAIN edges, closed : Seq(SUBSET V)]

LEMMA StateIs ==
  ASSUME NEW V, NEW edges, NEW q,
         q = [num |-> q.num, low |-> q.low, counter |-> q.counter, stack |-> q.stack,
              calls |-> q.calls, left |-> q.left, closed |-> q.closed],
         q.num \in [V -> Nat], q.low \in [V -> Nat], q.counter \in Nat, q.stack \in SUBSET V,
         q.calls \in Seq(V), q.left \in SUBSET DOMAIN edges, q.closed \in Seq(SUBSET V)
  PROVE  q \in SearchStates(V, edges)
<1>1. PICK F, P, C, D, Q : /\ F = [V -> Nat] /\ P = SUBSET V /\ C = Seq(V)
                           /\ D = SUBSET DOMAIN edges /\ Q = Seq(SUBSET V)
  OBVIOUS
<1>2. q \in [num : F, low : F, counter : Nat, stack : P, calls : C, left : D, closed : Q]
  BY <1>1
<1> QED  BY <1>1, <1>2 DEF SearchStates

\* What has a number is on the stack, where no two have the same, or closed.
Gone(s) == UNION Members(s.closed)
Numbered(V, s) ==
  /\ s.counter # 0
  /\ \A u \in V : s.num[u] < s.counter /\ (s.num[u] # 0 <=> u \in s.stack \cup Gone(s))
  /\ s.stack \cap Gone(s) = {}
  /\ \A u, w \in s.stack : s.num[u] = s.num[w] => u = w

\* The calls under way are on the stack, in the order of their numbers, the first
\* at the bottom.
Called(s) ==
  /\ Members(s.calls) \subseteq s.stack
  /\ \A j, k \in DOMAIN s.calls : j < k => s.num[s.calls[j]] < s.num[s.calls[k]]
  /\ \A u \in s.stack : s.calls # << >> /\ s.num[s.calls[1]] <= s.num[u]

\* Of nodes whose call is over all edges have been looked at.  What has been looked
\* at leads to no new node, never on from the components closed so far, and
\* among nodes of the stack to no lower number than the link of the first.
Seen(edges, s) ==
  \A i \in DOMAIN edges :
    /\ s.num[edges[i].src] = 0 => i \in s.left
    /\ i \notin s.left => s.num[edges[i].dst] # 0
    /\ s.num[edges[i].src] # 0 /\ edges[i].src \notin Members(s.calls) => i \notin s.left
    /\ i \notin s.left /\ {edges[i].src, edges[i].dst} \subseteq s.stack =>
         s.low[edges[i].src] <= s.num[edges[i].dst]
    /\ \A k \in DOMAIN s.closed : edges[i].src \in s.closed[k] =>
         \E j \in DOMAIN s.closed : j <= k /\ edges[i].dst \in s.closed[j]

\* A link is the number of a node on the stack that its node reaches, a lower one
\* once the call is over.  A call reaches what has been stacked since, and up to the
\* next call no link is lower than its own.
Linked(W, V, s) ==
  /\ \A u \in s.stack :
       /\ s.low[u] <= s.num[u]
       /\ u \notin Members(s.calls) => s.low[u] # s.num[u]
       /\ \E x \in s.stack : s.num[x] = s.low[u] /\ Leads(W, V, u, x)
  /\ \A k \in DOMAIN s.calls : \A u \in s.stack :
       s.num[s.calls[k]] <= s.num[u] =>
         /\ Leads(W, V, s.calls[k], u)
         /\ (\A j \in DOMAIN s.calls : k < j => s.num[u] < s.num[s.calls[j]]) =>
              s.low[s.calls[k]] <= s.low[u]

\* The components: nodes of one reach each other.
Parted(W, V, s) ==
  \A k \in DOMAIN s.closed :
    /\ s.closed[k] # {}
    /\ \A x, y \in s.closed[k] : Leads(W, V, x, y)
    /\ \A j \in DOMAIN s.closed : j # k => s.closed[j] \cap s.closed[k] = {}

Searching(V, edges, s) ==
  /\ s \in SearchStates(V, edges)
  /\ Numbered(V, s) /\ Called(s) /\ Seen(edges, s)
  /\ Linked(Pairs(edges), V, s) /\ Parted(Pairs(edges), V, s)

\* A new node is called: a first one, or the next along an edge.
Calling(V, edges, s, l, x) ==
  /\ x \in V /\ s.num[x] = 0 /\ l \subseteq s.left
  /\ \/ s.calls = << >> /\ l = s.left
     \/ \E i \in s.left : /\ s.calls # << >> /\ edges[i].src = s.calls[Len(s.calls)]
                          /\ edges[i].dst = x /\ l = s.left \ {i}

LEMMA CallKeeps ==
  ASSUME NEW V, NEW edges, Joins(V, edges), NEW s, Searching(V, edges, s),
         NEW x, NEW l, Calling(V, edges, s, l, x)
  PROVE  LET q == Call([s EXCEPT !.left = l], x)
         IN  /\ Searching(V, edges, q)
             /\ \A u \in V : q.num[u] = 0 <=> s.num[u] = 0 /\ u # x
             /\ Len(q.calls) = Len(s.calls) + 1 /\ q.left = l
<1> /\ x \in V /\ s.num[x] = 0 /\ l \in SUBSET s.left
    /\ \/ s.calls = << >> /\ l = s.left
       \/ \E i \in s.left : /\ s.calls # << >> /\ edges[i].src = s.calls[Len(s.calls)]
                            /\ edges[i].dst = x /\ l = s.left \ {i}
  BY DEF Calling
<1>0. PICK W : W = Pairs(edges)
  OBVIOUS
<1>1. PICK num \in [V -> Nat], low \in [V -> Nat], c \in Nat, S \in SUBSET V, calls \in Seq(V),
           closed \in Seq(SUBSET V) :
        /\ s = [num |-> num, low |-> low, counter |-> c, stack |-> S, calls |-> calls,
                left |-> s.left, closed |-> closed]
        /\ s.num = num /\ s.low = low /\ s.counter = c /\ s.stack = S /\ s.calls = calls
        /\ s.closed = closed /\ s.left \in SUBSET DOMAIN edges
  BY DEF Searching, SearchStates
<1>2. PICK q : q = Call([s EXCEPT !.left = l], x)
  OBVIOUS
<1>3. /\ q = [num |-> [num EXCEPT ![x] = c], low |-> [low EXCEPT ![x] = c], counter |-> c + 1,
              stack |-> S \cup {x}, calls |-> Append(calls, x), left |-> l, closed |-> closed]
  BY <1>1, <1>2 DEF Call
<1>4. PICK L \in Nat : L = Len(calls) /\ DOMAIN calls = 1..L
  <2>1. Len(calls) \in Nat /\ DOMAIN calls = 1..Len(calls)
    BY OneMore
  <2> QED  BY <2>1
<1>5. /\ q.calls \in Seq(V) /\ Members(q.calls) = Members(calls) \cup {x}
      /\ DOMAIN q.calls = 1..(L + 1) /\ q.calls[L + 1] = x
      /\ \A k \in 1..L : q.calls[k] = calls[k] /\ k \in 1..(L + 1)
  BY <1>3, <1>4, OneMore
<1>6. /\ q.num \in [V -> Nat] /\ q.num[x] = c /\ \A u \in V : u # x => q.num[u] = num[u]
      /\ q.low \in [V -> Nat] /\ q.low[x] = c /\ \A u \in V : u # x => q.low[u] = low[u]
      /\ q.counter = c + 1 /\ q.stack = S \cup {x} /\ q.left = l /\ q.closed = closed
  BY <1>1, <1>3
<1>7. q \in SearchStates(V, edges)
  <2>1. q = [num |-> q.num, low |-> q.low, counter |-> q.counter, stack |-> q.stack,
             calls |-> q.calls, left |-> q.left, closed |-> q.closed]
    BY <1>3
  <2>2. q.left \in SUBSET DOMAIN edges /\ q.counter \in Nat /\ q.stack \in SUBSET V
        /\ q.closed \in Seq(SUBSET V)
    BY <1>1, <1>6
  <2> QED  BY <1>5, <1>6, <2>1, <2>2, StateIs
<1>8. Numbered(V, s) /\ Called(s) /\ Seen(edges, s) /\ Linked(W, V, s) /\ Parted(W, V, s)
  BY <1>0 DEF Searching
<1>9. x \notin S /\ x \notin Gone(s) /\ Gone(q) = Gone(s) /\ x \notin Members(calls)
  BY <1>1, <1>6, <1>8 DEF Numbered, Gone, Called
<1>10. \A u \in S : u \in V /\ u # x /\ q.num[u] = num[u] /\ q.low[u] = low[u] /\ num[u] < c /\ num[u] # 0
  BY <1>1, <1>6, <1>8, <1>9 DEF Numbered
<1>11. \A k \in 1..L : calls[k] \in S
  BY <1>1, <1>4, <1>8 DEF Called, Members
<1>12. \A k \in 1..(L + 1) : k = L + 1 \/ k \in 1..L
  OBVIOUS
<1>13. c # 0
  BY <1>1, <1>8 DEF Numbered
<1>14. Numbered(V, q)
  BY <1>1, <1>6, <1>8, <1>9, <1>10, <1>13 DEF Numbered
<1>15. L = 0 \/ (L \in 1..L /\ calls # << >>)
  BY <1>4
<1>16. Called(q)
  <2>1. \A j, k \in 1..(L + 1) : j < k => q.num[q.calls[j]] < q.num[q.calls[k]]
    <3> SUFFICES ASSUME NEW j \in 1..(L + 1), NEW k \in 1..(L + 1), j < k
                 PROVE  q.num[q.calls[j]] < q.num[q.calls[k]]
      OBVIOUS
    <3>1. j \in 1..L /\ q.calls[j] = calls[j] /\ calls[j] \in S
      BY <1>5, <1>11
    <3>2. CASE k = L + 1
      <4>1. q.num[q.calls[k]] = c
        BY <1>5, <1>6, <3>2
      <4>2. q.num[q.calls[j]] = num[calls[j]] /\ num[calls[j]] < c
        BY <1>10, <3>1
      <4> QED  BY <4>1, <4>2
    <3>3. CASE k \in 1..L
      <4>1. num[calls[j]] < num[calls[k]]
        BY <1>1, <1>4, <1>8, <3>1, <3>3 DEF Called
      <4> QED  BY <1>5, <1>10, <1>11, <3>1, <3>3, <4>1
    <3> QED  BY <1>12, <3>2, <3>3
  <2>2. Members(q.calls) \subseteq q.stack
    BY <1>1, <1>5, <1>6, <1>8 DEF Called
  <2>3. q.calls # << >>
    BY <1>5
  <2>4. ASSUME NEW u \in S \cup {x}  PROVE q.num[q.calls[1]] <= q.num[u]
    <3>1. CASE L = 0
      <4>1. calls = << >>
        BY <1>4, <3>1
      <4>2. S = {}
        BY <1>1, <1>8, <4>1 DEF Called
      <4> QED  BY <1>5, <1>6, <2>4, <3>1, <4>2
    <3>2. CASE L # 0
      <4>1. 1 \in 1..L /\ q.calls[1] = calls[1] /\ calls # << >>
        BY <1>4, <1>5, <3>2
      <4>2. \A w \in S : num[calls[1]] <= num[w]
        BY <1>1, <1>8, <4>1 DEF Called
      <4>3. q.num[calls[1]] = num[calls[1]] /\ num[calls[1]] < c /\ num[calls[1]] \in Nat
        BY <1>10, <1>11, <4>1
      <4> QED  BY <1>6, <1>10, <2>4, <4>1, <4>2, <4>3
    <3> QED  BY <3>1, <3>2
  <2> QED  BY <1>5, <1>6, <2>1, <2>2, <2>3, <2>4 DEF Called
<1>17. \A i \in s.left \ l : L \in 1..L /\ edges[i].src = calls[L] /\ edges[i].dst = x
  BY <1>1, <1>4, <1>15
<1>18. Seen(edges, q)
  <2> SUFFICES ASSUME NEW i \in DOMAIN edges
               PROVE  /\ q.num[edges[i].src] = 0 => i \in l
                      /\ i \notin l => q.num[edges[i].dst] # 0
                      /\ q.num[edges[i].src] # 0 /\ edges[i].src \notin Members(q.calls) => i \notin l
                      /\ i \notin l /\ {edges[i].src, edges[i].dst} \subseteq S \cup {x} =>
                           q.low[edges[i].src] <= q.num[edges[i].dst]
                      /\ \A k \in DOMAIN closed : edges[i].src \in closed[k] =>
                           \E j \in DOMAIN closed : j <= k /\ edges[i].dst \in closed[j]
    BY <1>6 DEF Seen
  <2>1. PICK u \in V, w \in V : u = edges[i].src /\ w = edges[i].dst
    BY DEF Joins
  <2>2. /\ num[u] = 0 => i \in s.left
        /\ i \notin s.left => num[w] # 0
        /\ num[u] # 0 /\ u \notin Members(calls) => i \notin s.left
        /\ i \notin s.left /\ {u, w} \subseteq S => low[u] <= num[w]
        /\ \A k \in DOMAIN closed : u \in closed[k] =>
             \E j \in DOMAIN closed : j <= k /\ w \in closed[j]
    BY <1>1, <1>8, <2>1 DEF Seen
  <2>3. num[x] = 0
    BY <1>1
  <2>4. i \in l => i \in s.left
    OBVIOUS
  <2>5. i \in s.left /\ i \notin l => u \in S /\ w = x /\ u # x
    BY <1>10, <1>11, <1>17, <2>1
  <2>6. u \in S => low[u] <= num[u] /\ num[u] < c /\ low[u] \in Nat /\ num[u] \in Nat
    BY <1>1, <1>8, <1>10, SMTT(60) DEF Linked
  <2>7. q.num[u] = 0 => i \in l
    <3>1. q.num[u] = 0 => u # x /\ num[u] = 0 /\ u \notin S
      BY <1>6, <1>10, <1>13
    <3> QED  BY <2>2, <2>5, <3>1
  <2>8. i \notin l => q.num[w] # 0
    BY <1>6, <1>13, <2>1, <2>2, <2>5
  <2>9. q.num[u] # 0 /\ u \notin Members(q.calls) => i \notin l
    BY <1>5, <1>6, <2>2, <2>4
  <2>10. i \notin l /\ {u, w} \subseteq S \cup {x} => q.low[u] <= q.num[w]
    <3>1. u = x => i \in l
      BY <2>2, <2>3, <2>5
    <3>2. i \notin l /\ u \in S /\ w = x => q.low[u] <= q.num[w]
      BY <1>6, <1>10, <2>6
    <3>3. i \notin l /\ u \in S /\ w \in S => q.low[u] <= q.num[w]
      BY <1>9, <1>10, <2>2, <2>5
    <3> QED  BY <3>1, <3>2, <3>3
  <2> QED  BY <2>1, <2>2, <2>7, <2>8, <2>9, <2>10
<1>19. Linked(W, V, q)
  <2>0. Leads(W, V, x, x) /\ q.num[x] = q.low[x] /\ q.num[x] = c /\ q.low[x] = c
    BY <1>6, LeadsOn
  <2>1. \A u \in S :
          /\ low[u] <= num[u] /\ (u \notin Members(calls) => low[u] # num[u])
          /\ \E y \in S : num[y] = low[u] /\ Leads(W, V, u, y)
    BY <1>1, <1>8, SMTT(60) DEF Linked
  <2>2. \A k \in 1..L : \A u \in S : num[calls[k]] <= num[u] =>
          /\ Leads(W, V, calls[k], u)
          /\ (\A j \in 1..L : k < j => num[u] < num[calls[j]]) => low[calls[k]] <= low[u]
    BY <1>1, <1>4, <1>8, SMTT(60) DEF Linked
  <2>3. ASSUME NEW u \in S \cup {x}
        PROVE  /\ q.low[u] <= q.num[u]
               /\ u \notin Members(q.calls) => q.low[u] # q.num[u]
               /\ \E y \in S \cup {x} : q.num[y] = q.low[u] /\ Leads(W, V, u, y)
    <3>1. CASE u = x
      BY <1>5, <2>0, <3>1
    <3>2. CASE u \in S
      <4>1. PICK y \in S : num[y] = low[u] /\ Leads(W, V, u, y)
        BY <2>1, <3>2
      <4>2. q.num[y] = q.low[u]
        BY <1>10, <3>2, <4>1
      <4> QED  BY <1>5, <1>10, <2>1, <3>2, <4>1, <4>2
    <3> QED  BY <2>3, <3>1, <3>2
  <2>4. L = 0 \/ (L \in 1..L /\ Leads(W, V, calls[L], x))
    <3>1. ASSUME calls # << >>  PROVE Leads(W, V, calls[L], x)
      <4>1. PICK i \in s.left : edges[i].src = calls[L] /\ edges[i].dst = x
        BY <1>1, <1>4, <3>1
      <4>2. i \in DOMAIN edges
        BY <1>1
      <4> QED  BY <1>0, <4>1, <4>2, EdgeLeads
    <3> QED  BY <1>15, <3>1
  <2>5. ASSUME NEW k \in 1..(L + 1), NEW u \in S \cup {x}, q.num[q.calls[k]] <= q.num[u]
        PROVE  /\ Leads(W, V, q.calls[k], u)
               /\ (\A j \in 1..(L + 1) : k < j => q.num[u] < q.num[q.calls[j]]) =>
                    q.low[q.calls[k]] <= q.low[u]
    <3>1. CASE k = L + 1
      <4>1. q.calls[k] = x /\ c <= q.num[u]
        BY <1>5, <2>0, <2>5, <3>1
      <4>2. u = x
        <5>1. ASSUME u \in S  PROVE FALSE
          <6>1. num[u] < c /\ num[u] \in Nat /\ q.num[u] = num[u]
            BY <1>10, <5>1
          <6> QED  BY <4>1, <6>1
        <5> QED  BY <5>1
      <4> QED  BY <2>0, <4>1, <4>2
    <3>2. CASE k \in 1..L /\ u = x
      <4>1. L \in 1..L /\ Leads(W, V, calls[L], x)
        BY <2>4, <3>2
      <4>1a. calls[k] \in S /\ calls[L] \in S
        BY <1>11, <3>2, <4>1
      <4>2. k = L \/ k < L
        BY <3>2
      <4>3. num[calls[k]] <= num[calls[L]]
        <5>1. k < L => num[calls[k]] < num[calls[L]]
          BY <1>1, <1>4, <1>8, <3>2, <4>1 DEF Called
        <5>2. num[calls[k]] \in Nat /\ num[calls[L]] \in Nat
          BY <1>10, <4>1a
        <5> QED  BY <4>2, <5>1, <5>2, SMTT(60)
      <4>4. Leads(W, V, calls[k], x)
        <5>1. Leads(W, V, calls[k], calls[L])
          BY <2>2, <3>2, <4>1a, <4>3
        <5> QED  BY <4>1, <5>1, LeadsOn
      <4>5. L + 1 \in 1..(L + 1) /\ k < L + 1 /\ q.num[u] = q.num[q.calls[L + 1]] /\ q.num[u] \in Nat
        <5>1. L + 1 \in 1..(L + 1) /\ k < L + 1
          BY <3>2
        <5>2. q.num[u] = q.num[q.calls[L + 1]] /\ q.num[u] \in Nat
          BY <1>5, <1>6, <3>2
        <5> QED  BY <5>1, <5>2
      <4>6. ~(q.num[u] < q.num[q.calls[L + 1]])
        BY <4>5
      <4> QED  BY <1>5, <3>2, <4>4, <4>5, <4>6
    <3>3. CASE k \in 1..L /\ u \in S
      <4>1. calls[k] \in S /\ q.calls[k] = calls[k] /\ num[calls[k]] <= num[u]
        BY <1>5, <1>10, <1>11, <2>5, <3>3
      <4>2. \A j \in 1..L : q.num[q.calls[j]] = num[calls[j]] /\ j \in 1..(L + 1)
        BY <1>5, <1>10, <1>11
      <4>3. q.num[u] = num[u] /\ q.low[u] = low[u] /\ q.low[q.calls[k]] = low[calls[k]]
        BY <1>10, <3>3, <4>1
      <4>4. (\A j \in 1..(L + 1) : k < j => q.num[u] < q.num[q.calls[j]])
              => \A j \in 1..L : k < j => num[u] < num[calls[j]]
        BY <4>2, <4>3
      <4> QED  BY <2>2, <3>3, <4>1, <4>3, <4>4
    <3> QED  BY <1>12, <2>5, <3>1, <3>2, <3>3
  <2> QED  BY <1>5, <1>6, <2>3, <2>5, ZenonT(60) DEF Linked
<1>20. Parted(W, V, q)
  BY <1>1, <1>6, <1>8, SMTT(60) DEF Parted
<1>21. Searching(V, edges, q)
  BY <1>0, <1>7, <1>14, <1>16, <1>18, <1>19, <1>20 DEF Searching
<1>22. \A u \in V : q.num[u] = 0 <=> s.num[u] = 0 /\ u # x
  BY <1>1, <1>6, <1>13
<1>23. Len(q.calls) = Len(s.calls) + 1 /\ q.left = l
  BY <1>1, <1>3, <1>6, OneMore
<1> QED  BY <1>2, <1>21, <1>22, <1>23

\* The smaller of two naturals.
LEMMA SmallerIs ==
  ASSUME NEW a \in Nat, NEW b \in Nat
  PROVE  Smaller(a, b) \in {a, b} /\ Smaller(a, b) <= a /\ Smaller(a, b) <= b
BY DEF Smaller

\* A call looks along its next edge, which leads to no new node.
LEMMA LookKeeps ==
  ASSUME NEW V, NEW edges, Joins(V, edges), NEW s, Searching(V, edges, s), s.calls # << >>,
         NEW i \in s.left, NEW v, v = s.calls[Len(s.calls)], edges[i].src = v,
         NEW w, w = edges[i].dst, s.num[w] # 0, NEW t, t = [s EXCEPT !.left = @ \ {i}]
  PROVE  LET q == IF w \in s.stack THEN Lower(t, v, s.num[w]) ELSE t
         IN  Searching(V, edges, q) /\ q.num = s.num /\ q.calls = s.calls /\ q.left = s.left \ {i}
<1>0. PICK W : W = Pairs(edges)
  OBVIOUS
<1>1. PICK num \in [V -> Nat], low \in [V -> Nat], c \in Nat, S \in SUBSET V, calls \in Seq(V),
           closed \in Seq(SUBSET V), l \in SUBSET DOMAIN edges :
        /\ s = [num |-> num, low |-> low, counter |-> c, stack |-> S, calls |-> calls,
                left |-> l, closed |-> closed]
        /\ s.num = num /\ s.low = low /\ s.counter = c /\ s.stack = S /\ s.calls = calls
        /\ s.closed = closed /\ s.left = l
  BY DEF Searching, SearchStates
<1>2. PICK q : q = IF w \in s.stack THEN Lower(t, v, s.num[w]) ELSE t
  OBVIOUS
<1>3. PICK L \in Nat : L = Len(calls) /\ DOMAIN calls = 1..L
  <2>1. Len(calls) \in Nat /\ DOMAIN calls = 1..Len(calls)
    BY OneMore
  <2> QED  BY <2>1
<1>4. L \in 1..L /\ v = calls[L] /\ i \in DOMAIN edges /\ v \in V /\ w \in V
  BY <1>1, <1>3 DEF Joins
<1>5. Numbered(V, s) /\ Called(s) /\ Seen(edges, s) /\ Linked(W, V, s) /\ Parted(W, V, s)
  BY <1>0 DEF Searching
<1>6. v \in S /\ v \in Members(calls)
  BY <1>1, <1>3, <1>4, <1>5 DEF Called, Members
<1>7. t = [num |-> num, low |-> low, counter |-> c, stack |-> S, calls |-> calls,
           left |-> l \ {i}, closed |-> closed]
  BY <1>1
<1>8. PICK m : m = IF w \in S THEN Smaller(low[v], num[w]) ELSE low[v]
  OBVIOUS
<1>9. m \in Nat /\ m <= low[v] /\ (w \in S => m <= num[w]) /\ (m = low[v] \/ (w \in S /\ m = num[w]))
  BY <1>4, <1>8, SmallerIs
<1>10. /\ q.num = num /\ q.counter = c /\ q.stack = S /\ q.calls = calls /\ q.closed = closed
       /\ q.left = l \ {i} /\ q.low \in [V -> Nat] /\ q.low[v] = m
       /\ \A u \in V : u # v => q.low[u] = low[u]
       /\ q = [num |-> q.num, low |-> q.low, counter |-> q.counter, stack |-> q.stack,
               calls |-> q.calls, left |-> q.left, closed |-> q.closed]
  <2>1. CASE w \in S
    <3>1. q = Lower([num |-> num, low |-> low, counter |-> c, stack |-> S, calls |-> calls,
                     left |-> l \ {i}, closed |-> closed], v, num[w])
      BY <1>1, <1>2, <1>7, <2>1
    <3>2. q = [num |-> num, low |-> [low EXCEPT ![v] = Smaller(low[v], num[w])], counter |-> c,
               stack |-> S, calls |-> calls, left |-> l \ {i}, closed |-> closed]
      BY <3>1 DEF Lower
    <3>3. q.low = [low EXCEPT ![v] = m]
      BY <1>8, <2>1, <3>2
    <3> QED  BY <1>4, <1>9, <3>2, <3>3
  <2>2. CASE w \notin S
    <3>1. q = t
      BY <1>1, <1>2, <2>2
    <3> QED  BY <1>7, <1>8, <2>2, <3>1
  <2> QED  BY <2>1, <2>2
<1>11. q \in SearchStates(V, edges)
  <2>1. q.left \in SUBSET DOMAIN edges
    BY <1>10
  <2> QED  BY <1>10, <2>1, StateIs
<1>12. Gone(q) = Gone(s)
  BY <1>1, <1>10 DEF Gone
<1>13. Numbered(V, q)
  BY <1>1, <1>5, <1>10, <1>12 DEF Numbered
<1>14. Called(q)
  BY <1>1, <1>5, <1>10 DEF Called
<1>15. \A u \in S : q.low[u] \in Nat /\ low[u] \in Nat /\ num[u] \in Nat /\ q.low[u] <= low[u] /\ low[u] <= num[u]
  <2>1. \A u \in S : low[u] <= num[u] /\ u \in V
    BY <1>1, <1>5, SMTT(60) DEF Linked
  <2>2. \A u \in S : low[u] \in Nat /\ num[u] \in Nat /\ q.low[u] \in Nat
    BY <1>10, <2>1
  <2>3. ASSUME NEW u \in S  PROVE q.low[u] <= low[u]
    <3>1. CASE u = v
      BY <1>9, <1>10, <3>1
    <3>2. CASE u # v
      BY <1>10, <2>1, <2>2, <3>2
    <3> QED  BY <3>1, <3>2
  <2> QED  BY <2>1, <2>2, <2>3
<1>16. Seen(edges, q)
  <2> SUFFICES ASSUME NEW e \in DOMAIN edges
               PROVE  /\ num[edges[e].src] = 0 => e \in l \ {i}
                      /\ e \notin l \ {i} => num[edges[e].dst] # 0
                      /\ num[edges[e].src] # 0 /\ edges[e].src \notin Members(calls) => e \notin l \ {i}
                      /\ e \notin l \ {i} /\ {edges[e].src, edges[e].dst} \subseteq S =>
                           q.low[edges[e].src] <= num[edges[e].dst]
                      /\ \A k \in DOMAIN closed : edges[e].src \in closed[k] =>
                           \E j \in DOMAIN closed : j <= k /\ edges[e].dst \in closed[j]
    BY <1>10 DEF Seen
  <2>1. PICK a \in V, b \in V : a = edges[e].src /\ b = edges[e].dst
    BY DEF Joins
  <2>2. /\ num[a] = 0 => e \in l
        /\ e \notin l => num[b] # 0
        /\ num[a] # 0 /\ a \notin Members(calls) => e \notin l
        /\ e \notin l /\ {a, b} \subseteq S => low[a] <= num[b]
        /\ \A k \in DOMAIN closed : a \in closed[k] =>
             \E j \in DOMAIN closed : j <= k /\ b \in closed[j]
    BY <1>1, <1>5, <2>1 DEF Seen
  <2>3. e = i => a = v /\ b = w /\ num[v] # 0 /\ num[w] # 0
    BY <1>1, <1>5, <1>6, <2>1 DEF Numbered
  <2>4. ASSUME e \notin l \ {i}, a \in S, b \in S  PROVE q.low[a] <= num[b]
    <3>1. CASE e = i
      BY <1>9, <1>10, <2>3, <2>4, <3>1
    <3>2. CASE e \notin l
      <4>1. low[a] <= num[b] /\ q.low[a] <= low[a] /\ q.low[a] \in Nat /\ low[a] \in Nat /\ num[b] \in Nat
        BY <1>15, <2>2, <2>4, <3>2
      <4> QED  BY <4>1
    <3> QED  BY <2>4, <3>1, <3>2
  <2> QED  BY <2>1, <2>2, <2>3, <2>4
<1>17. Linked(W, V, q)
  <2>1. \A u \in S :
          /\ low[u] <= num[u] /\ (u \notin Members(calls) => low[u] # num[u])
          /\ \E y \in S : num[y] = low[u] /\ Leads(W, V, u, y)
    BY <1>1, <1>5, SMTT(60) DEF Linked
  <2>2. \A k \in 1..L : \A u \in S : num[calls[k]] <= num[u] =>
          /\ Leads(W, V, calls[k], u)
          /\ (\A j \in 1..L : k < j => num[u] < num[calls[j]]) => low[calls[k]] <= low[u]
    BY <1>1, <1>3, <1>5, ZenonT(60) DEF Linked
  <2>3. ASSUME NEW u \in S
        PROVE  /\ q.low[u] <= num[u]
               /\ u \notin Members(calls) => q.low[u] # num[u]
               /\ \E y \in S : num[y] = q.low[u] /\ Leads(W, V, u, y)
    <3>1. q.low[u] <= num[u]
      BY <1>15
    <3>2. CASE q.low[u] = low[u]
      BY <2>1, <3>1, <3>2
    <3>3. CASE q.low[u] # low[u]
      <4>1. u = v
        BY <1>10, <3>3
      <4>2. w \in S /\ num[w] = q.low[u]
        BY <1>9, <1>10, <3>3, <4>1
      <4>3. Leads(W, V, v, w)
        BY <1>0, <1>4, EdgeLeads
      <4> QED  BY <1>6, <3>1, <4>1, <4>2, <4>3
    <3> QED  BY <3>2, <3>3
  <2>4. ASSUME NEW k \in 1..L, NEW u \in S, num[calls[k]] <= num[u]
        PROVE  /\ Leads(W, V, calls[k], u)
               /\ (\A j \in 1..L : k < j => num[u] < num[calls[j]]) => q.low[calls[k]] <= q.low[u]
    <3>1. Leads(W, V, calls[k], u)
      BY <2>2, <2>4
    <3>2. ASSUME \A j \in 1..L : k < j => num[u] < num[calls[j]]
          PROVE  q.low[calls[k]] <= q.low[u]
      <4>1. calls[k] \in S
        BY <1>1, <1>3, <1>5 DEF Called, Members
      <4>2. low[calls[k]] <= low[u] /\ q.low[calls[k]] <= low[calls[k]]
        BY <1>15, <2>2, <2>4, <3>2, <4>1
      <4>3. CASE u # v
        BY <1>10, <1>15, <4>1, <4>2, <4>3, SMTT(60)
      <4>4. CASE u = v
        <5>1. k = L
          <6>1. ASSUME k < L  PROVE FALSE
            <7>1. num[u] < num[u]
              BY <1>4, <3>2, <4>4, <6>1
            <7> QED  BY <1>15, <7>1
          <6> QED  BY <6>1
        <5> QED  BY <1>4, <1>15, <4>4, <5>1
      <4> QED  BY <4>3, <4>4
    <3> QED  BY <3>1, <3>2
  <2> QED  BY <1>3, <1>10, <2>3, <2>4, ZenonT(60) DEF Linked
<1>18. Parted(W, V, q)
  BY <1>1, <1>5, <1>10, SMTT(60) DEF Parted
<1>19. Searching(V, edges, q)
  BY <1>0, <1>11, <1>13, <1>14, <1>16, <1>17, <1>18 DEF Searching
<1>20. q.num = s.num /\ q.calls = s.calls /\ q.left = s.left \ {i}
  BY <1>1, <1>10
<1> QED  BY <1>2, <1>19, <1>20
\* A return that closes what is in since.
Closes(s, since) ==
  \A u : u \in since <=> /\ u \in s.stack
                         /\ s.low[s.calls[Len(s.calls)]] = s.num[s.calls[Len(s.calls)]]
                         /\ s.num[u] >= s.num[s.calls[Len(s.calls)]]
Returned(s, q, since) ==
  LET up == SubSeq(s.calls, 1, Len(s.calls) - 1)
      lower == [s.low EXCEPT ![up[Len(up)]] = Smaller(@, s.low[s.calls[Len(s.calls)]])]
  IN  /\ q = [num |-> q.num, low |-> q.low, counter |-> q.counter, stack |-> q.stack,
              calls |-> q.calls, left |-> q.left, closed |-> q.closed]
      /\ q.num = s.num /\ q.counter = s.counter /\ q.left = s.left /\ q.calls = up
      /\ q.stack = s.stack \ since
      /\ q.closed = IF since = {} THEN s.closed ELSE Append(s.closed, since)
      /\ q.low = IF up = << >> THEN s.low ELSE lower

LEMMA ReturnIs ==
  ASSUME NEW V, NEW edges, NEW s \in SearchStates(V, edges), NEW since, Closes(s, since)
  PROVE  Returned(s, Return(s), since)
<1>1. PICK num, low, c, S, calls, closed, l :
        /\ s = [num |-> num, low |-> low, counter |-> c, stack |-> S, calls |-> calls,
                left |-> l, closed |-> closed]
        /\ s.num = num /\ s.low = low /\ s.counter = c /\ s.stack = S /\ s.calls = calls
        /\ s.closed = closed /\ s.left = l
  BY DEF SearchStates
<1> DEFINE top == calls[Len(calls)]
           stacked == {u \in S : low[top] = num[top] /\ num[u] >= num[top]}
           more == IF stacked = {} THEN closed ELSE Append(closed, stacked)
           up == SubSeq(calls, 1, Len(calls) - 1)
           r == [num |-> num, low |-> low, counter |-> c, stack |-> S, calls |-> calls,
                 left |-> l, closed |-> closed]
           b == [r EXCEPT !.calls = up, !.stack = S \ stacked, !.closed = more]
<1>2. Return(r) = IF b.calls = << >> THEN b ELSE Lower(b, b.calls[Len(b.calls)], low[top])
  BY DEF Return
<1>3. Return(s) = Return(r)
  BY <1>1
<1>4. stacked = since
  BY <1>1 DEF Closes
<1> HIDE DEF stacked
<1>5. more = IF since = {} THEN closed ELSE Append(closed, since)
  BY <1>4
<1>6. PICK a : a = b
  OBVIOUS
<1> HIDE DEF more, up
<1>7. a = [num |-> num, low |-> low, counter |-> c, stack |-> S \ stacked,
           calls |-> up, left |-> l, closed |-> more]
  BY <1>6
<1> HIDE DEF b, r
<1>8. PICK q : q = Return(s)
  OBVIOUS
<1> SUFFICES Returned(s, q, since)
  BY <1>8
<1>9. q = IF up = << >> THEN a ELSE Lower(a, up[Len(up)], low[top])
  <2>1. a.calls = up
    BY <1>7
  <2>2. q = IF a.calls = << >> THEN a ELSE Lower(a, a.calls[Len(a.calls)], low[top])
    BY <1>2, <1>3, <1>6, <1>8
  <2> QED  BY <2>1, <2>2
<1>9a. top = s.calls[Len(s.calls)] /\ up = SubSeq(s.calls, 1, Len(s.calls) - 1)
  BY <1>1 DEF up
<1>10. CASE up = << >>
  <2>1. q = [num |-> num, low |-> low, counter |-> c, stack |-> S \ since,
           calls |-> up, left |-> l, closed |-> more]
    BY <1>4, <1>7, <1>9, <1>10
  <2>2. /\ q.num = s.num /\ q.counter = s.counter /\ q.left = s.left /\ q.calls = up
        /\ q.stack = s.stack \ since /\ q.closed = more /\ q.low = s.low
        /\ q = [num |-> q.num, low |-> q.low, counter |-> q.counter, stack |-> q.stack,
                calls |-> q.calls, left |-> q.left, closed |-> q.closed]
    BY <1>1, <2>1
  <2> QED  BY <1>1, <1>5, <1>9a, <1>10, <2>2 DEF Returned
<1>11. CASE up # << >>
  <2>1. PICK w : w = up[Len(up)]
    OBVIOUS
  <2>2. q = Lower([num |-> num, low |-> low, counter |-> c, stack |-> S \ since,
                   calls |-> up, left |-> l, closed |-> more], w, low[top])
    BY <1>4, <1>7, <1>9, <1>11, <2>1
  <2>3. q = [num |-> num, low |-> [low EXCEPT ![w] = Smaller(low[w], low[top])], counter |-> c,
             stack |-> S \ since, calls |-> up, left |-> l, closed |-> more]
    BY <2>2 DEF Lower
  <2>4. /\ q.num = s.num /\ q.counter = s.counter /\ q.left = s.left /\ q.calls = up
        /\ q.stack = s.stack \ since /\ q.closed = more
        /\ q.low = [s.low EXCEPT ![w] = Smaller(@, low[top])]
        /\ q = [num |-> q.num, low |-> q.low, counter |-> q.counter, stack |-> q.stack,
                calls |-> q.calls, left |-> q.left, closed |-> q.closed]
    BY <1>1, <2>3
  <2> HIDE DEF top
  <2> QED  BY <1>1, <1>5, <1>9a, <1>11, <2>1, <2>4 DEF Returned
<1> QED  BY <1>10, <1>11

\* A call returns to the one that made it, which takes its link over.
Returning(edges, s) == s.calls # << >> /\ \A i \in s.left : edges[i].src # s.calls[Len(s.calls)]
Closing(s) == s.low[s.calls[Len(s.calls)]] = s.num[s.calls[Len(s.calls)]]

LEMMA HandBackKeeps ==
  ASSUME NEW V, NEW edges, Joins(V, edges), NEW s, Searching(V, edges, s),
         Returning(edges, s), ~Closing(s)
  PROVE  Searching(V, edges, Return(s)) /\ Len(Return(s).calls) = Len(s.calls) - 1
         /\ Return(s).num = s.num /\ Return(s).left = s.left
<1> PICK v : v = s.calls[Len(s.calls)]
  OBVIOUS
<1> s.calls # << >> /\ (\A i \in s.left : edges[i].src # v) /\ s.low[v] # s.num[v]
  BY DEF Returning, Closing
<1>0. PICK W : W = Pairs(edges)
  OBVIOUS
<1>1. PICK num \in [V -> Nat], low \in [V -> Nat], c \in Nat, S \in SUBSET V, calls \in Seq(V),
           closed \in Seq(SUBSET V), l \in SUBSET DOMAIN edges :
        /\ s = [num |-> num, low |-> low, counter |-> c, stack |-> S, calls |-> calls,
                left |-> l, closed |-> closed]
        /\ s.num = num /\ s.low = low /\ s.counter = c /\ s.stack = S /\ s.calls = calls
        /\ s.closed = closed /\ s.left = l
  BY DEF Searching, SearchStates
<1>2. PICK q : q = Return(s)
  OBVIOUS
<1>3. PICK up : up = SubSeq(calls, 1, Len(calls) - 1)
  OBVIOUS
<1>3a. PICK L \in Nat : L = Len(calls)
  <2>1. Len(calls) \in Nat
    OBVIOUS
  <2> QED  BY <2>1
<1>4. /\ L \in Nat /\ DOMAIN calls = 1..L /\ L \in 1..L /\ v = calls[L]
      /\ up \in Seq(V) /\ DOMAIN up = 1..(L - 1) /\ Len(up) = L - 1
      /\ Members(calls) = Members(up) \cup {v}
      /\ \A k \in 1..(L - 1) : k \in 1..L /\ up[k] = calls[k]
  <2>1. calls \in Seq(V) /\ calls # << >> /\ v = calls[L]
    BY <1>1, <1>3a
  <2>2. /\ up \in Seq(V) /\ DOMAIN up = 1..(L - 1) /\ Len(up) = L - 1
        /\ L \in 1..L /\ DOMAIN calls = 1..L /\ Members(calls) = Members(up) \cup {calls[L]}
        /\ \A k \in 1..(L - 1) : k \in DOMAIN calls /\ up[k] = calls[k]
    BY <1>3, <1>3a, <2>1, OffTheTop
  <2>3. L \in Nat
    BY <1>3a, <2>1
  <2> QED  BY <2>1, <2>2, <2>3
<1>5. Numbered(V, s) /\ Called(s) /\ Seen(edges, s) /\ Linked(W, V, s) /\ Parted(W, V, s)
  BY <1>0 DEF Searching
<1>6. \A k \in 1..L : calls[k] \in S /\ calls[k] \in V
  BY <1>1, <1>4, <1>5 DEF Called, Members
<1>7. \A u \in S : low[u] <= num[u] /\ low[u] \in Nat /\ num[u] \in Nat /\ u \in V
  BY <1>1, <1>5, SMTT(60) DEF Linked
<1>8. \A j, k \in 1..L : j < k => num[calls[j]] < num[calls[k]]
  BY <1>1, <1>4, <1>5 DEF Called
<1>9. low[v] < num[v] /\ v \in S
  BY <1>1, <1>4, <1>6, <1>7
<1>10. L # 1
  <2> SUFFICES ASSUME L = 1  PROVE FALSE
    OBVIOUS
  <2>1. \A u \in S : num[v] <= num[u]
    BY <1>1, <1>4, <1>5 DEF Called
  <2>2. PICK x \in S : num[x] = low[v]
    BY <1>1, <1>5, <1>9, SMTT(60) DEF Linked
  <2> QED  BY <1>7, <1>9, <2>1, <2>2
<1>11. PICK M \in 1..(L - 1) : M = L - 1 /\ M + 1 = L /\ M < L /\ L - 1 # 0
  BY <1>4, <1>10
<1>12. PICK p : p = calls[M]
  OBVIOUS
<1>13. up[Len(up)] = p /\ up # << >> /\ p \in S /\ p \in V /\ p \in Members(up) /\ num[p] < num[v]
  <2>1. up[M] = p /\ M \in DOMAIN up /\ M \in 1..L
    BY <1>4, <1>11, <1>12
  <2> QED  BY <1>4, <1>6, <1>8, <1>11, <1>12, <2>1 DEF Members
<1>14. PICK m : m = Smaller(low[p], low[v])
  OBVIOUS
<1>15. m \in Nat /\ m <= low[p] /\ m <= low[v] /\ (m = low[p] \/ m = low[v])
  BY <1>7, <1>9, <1>13, <1>14, SmallerIs
<1>16. /\ q.num = num /\ q.counter = c /\ q.stack = S /\ q.calls = up /\ q.closed = closed
       /\ q.left = l /\ q.low = [low EXCEPT ![p] = m]
       /\ q = [num |-> q.num, low |-> q.low, counter |-> q.counter, stack |-> q.stack,
               calls |-> q.calls, left |-> q.left, closed |-> q.closed]
  <2>1. PICK none : none = {}
    OBVIOUS
  <2>2. s \in SearchStates(V, edges)
    BY DEF Searching
  <2>3. /\ q.num = num /\ q.counter = c /\ q.stack = S \ none /\ q.calls = up
        /\ q.closed = IF none = {} THEN closed ELSE Append(closed, none)
        /\ q.left = l
        /\ q.low = IF up = << >> THEN low ELSE [low EXCEPT ![up[Len(up)]] = Smaller(@, low[calls[Len(calls)]])]
        /\ q = [num |-> q.num, low |-> q.low, counter |-> q.counter, stack |-> q.stack,
                calls |-> q.calls, left |-> q.left, closed |-> q.closed]
    <3>1. Closes(s, none)
      BY <2>1 DEF Closes
    <3>2. Returned(s, q, none)
      BY <1>2, <2>2, <3>1, ReturnIs
    <3> QED  BY <1>1, <1>3, <3>2 DEF Returned
  <2>4. v = calls[Len(calls)]
    BY <1>1
  <2> QED  BY <1>13, <1>14, <2>1, <2>3, <2>4
<1>17. q.low \in [V -> Nat] /\ q.low[p] = m /\ \A u \in V : u # p => q.low[u] = low[u]
  BY <1>13, <1>15, <1>16
<1>18. q \in SearchStates(V, edges)
  <2>1. q.left \in SUBSET DOMAIN edges /\ q.calls \in Seq(V)
    BY <1>4, <1>16, <1>17
  <2> QED  BY <1>16, <1>17, <2>1, StateIs
<1>19. Gone(q) = Gone(s)
  BY <1>1, <1>16, <1>17 DEF Gone
<1>20. Numbered(V, q)
  BY <1>1, <1>5, <1>16, <1>17, <1>19 DEF Numbered
<1>21. Called(q)
  <2>1. Members(up) \subseteq S /\ \A u \in S : up # << >> /\ num[up[1]] <= num[u]
    <3>1. 1 \in 1..(L - 1)
      BY <1>11
    <3>2. up[1] = calls[1] /\ Members(up) \subseteq Members(calls)
      BY <1>4, <3>1
    <3> QED  BY <1>1, <1>5, <1>13, <3>2 DEF Called
  <2>2. \A j, k \in 1..(L - 1) : j < k => num[up[j]] < num[up[k]]
    BY <1>4, <1>8
  <2> QED  BY <1>4, <1>16, <1>17, <2>1, <2>2 DEF Called
<1>22. \A u \in S : q.low[u] \in Nat /\ q.low[u] <= low[u]
  <2> SUFFICES ASSUME NEW u \in S  PROVE q.low[u] \in Nat /\ q.low[u] <= low[u]
    OBVIOUS
  <2>1. CASE u = p
    BY <1>15, <1>16, <1>17, <2>1
  <2>2. CASE u # p
    BY <1>7, <1>16, <1>17, <2>2
  <2> QED  BY <2>1, <2>2
<1>23. Seen(edges, q)
  <2> SUFFICES ASSUME NEW e \in DOMAIN edges
               PROVE  /\ num[edges[e].src] = 0 => e \in l
                      /\ e \notin l => num[edges[e].dst] # 0
                      /\ num[edges[e].src] # 0 /\ edges[e].src \notin Members(up) => e \notin l
                      /\ e \notin l /\ {edges[e].src, edges[e].dst} \subseteq S =>
                           q.low[edges[e].src] <= num[edges[e].dst]
                      /\ \A k \in DOMAIN closed : edges[e].src \in closed[k] =>
                           \E j \in DOMAIN closed : j <= k /\ edges[e].dst \in closed[j]
    BY <1>16, <1>17 DEF Seen
  <2>1. PICK a \in V, b \in V : a = edges[e].src /\ b = edges[e].dst
    BY DEF Joins
  <2>2. /\ num[a] = 0 => e \in l
        /\ e \notin l => num[b] # 0
        /\ num[a] # 0 /\ a \notin Members(calls) => e \notin l
        /\ e \notin l /\ {a, b} \subseteq S => low[a] <= num[b]
        /\ \A k \in DOMAIN closed : a \in closed[k] =>
             \E j \in DOMAIN closed : j <= k /\ b \in closed[j]
    BY <1>1, <1>5, <2>1 DEF Seen
  <2>3. a = v => e \notin l
    BY <1>1, <2>1
  <2>4. ASSUME e \notin l, a \in S, b \in S  PROVE q.low[a] <= num[b]
    BY <1>7, <1>22, <2>2, <2>4
  <2> QED  BY <1>4, <2>1, <2>2, <2>3, <2>4
<1>24. Linked(W, V, q)
  <2>1. \A u \in S :
          /\ (u \notin Members(calls) => low[u] # num[u])
          /\ \E y \in S : num[y] = low[u] /\ Leads(W, V, u, y)
    BY <1>1, <1>5, SMTT(60) DEF Linked
  <2>2. \A k \in 1..L : \A u \in S : num[calls[k]] <= num[u] =>
          /\ Leads(W, V, calls[k], u)
          /\ (\A j \in 1..L : k < j => num[u] < num[calls[j]]) => low[calls[k]] <= low[u]
    BY <1>1, <1>4, <1>5, ZenonT(60) DEF Linked
  <2>3. ASSUME NEW u \in S
        PROVE  /\ q.low[u] <= num[u]
               /\ u \notin Members(up) => q.low[u] # num[u]
               /\ \E y \in S : num[y] = q.low[u] /\ Leads(W, V, u, y)
    <3>1. q.low[u] <= num[u]
      BY <1>7, <1>22
    <3>2. CASE u # p
      <4>1. q.low[u] = low[u] /\ \E y \in S : num[y] = q.low[u] /\ Leads(W, V, u, y)
        BY <1>7, <1>16, <1>17, <2>1, <3>2
      <4>2. u \notin Members(up) => u = v \/ low[u] # num[u]
        BY <1>4, <2>1
      <4>3. low[v] # num[v]
        BY <1>1
      <4> QED  BY <3>1, <4>1, <4>2, <4>3
    <3>3. CASE u = p /\ m = low[p]
      BY <1>13, <1>16, <1>17, <2>1, <3>1, <3>3
    <3>4. CASE u = p /\ m = low[v]
      <4>1. PICK y \in S : num[y] = low[v] /\ Leads(W, V, v, y)
        BY <1>9, <2>1
      <4>2. Leads(W, V, p, v)
        <5>1. M \in 1..L /\ num[calls[M]] <= num[v]
          <6>1. num[p] \in Nat /\ num[v] \in Nat /\ num[p] < num[v] /\ calls[M] = p
            BY <1>7, <1>9, <1>12, <1>13
          <6>2. M \in 1..L /\ num[p] <= num[v]
            BY <1>11, <6>1
          <6> QED  BY <6>1, <6>2
        <5> QED  BY <1>9, <1>12, <2>2, <5>1
      <4>3. Leads(W, V, p, y)
        BY <4>1, <4>2, LeadsOn
      <4> QED  BY <1>13, <1>16, <1>17, <3>1, <3>4, <4>1, <4>3
    <3> QED  BY <1>15, <3>2, <3>3, <3>4
  <2>4. ASSUME NEW k \in 1..(L - 1), NEW u \in S, num[up[k]] <= num[u]
        PROVE  /\ Leads(W, V, up[k], u)
               /\ (\A j \in 1..(L - 1) : k < j => num[u] < num[up[j]]) => q.low[up[k]] <= q.low[u]
    <3>1. k \in 1..L /\ up[k] = calls[k] /\ calls[k] \in S
      BY <1>4, <1>6
    <3>2. Leads(W, V, up[k], u)
      BY <2>2, <2>4, <3>1
    <3>3. ASSUME \A j \in 1..(L - 1) : k < j => num[u] < num[up[j]]
          PROVE  q.low[up[k]] <= q.low[u]
      <4>1. \A j \in 1..(L - 1) : k < j => num[u] < num[calls[j]]
        BY <1>4, <3>3
      <4>2. CASE k = M
        <5>1. up[k] = p
          BY <1>12, <3>1, <4>2
        <5>2. CASE u = p
          BY <1>22, <5>1, <5>2
        <5>3. CASE u # p /\ num[v] <= num[u]
          <6>1. low[v] <= low[u]
            <7>1. \A j \in 1..L : ~(L < j)
              OBVIOUS
            <7> QED  BY <1>4, <2>2, <5>3, <7>1
          <6> QED  BY <1>7, <1>9, <1>15, <1>16, <1>17, <5>1, <5>3, <6>1
        <5>4. CASE u # p /\ num[u] < num[v]
          <6>1. \A j \in 1..L : k < j => j = L
            BY <1>11, <4>2
          <6>2. low[calls[k]] <= low[u]
            BY <1>4, <2>2, <2>4, <3>1, <5>4, <6>1
          <6> QED  BY <1>7, <1>13, <1>15, <1>16, <1>17, <1>22, <3>1, <5>1, <5>4, <6>2
        <5> QED  BY <1>7, <1>9, <5>2, <5>3, <5>4
      <4>3. CASE k # M
        <5>1. k < M
          BY <1>11, <4>3
        <5>2. num[u] < num[p]
          BY <1>12, <4>1, <5>1
        <5>3. num[u] < num[v] /\ u # p
          BY <1>7, <1>9, <1>13, <5>2
        <5>4. \A j \in 1..L : j = L \/ j \in 1..(L - 1)
          OBVIOUS
        <5>5. low[calls[k]] <= low[u]
          BY <1>4, <2>2, <2>4, <3>1, <4>1, <5>3, <5>4
        <5>6. q.low[u] = low[u] /\ q.low[up[k]] <= low[up[k]] /\ low[up[k]] <= low[u]
          BY <1>7, <1>17, <1>22, <3>1, <5>3, <5>5
        <5> QED  BY <1>7, <1>22, <3>1, <5>6
      <4> QED  BY <4>2, <4>3
    <3> QED  BY <3>2, <3>3
  <2> QED  BY <1>4, <1>16, <1>17, <2>3, <2>4, SMTT(60) DEF Linked
<1>25. Parted(W, V, q)
  BY <1>1, <1>5, <1>16, <1>17 DEF Parted
<1>26. Searching(V, edges, q)
  BY <1>0, <1>18, <1>20, <1>21, <1>23, <1>24, <1>25 DEF Searching
<1>27. Len(q.calls) = Len(s.calls) - 1 /\ q.num = s.num /\ q.left = s.left
  BY <1>1, <1>3a, <1>4, <1>16, <1>17
<1> QED  BY <1>2, <1>26, <1>27

\* A call returns whose link is its own number, and closes what has been stacked since.
LEMMA CloseKeeps ==
  ASSUME NEW V, NEW edges, Joins(V, edges), NEW s, Searching(V, edges, s),
         Returning(edges, s), Closing(s)
  PROVE  Searching(V, edges, Return(s)) /\ Len(Return(s).calls) = Len(s.calls) - 1
         /\ Return(s).num = s.num /\ Return(s).left = s.left
<1> PICK v : v = s.calls[Len(s.calls)]
  OBVIOUS
<1> s.calls # << >> /\ (\A i \in s.left : edges[i].src # v) /\ s.low[v] = s.num[v]
  BY DEF Returning, Closing
<1>0. PICK W : W = Pairs(edges)
  OBVIOUS
<1>1. PICK num \in [V -> Nat], low \in [V -> Nat], c \in Nat, S \in SUBSET V, calls \in Seq(V),
           closed \in Seq(SUBSET V), l \in SUBSET DOMAIN edges :
        /\ s = [num |-> num, low |-> low, counter |-> c, stack |-> S, calls |-> calls,
                left |-> l, closed |-> closed]
        /\ s.num = num /\ s.low = low /\ s.counter = c /\ s.stack = S /\ s.calls = calls
        /\ s.closed = closed /\ s.left = l
  BY DEF Searching, SearchStates
<1>2. PICK q : q = Return(s)
  OBVIOUS
<1>3. PICK up : up = SubSeq(calls, 1, Len(calls) - 1)
  OBVIOUS
<1>3a. PICK L \in Nat : L = Len(calls)
  <2>1. Len(calls) \in Nat
    OBVIOUS
  <2> QED  BY <2>1
<1>4. /\ L \in Nat /\ DOMAIN calls = 1..L /\ L \in 1..L /\ v = calls[L]
      /\ up \in Seq(V) /\ DOMAIN up = 1..(L - 1) /\ Len(up) = L - 1
      /\ Members(calls) = Members(up) \cup {v}
      /\ \A k \in 1..(L - 1) : k \in 1..L /\ up[k] = calls[k]
  <2>1. calls \in Seq(V) /\ calls # << >> /\ v = calls[L]
    BY <1>1, <1>3a
  <2>2. /\ up \in Seq(V) /\ DOMAIN up = 1..(L - 1) /\ Len(up) = L - 1
        /\ L \in 1..L /\ DOMAIN calls = 1..L /\ Members(calls) = Members(up) \cup {calls[L]}
        /\ \A k \in 1..(L - 1) : k \in DOMAIN calls /\ up[k] = calls[k]
    BY <1>3, <1>3a, <2>1, OffTheTop
  <2> QED  BY <2>1, <2>2
<1>5. Numbered(V, s) /\ Called(s) /\ Seen(edges, s) /\ Linked(W, V, s) /\ Parted(W, V, s)
  BY <1>0 DEF Searching
<1>6. \A k \in 1..L : calls[k] \in S /\ calls[k] \in V
  BY <1>1, <1>4, <1>5 DEF Called, Members
<1>7. \A u \in S : low[u] <= num[u] /\ low[u] \in Nat /\ num[u] \in Nat /\ u \in V
  BY <1>1, <1>5, SMTT(60) DEF Linked
<1>8. \A j, k \in 1..L : j < k => num[calls[j]] < num[calls[k]]
  BY <1>1, <1>4, <1>5 DEF Called
<1>9. v \in S /\ low[v] = num[v] /\ num[v] \in Nat
  BY <1>1, <1>4, <1>6, <1>7
<1>10. PICK R \in SUBSET S : \A u : u \in R <=> u \in S /\ num[v] <= num[u]
  <2>1. {u \in S : num[v] <= num[u]} \in SUBSET S
    OBVIOUS
  <2> QED  BY <2>1
<1>11. v \in R /\ R # {}
  BY <1>9, <1>10
<1>12. \A k \in 1..(L - 1) : calls[k] \in S \ R /\ num[calls[k]] < num[v] /\ calls[k] # v
  <2> SUFFICES ASSUME NEW k \in 1..(L - 1)
               PROVE  calls[k] \in S \ R /\ num[calls[k]] < num[v] /\ calls[k] # v
    OBVIOUS
  <2>1. k \in 1..L /\ k < L
    BY <1>4
  <2>2. num[calls[k]] < num[v] /\ calls[k] \in S
    BY <1>4, <1>6, <1>8, <2>1
  <2> QED  BY <1>7, <1>9, <1>10, <2>2
<1>13. Members(up) \subseteq S \ R /\ v \notin Members(up)
  BY <1>4, <1>12 DEF Members
<1>14. PICK N \in Nat : N = Len(closed) /\ DOMAIN closed = 1..N
  <2>1. Len(closed) \in Nat /\ DOMAIN closed = 1..Len(closed)
    BY OneMore
  <2> QED  BY <2>1
<1>15a. PICK more : more = Append(closed, R)
  OBVIOUS
<1>15. /\ more = Append(closed, R) /\ more \in Seq(SUBSET V)
       /\ DOMAIN more = 1..(N + 1) /\ more[N + 1] = R
       /\ Members(more) = Members(closed) \cup {R}
       /\ \A k \in 1..N : more[k] = closed[k]
  <2>1. PICK P : P = SUBSET V
    OBVIOUS
  <2>2. closed \in Seq(P) /\ R \in P
    BY <2>1
  <2>3. /\ more \in Seq(P) /\ DOMAIN more = 1..(N + 1) /\ more[N + 1] = R
        /\ Members(more) = Members(closed) \cup {R}
        /\ \A k \in 1..N : more[k] = closed[k]
    BY <1>14, <1>15a, <2>2, OneMore
  <2> QED  BY <1>15a, <2>1, <2>3
<1>16. /\ q.num = num /\ q.counter = c /\ q.stack = S \ R /\ q.calls = up /\ q.closed = more
       /\ q.left = l /\ q.low = low
       /\ q = [num |-> q.num, low |-> q.low, counter |-> q.counter, stack |-> q.stack,
               calls |-> q.calls, left |-> q.left, closed |-> q.closed]
  <2>1. s \in SearchStates(V, edges)
    BY DEF Searching
  <2>2. Closes(s, R)
    <3>1. v = s.calls[Len(s.calls)]
      OBVIOUS
    <3>2. \A u : u \in R <=> u \in S /\ low[v] = num[v] /\ num[u] >= num[v]
      BY <1>7, <1>9, <1>10
    <3> QED  BY <1>1, <3>1, <3>2 DEF Closes
  <2>3. Returned(s, q, R)
    BY <1>2, <2>1, <2>2, ReturnIs
  <2>4. PICK low2 : low2 = IF up = << >> THEN low ELSE [low EXCEPT ![up[Len(up)]] = Smaller(@, low[v])]
    OBVIOUS
  <2>5. low2 = low
    <3>1. CASE up = << >>
      BY <2>4, <3>1
    <3>2. CASE up # << >>
      <4>1. L - 1 \in 1..(L - 1)
        BY <1>4, <3>2
      <4>2. PICK p : p = up[Len(up)] /\ p \in S /\ num[p] < num[v]
        BY <1>4, <1>12, <4>1
      <4>3. Smaller(low[p], low[v]) = low[p]
        <5>1. low[p] < low[v]
          BY <1>7, <1>9, <4>2
        <5> QED  BY <5>1 DEF Smaller
      <4>4. low2 = [low EXCEPT ![p] = low[p]]
        BY <2>4, <3>2, <4>2, <4>3
      <4> QED  BY <4>4
    <3> QED  BY <3>1, <3>2
  <2>6. q.low = low2
    BY <1>1, <1>3, <2>3, <2>4 DEF Returned
  <2>7. /\ q.num = num /\ q.counter = c /\ q.stack = S \ R /\ q.calls = up /\ q.left = l
        /\ q = [num |-> q.num, low |-> q.low, counter |-> q.counter, stack |-> q.stack,
               calls |-> q.calls, left |-> q.left, closed |-> q.closed]
    BY <1>1, <1>3, <2>3 DEF Returned
  <2>8. q.closed = more
    BY <1>1, <1>11, <1>15, <2>3 DEF Returned
  <2> QED  BY <2>5, <2>6, <2>7, <2>8
<1>17. q \in SearchStates(V, edges)
  <2>1. /\ q.left \in SUBSET DOMAIN edges /\ q.calls \in Seq(V) /\ q.stack \in SUBSET V
        /\ q.num \in [V -> Nat] /\ q.low \in [V -> Nat] /\ q.counter \in Nat
        /\ q.closed \in Seq(SUBSET V)
    BY <1>4, <1>15, <1>16
  <2> QED  BY <1>16, <2>1, StateIs
<1>18. Gone(q) = Gone(s) \cup R
  BY <1>1, <1>15, <1>16 DEF Gone
<1>19. Numbered(V, q)
  <2>1. S \cup Gone(s) = (S \ R) \cup Gone(q) /\ (S \ R) \cap Gone(q) = {}
    BY <1>1, <1>5, <1>18 DEF Numbered
  <2> QED  BY <1>1, <1>5, <1>16, <2>1 DEF Numbered
<1>20. Called(q)
  <2>1. ASSUME NEW u \in S \ R  PROVE up # << >> /\ num[up[1]] <= num[u]
    <3>1. num[calls[1]] <= num[u] /\ num[u] < num[v]
      BY <1>1, <1>5, <1>7, <1>9, <1>10 DEF Called
    <3>2. L # 1
      BY <1>4, <1>7, <1>9, <3>1
    <3>3. 1 \in 1..(L - 1)
      BY <1>4, <3>2
    <3>4. up[1] = calls[1] /\ up # << >>
      BY <1>4, <3>3
    <3> QED  BY <3>1, <3>4
  <2>2. \A j, k \in 1..(L - 1) : j < k => num[up[j]] < num[up[k]]
    BY <1>4, <1>8
  <2> QED  BY <1>4, <1>13, <1>16, <2>1, <2>2 DEF Called
<1>21. \A k \in 1..L : \A u \in S : num[calls[k]] <= num[u] =>
         /\ Leads(W, V, calls[k], u)
         /\ (\A j \in 1..L : k < j => num[u] < num[calls[j]]) => low[calls[k]] <= low[u]
  BY <1>1, <1>4, <1>5, SMTT(60) DEF Linked
<1>22. \A u \in R : Leads(W, V, v, u) /\ num[v] <= low[u]
  <2>1. \A j \in 1..L : ~(L < j)
    BY <1>4
  <2> QED  BY <1>4, <1>9, <1>10, <1>21, <2>1
<1>23. \A u \in S :
         /\ (u \notin Members(calls) => low[u] # num[u])
         /\ \E y \in S : num[y] = low[u] /\ Leads(W, V, u, y)
  BY <1>1, <1>5, SMTT(60) DEF Linked
<1>24. \A u \in R : u # v => u \notin Members(calls)
  BY <1>4, <1>13
<1>25. ASSUME NEW x \in R  PROVE Leads(W, V, x, v)
  <2> SUFFICES ASSUME NEW U \in SUBSET V, x \in U, \A w \in W : w[1] \in U => w[2] \in U,
                      v \notin U
               PROVE  FALSE
    BY DEF Leads
  <2> DEFINE T == {num[u] : u \in R \cap U}
  <2>1. T \subseteq Nat /\ T # {}
    BY <1>7
  <2>2. PICK t \in T : \A n \in T : t <= n
    BY <2>1, LeastNatural
  <2>3. PICK u \in R \cap U : num[u] = t
    OBVIOUS
  <2>4. \A z \in R \cap U : num[u] <= num[z]
    BY <2>2, <2>3
  <2>5. PICK y \in S : num[y] = low[u] /\ Leads(W, V, u, y)
    BY <1>23, <2>3
  <2>6. y \in U
    BY <2>3, <2>5 DEF Leads
  <2>7. low[u] # num[u] /\ low[u] <= num[u]
    BY <1>7, <1>23, <1>24, <2>3
  <2>8. y \in R
    BY <1>10, <1>22, <2>3, <2>5
  <2>9. num[u] <= num[y] /\ num[u] \in Nat /\ num[y] \in Nat
    BY <1>7, <2>4, <2>6, <2>8
  <2> QED  BY <2>5, <2>7, <2>9
<1>26. Seen(edges, q)
  <2> SUFFICES ASSUME NEW e \in DOMAIN edges
               PROVE  /\ num[edges[e].src] = 0 => e \in l
                      /\ e \notin l => num[edges[e].dst] # 0
                      /\ num[edges[e].src] # 0 /\ edges[e].src \notin Members(up) => e \notin l
                      /\ e \notin l /\ {edges[e].src, edges[e].dst} \subseteq S \ R =>
                           low[edges[e].src] <= num[edges[e].dst]
                      /\ \A k \in 1..(N + 1) : edges[e].src \in more[k] =>
                           \E j \in 1..(N + 1) : j <= k /\ edges[e].dst \in more[j]
    BY <1>15, <1>16 DEF Seen
  <2>1. PICK a \in V, b \in V : a = edges[e].src /\ b = edges[e].dst
    BY DEF Joins
  <2>2. /\ num[a] = 0 => e \in l
        /\ e \notin l => num[b] # 0
        /\ num[a] # 0 /\ a \notin Members(calls) => e \notin l
        /\ e \notin l /\ {a, b} \subseteq S => low[a] <= num[b]
        /\ \A k \in 1..N : a \in closed[k] => \E j \in 1..N : j <= k /\ b \in closed[j]
    BY <1>1, <1>5, <1>14, <2>1 DEF Seen
  <2>3. a = v => e \notin l
    BY <1>1, <2>1
  <2>4. num[a] # 0 /\ a \notin Members(up) => e \notin l
    BY <1>4, <2>2, <2>3
  <2>5. ASSUME NEW k \in 1..(N + 1), a \in more[k]
        PROVE  \E j \in 1..(N + 1) : j <= k /\ b \in more[j]
    <3>1. CASE k \in 1..N
      <4>1. PICK j \in 1..N : j <= k /\ b \in closed[j]
        BY <1>15, <2>2, <2>5, <3>1
      <4>2. j \in 1..(N + 1) /\ more[j] = closed[j]
        BY <1>15, <4>1
      <4> QED  BY <4>1, <4>2
    <3>2. CASE k = N + 1
      <4>1. a \in R
        BY <1>15, <2>5, <3>2
      <4>2. num[a] # 0
        BY <1>1, <1>5, <4>1 DEF Numbered
      <4>3. e \notin l
        BY <1>13, <2>4, <4>1, <4>2
      <4>4. b \in S \cup Gone(s)
        BY <1>1, <1>5, <2>2, <4>3 DEF Numbered
      <4>5. CASE b \in S
        <5>1. low[a] <= num[b] /\ num[v] <= low[a]
          BY <1>22, <2>2, <4>1, <4>3, <4>5
        <5>2. b \in R
          BY <1>7, <1>9, <1>10, <4>1, <4>5, <5>1
        <5> QED  BY <1>15, <3>2, <5>2
      <4>6. CASE b \in Gone(s)
        <5>1. PICK j \in 1..N : b \in closed[j]
          BY <1>1, <1>14, <4>6 DEF Gone, Members
        <5>2. j \in 1..(N + 1) /\ j <= k /\ more[j] = closed[j]
          BY <1>15, <3>2
        <5> QED  BY <5>1, <5>2
      <4> QED  BY <4>4, <4>5, <4>6
    <3> QED  BY <3>1, <3>2
  <2> QED  BY <2>1, <2>2, <2>4, <2>5
<1>27. Linked(W, V, q)
  <2>1. \A u \in S \ R : low[u] <= num[u] /\ num[u] < num[v] /\ u # v
    BY <1>7, <1>9, <1>10
  <2>2. ASSUME NEW u \in S \ R
        PROVE  /\ u \notin Members(up) => low[u] # num[u]
               /\ \E y \in S \ R : num[y] = low[u] /\ Leads(W, V, u, y)
    <3>1. PICK y \in S : num[y] = low[u] /\ Leads(W, V, u, y)
      BY <1>23
    <3>2. y \notin R
      BY <1>7, <1>9, <1>10, <2>1, <3>1
    <3> QED  BY <1>4, <1>23, <2>1, <3>1, <3>2
  <2>3. ASSUME NEW k \in 1..(L - 1), NEW u \in S \ R, num[up[k]] <= num[u]
        PROVE  /\ Leads(W, V, up[k], u)
               /\ (\A j \in 1..(L - 1) : k < j => num[u] < num[up[j]]) => low[up[k]] <= low[u]
    <3>1. k \in 1..L /\ up[k] = calls[k]
      BY <1>4
    <3>2. Leads(W, V, up[k], u)
      BY <1>21, <2>3, <3>1
    <3>3. ASSUME \A j \in 1..(L - 1) : k < j => num[u] < num[up[j]]  PROVE low[up[k]] <= low[u]
      <4>1. \A j \in 1..L : j = L \/ j \in 1..(L - 1)
        BY <1>4
      <4>2. \A j \in 1..L : k < j => num[u] < num[calls[j]]
        BY <1>4, <2>1, <3>3, <4>1
      <4> QED  BY <1>21, <2>3, <3>1, <4>2
    <3> QED  BY <3>2, <3>3
  <2> QED  BY <1>4, <1>16, <2>1, <2>2, <2>3, SMTT(60) DEF Linked
<1>28. Parted(W, V, q)
  <2>1. \A k \in 1..N : /\ closed[k] # {}
                        /\ \A x, y \in closed[k] : Leads(W, V, x, y)
                        /\ \A j \in 1..N : j # k => closed[j] \cap closed[k] = {}
    BY <1>1, <1>5, <1>14, ZenonT(60) DEF Parted
  <2>2. \A x, y \in R : Leads(W, V, x, y)
    BY <1>22, <1>25, LeadsOn
  <2>3. \A k \in 1..N : closed[k] \cap R = {}
    <3>1. \A k \in 1..N : closed[k] \subseteq Gone(s)
      BY <1>1, <1>14 DEF Gone, Members
    <3> QED  BY <1>1, <1>5, <3>1 DEF Numbered
  <2>4. \A k \in 1..(N + 1) : k = N + 1 \/ k \in 1..N
    OBVIOUS
  <2>5. ASSUME NEW k \in 1..(N + 1)
        PROVE  /\ more[k] # {}
               /\ \A x, y \in more[k] : Leads(W, V, x, y)
               /\ \A j \in 1..(N + 1) : j # k => more[j] \cap more[k] = {}
    <3>1. CASE k = N + 1
      BY <1>11, <1>15, <2>2, <2>3, <2>4, <3>1
    <3>2. CASE k \in 1..N
      BY <1>15, <2>1, <2>3, <2>4, <3>2
    <3> QED  BY <2>4, <3>1, <3>2
  <2> QED  BY <1>15, <1>16, <2>5 DEF Parted
<1>29. Searching(V, edges, q)
  BY <1>0, <1>17, <1>19, <1>20, <1>26, <1>27, <1>28 DEF Searching
<1>30. Len(q.calls) = Len(s.calls) - 1 /\ q.num = s.num /\ q.left = s.left
  BY <1>1, <1>3a, <1>4, <1>16
<1> QED  BY <1>2, <1>29, <1>30

\* The least of a set of places.
LEMMA LeastOfIs ==
  ASSUME NEW S, S \subseteq Nat, S # {}
  PROVE  LeastOf(S) \in S
<1>1. \E m \in S : \A k \in S : m <= k
  BY LeastNatural
<1> QED  BY <1>1 DEF LeastOf

\* What is left of the search: calls to come, with their returns, returns of those under
\* way, and edges.
Weight(V, s) ==
  2 * Cardinality({u \in V : s.num[u] = 0}) + Len(s.calls) + Cardinality(s.left)

LEMMA WeightIs ==
  ASSUME NEW V, IsFiniteSet(V), NEW edges, IsFiniteSet(DOMAIN edges), NEW s \in SearchStates(V, edges)
  PROVE  /\ IsFiniteSet({u \in V : s.num[u] = 0}) /\ IsFiniteSet(s.left)
         /\ Cardinality({u \in V : s.num[u] = 0}) \in Nat /\ Cardinality(s.left) \in Nat
         /\ Len(s.calls) \in Nat /\ Weight(V, s) \in Nat
<1>1. s.left \subseteq DOMAIN edges /\ s.calls \in Seq(V)
  BY DEF SearchStates
<1>2. PICK Z : Z = {u \in V : s.num[u] = 0} /\ Z \subseteq V
  OBVIOUS
<1>3. IsFiniteSet(Z) /\ IsFiniteSet(s.left) /\ Cardinality(Z) \in Nat /\ Cardinality(s.left) \in Nat
  BY <1>1, <1>2, FS_Subset, FS_CardinalityType
<1>4. Len(s.calls) \in Nat
  BY <1>1
<1>5. 2 * Cardinality(Z) + Len(s.calls) + Cardinality(s.left) \in Nat
  BY <1>3, <1>4
<1> QED  BY <1>2, <1>3, <1>4, <1>5 DEF Weight

\* A turn of the search keeps all this and leaves less, until all nodes are numbered and no
\* call is under way.
LEMMA SearchKeeps ==
  ASSUME NEW T, NEW nodes \in Seq(T), NEW V, V = Members(nodes), IsFiniteSet(V),
         NEW edges, DOMAIN edges \subseteq Nat, IsFiniteSet(DOMAIN edges), Joins(V, edges),
         NEW s, Searching(V, edges, s)
  PROVE  LET q == Search(nodes, edges, s)
         IN  /\ Searching(V, edges, q)
             /\ \/ s.calls = << >> /\ (\A u \in V : s.num[u] # 0) /\ q = s
                \/ Weight(V, q) <= Weight(V, s) - 1
<1>0. PICK q : q = Search(nodes, edges, s)
  OBVIOUS
<1>1. /\ s.left \subseteq DOMAIN edges /\ s.calls \in Seq(V) /\ s.num \in [V -> Nat]
      /\ s \in SearchStates(V, edges) /\ DOMAIN s.num = V
      /\ s = [num |-> s.num, low |-> s.low, counter |-> s.counter, stack |-> s.stack,
              calls |-> s.calls, left |-> s.left, closed |-> s.closed]
  BY DEF Searching, SearchStates
<1>2. \A r : Searching(V, edges, r) => r \in SearchStates(V, edges)
  BY DEF Searching
<1>3. PICK Z : Z = {u \in V : s.num[u] = 0} /\ Z \subseteq V
  OBVIOUS
<1>4. PICK cz \in Nat, cc \in Nat, cl \in Nat :
        /\ cz = Cardinality(Z) /\ cc = Len(s.calls) /\ cl = Cardinality(s.left)
        /\ IsFiniteSet(Z) /\ IsFiniteSet(s.left) /\ Weight(V, s) = 2 * cz + cc + cl
  <2>1. /\ IsFiniteSet(Z) /\ IsFiniteSet(s.left)
        /\ Cardinality(Z) \in Nat /\ Cardinality(s.left) \in Nat /\ Len(s.calls) \in Nat
    <3>1. /\ IsFiniteSet({u \in V : s.num[u] = 0}) /\ IsFiniteSet(s.left)
          /\ Cardinality({u \in V : s.num[u] = 0}) \in Nat
          /\ Cardinality(s.left) \in Nat /\ Len(s.calls) \in Nat
      BY <1>1, WeightIs, ZenonT(60)
    <3> QED  BY <1>3, <3>1
  <2>2. PICK cz \in Nat, cc \in Nat, cl \in Nat :
          cz = Cardinality(Z) /\ cc = Len(s.calls) /\ cl = Cardinality(s.left)
    BY <2>1
  <2>3. Weight(V, s) = 2 * Cardinality(Z) + Len(s.calls) + Cardinality(s.left)
    BY <1>3 DEF Weight
  <2> QED  BY <2>1, <2>2, <2>3
<1> SUFFICES /\ Searching(V, edges, q)
             /\ \/ s.calls = << >> /\ (\A u \in V : s.num[u] # 0) /\ q = s
                \/ Weight(V, q) <= Weight(V, s) - 1
  BY <1>0
<1>5. ASSUME NEW x \in V, s.num[x] = 0, NEW l \in SUBSET s.left,
             q = Call([s EXCEPT !.left = l], x),
             \/ s.calls = << >> /\ l = s.left
             \/ \E i \in s.left : /\ s.calls # << >> /\ edges[i].src = s.calls[Len(s.calls)]
                                  /\ edges[i].dst = x /\ l = s.left \ {i}
      PROVE  Searching(V, edges, q) /\ Weight(V, q) <= Weight(V, s) - 1
  <2>1. /\ Searching(V, edges, q) /\ \A u \in V : q.num[u] = 0 <=> s.num[u] = 0 /\ u # x
        /\ Len(q.calls) = cc + 1 /\ q.left = l
    <3>1. LET r == Call([s EXCEPT !.left = l], x)
          IN  /\ Searching(V, edges, r)
              /\ \A u \in V : r.num[u] = 0 <=> s.num[u] = 0 /\ u # x
              /\ Len(r.calls) = Len(s.calls) + 1 /\ r.left = l
      <4>1. Calling(V, edges, s, l, x)
        BY <1>5 DEF Calling
      <4> QED  BY <4>1, CallKeeps
    <3> QED  BY <1>4, <1>5, <3>1
  <2>2. x \in Z /\ {u \in V : q.num[u] = 0} = Z \ {x}
    BY <1>3, <1>5, <2>1
  <2>3. Cardinality(Z \ {x}) = cz - 1
    BY <1>4, <2>2, FS_RemoveElement
  <2>4. Cardinality(l) <= cl /\ Cardinality(l) \in Nat
    BY <1>4, FS_Subset, FS_CardinalityType
  <2>5. Weight(V, q) = 2 * (cz - 1) + (cc + 1) + Cardinality(l)
    BY <2>1, <2>2, <2>3 DEF Weight
  <2>6. PICK k \in Nat : k = Cardinality(l) /\ k <= cl
    BY <2>4
  <2>7. 2 * (cz - 1) + (cc + 1) + k <= (2 * cz + cc + cl) - 1
    BY <2>6
  <2> QED  BY <1>4, <2>1, <2>5, <2>6, <2>7
<1>6. ASSUME s.calls = << >>
      PROVE  /\ Searching(V, edges, q)
             /\ \/ (\A u \in V : s.num[u] # 0) /\ q = s
                \/ Weight(V, q) <= Weight(V, s) - 1
  <2>1. PICK new : new = {i \in DOMAIN nodes : s.num[nodes[i]] = 0}
    OBVIOUS
  <2>2. q = IF new = {} THEN s ELSE Call(s, nodes[LeastOf(new)])
    BY <1>0, <1>6, <2>1 DEF Search
  <2>3. CASE new = {}
    <3>1. \A u \in V : s.num[u] # 0
      BY <2>1, <2>3 DEF Members
    <3> QED  BY <2>2, <2>3, <3>1
  <2>4. CASE new # {}
    <3>1. DOMAIN nodes \subseteq Nat
      OBVIOUS
    <3>2. LeastOf(new) \in new
      BY <2>1, <2>4, <3>1, LeastOfIs
    <3>3. PICK x \in V : x = nodes[LeastOf(new)] /\ s.num[x] = 0
      BY <2>1, <3>2 DEF Members
    <3>4. PICK t : t = [s EXCEPT !.left = s.left]
      OBVIOUS
    <3>5. t = s
      BY <1>1, <3>4
    <3>6. q = Call([s EXCEPT !.left = s.left], x)
      BY <2>2, <2>4, <3>3, <3>4, <3>5
    <3> QED  BY <1>5, <1>6, <3>3, <3>6
  <2> QED  BY <2>3, <2>4
<1>7. ASSUME s.calls # << >>
      PROVE  Searching(V, edges, q) /\ Weight(V, q) <= Weight(V, s) - 1
  <2>1. PICK v : v = s.calls[Len(s.calls)]
    OBVIOUS
  <2>2. PICK along : along = {i \in s.left : edges[i].src = v}
    OBVIOUS
  <2>3. PICK looked : looked = [s EXCEPT !.left = @ \ {LeastOf(along)}]
    OBVIOUS
  <2>4. PICK to : to = edges[LeastOf(along)].dst
    OBVIOUS
  <2>5. q = IF along = {} THEN Return(s)
            ELSE IF s.num[to] = 0 THEN Call(looked, to)
            ELSE IF to \in s.stack THEN Lower(looked, v, s.num[to]) ELSE looked
    BY <1>0, <1>7, <2>1, <2>2, <2>3, <2>4 DEF Search
  <2>6. CASE along = {}
    <3>1. \A i \in s.left : edges[i].src # v
      BY <2>2, <2>6
    <3>2. /\ Searching(V, edges, q) /\ Len(q.calls) = cc - 1 /\ q.num = s.num /\ q.left = s.left
      <4>1. q = Return(s)
        BY <2>5, <2>6
      <4>2. Returning(edges, s)
        BY <1>7, <2>1, <3>1 DEF Returning
      <4>3. /\ Searching(V, edges, Return(s)) /\ Len(Return(s).calls) = Len(s.calls) - 1
            /\ Return(s).num = s.num /\ Return(s).left = s.left
        BY <4>2, CloseKeeps, HandBackKeeps
      <4> QED  BY <1>4, <4>1, <4>3
    <3>3. Weight(V, q) = 2 * cz + (cc - 1) + cl
      BY <1>3, <1>4, <3>2 DEF Weight
    <3>4. 2 * cz + (cc - 1) + cl <= (2 * cz + cc + cl) - 1
      OBVIOUS
    <3> QED  BY <1>4, <3>2, <3>3, <3>4
  <2>7. CASE along # {}
    <3>1. along \subseteq Nat
      BY <1>1, <2>2
    <3>2. PICK i \in s.left : i = LeastOf(along) /\ edges[i].src = v
      BY <2>2, <2>7, <3>1, LeastOfIs
    <3>3. to \in V
      BY <1>1, <2>4, <3>2 DEF Joins
    <3>4. CASE s.num[to] = 0
      <4>1. PICK l \in SUBSET s.left : l = s.left \ {i}
        OBVIOUS
      <4>2. q = Call([s EXCEPT !.left = l], to)
        BY <2>3, <2>5, <2>7, <3>2, <3>4, <4>1
      <4> QED  BY <1>5, <1>7, <2>1, <2>4, <3>2, <3>3, <3>4, <4>1, <4>2
    <3>5. CASE s.num[to] # 0
      <4>1. looked = [s EXCEPT !.left = @ \ {i}] /\ to = edges[i].dst
        BY <2>3, <2>4, <3>2
      <4>2. q = IF to \in s.stack THEN Lower(looked, v, s.num[to]) ELSE looked
        BY <2>5, <2>7, <3>5
      <4>3. Searching(V, edges, q) /\ q.num = s.num /\ q.calls = s.calls /\ q.left = s.left \ {i}
        BY <1>7, <2>1, <3>2, <3>5, <4>1, <4>2, LookKeeps
      <4>4. Cardinality(s.left \ {i}) = cl - 1
        BY <1>4, FS_RemoveElement
      <4>5. Weight(V, q) = 2 * cz + cc + (cl - 1)
        BY <1>3, <1>4, <4>3, <4>4 DEF Weight
      <4> QED  BY <1>4, <4>3, <4>5
    <3> QED  BY <3>4, <3>5
  <2> QED  BY <2>6, <2>7
<1> QED  BY <1>6, <1>7

\* The components of a list of edges over the nodes V, in the order they are closed: what
\* lies in one reaches itself, and no edge leads on from those closed so far.
ClosedInTurn(V, edges, comps) ==
  /\ comps \in Seq(SUBSET V) /\ UNION Members(comps) = V
  /\ Parted(Pairs(edges), V, [closed |-> comps])
  /\ \A i \in DOMAIN edges : \A k \in DOMAIN comps : edges[i].src \in comps[k] =>
       \E j \in DOMAIN comps : j <= k /\ edges[i].dst \in comps[j]

\* Tarjan's search comes to its end in as many turns as Components gives it.
LEMMA ComponentsEnd ==
  ASSUME NEW T, NEW nodes \in Seq(T), NEW V, V = Members(nodes),
         NEW F, NEW edges \in Seq(F), Joins(V, edges)
  PROVE  ClosedInTurn(V, edges, Components(nodes, edges))
<1>1. PICK N \in Nat, E \in Nat : N = Len(nodes) /\ E = Len(edges)
  OBVIOUS
<1>2. PICK turns \in Nat : turns = 2 * N + E
  OBVIOUS
<1>3. DOMAIN edges = 1..E /\ IsFiniteSet(DOMAIN edges) /\ Cardinality(DOMAIN edges) = E
      /\ DOMAIN edges \subseteq Nat
  <2>1. DOMAIN edges = 1..E
    BY <1>1
  <2>2. IsFiniteSet(1..E) /\ Cardinality(1..E) = IF 1 > E THEN 0 ELSE E - 1 + 1
    BY FS_Interval
  <2> QED  BY <2>1, <2>2
<1>4. PICK cn \in Nat : IsFiniteSet(V) /\ cn = Cardinality(V) /\ cn <= N
  BY <1>1, MembersAreFew
<1> DEFINE none == [v \in Members(nodes) |-> 0]
           start == [num |-> none, low |-> none, counter |-> 1, stack |-> {}, calls |-> << >>,
                     left |-> DOMAIN edges, closed |-> << >>]
           D == {s \in SearchStates(V, edges) : Searching(V, edges, s)}
           step == [w \in (1..turns) \X D |-> Search(nodes, edges, w[2])]
           Turns(f) == f = [n \in 0..turns |-> IF n = 0 THEN start ELSE Search(nodes, edges, f[n - 1])]
<1>5. /\ start.num = [v \in V |-> 0] /\ start.low = [v \in V |-> 0] /\ start.counter = 1
      /\ start.stack = {} /\ start.calls = << >> /\ start.left = DOMAIN edges /\ start.closed = << >>
      /\ start = [num |-> start.num, low |-> start.low, counter |-> start.counter,
                  stack |-> start.stack, calls |-> start.calls, left |-> start.left,
                  closed |-> start.closed]
  OBVIOUS
<1>6. start \in D
  <2> PICK s : s = start
    OBVIOUS
  <2>1. /\ s.num = [v \in V |-> 0] /\ s.low = [v \in V |-> 0] /\ s.counter = 1
        /\ s.stack = {} /\ s.calls = << >> /\ s.left = DOMAIN edges /\ s.closed = << >>
        /\ s = [num |-> s.num, low |-> s.low, counter |-> s.counter, stack |-> s.stack,
                calls |-> s.calls, left |-> s.left, closed |-> s.closed]
    BY <1>5
  <2> HIDE DEF start
  <2>2. s \in SearchStates(V, edges)
    <3>1. /\ s.num \in [V -> Nat] /\ s.low \in [V -> Nat] /\ s.counter \in Nat
          /\ s.stack \in SUBSET V /\ s.left \in SUBSET DOMAIN edges
      BY <2>1
    <3>2. s.calls \in Seq(V) /\ s.closed \in Seq(SUBSET V)
      BY <2>1
    <3> QED  BY <2>1, <3>1, <3>2, StateIs
  <2>3. DOMAIN s.calls = {} /\ DOMAIN s.closed = {} /\ Members(s.calls) = {} /\ Gone(s) = {}
    BY <2>1 DEF Gone, Members
  <2>4. \A v \in V : s.num[v] = 0
    BY <2>1
  <2>5. Numbered(V, s) /\ Called(s)
    BY <2>1, <2>3, <2>4 DEF Numbered, Called
  <2>6. Seen(edges, s)
    BY <2>1, <2>3, <2>4 DEF Seen, Joins
  <2>7. Linked(Pairs(edges), V, s) /\ Parted(Pairs(edges), V, s)
    BY <2>1, <2>3 DEF Linked, Parted
  <2>8. Searching(V, edges, s)
    BY <2>2, <2>5, <2>6, <2>7 DEF Searching
  <2> QED  BY <2>2, <2>8
<1>7. Weight(V, start) <= turns
  <2>1. {u \in V : start.num[u] = 0} = V
    BY <1>5
  <2>2. Len(start.calls) = 0 /\ Cardinality(start.left) = E
    BY <1>3, <1>5
  <2> HIDE DEF start
  <2>3. Weight(V, start) = 2 * cn + 0 + E
    BY <1>4, <2>1, <2>2 DEF Weight
  <2>4. 2 * cn + 0 + E <= 2 * N + E
    BY <1>4
  <2> QED  BY <1>2, <2>3, <2>4
<1> HIDE DEF start
<1>8. ASSUME NEW s \in D
      PROVE  /\ Search(nodes, edges, s) \in D
             /\ \/ s.calls = << >> /\ (\A u \in V : s.num[u] # 0) /\ Search(nodes, edges, s) = s
                \/ Weight(V, Search(nodes, edges, s)) <= Weight(V, s) - 1
             /\ Weight(V, s) \in Nat /\ Weight(V, Search(nodes, edges, s)) \in Nat
  <2>1. Searching(V, edges, s) /\ s \in SearchStates(V, edges)
    OBVIOUS
  <2>2. LET q == Search(nodes, edges, s)
        IN  /\ Searching(V, edges, q)
            /\ \/ s.calls = << >> /\ (\A u \in V : s.num[u] # 0) /\ q = s
               \/ Weight(V, q) <= Weight(V, s) - 1
    BY <1>3, <1>4, <2>1, SearchKeeps
  <2>3. Search(nodes, edges, s) \in SearchStates(V, edges)
    BY <2>2 DEF Searching
  <2> QED  BY <1>3, <1>4, <2>1, <2>2, <2>3, WeightIs
<1> HIDE DEF D
<1>9. step \in [(1..turns) \X D -> D]
  BY <1>8
<1>10. \A n \in 1..turns, s \in D : step[<<n, s>>] = Search(nodes, edges, s)
  OBVIOUS
<1> HIDE DEF step
<1>11. PICK f \in [0..turns -> D] : Rounds(f, turns, start, step)
  BY <1>6, <1>9, RoundsExist
<1>12. \A n \in 0..turns : f[n] = IF n = 0 THEN start ELSE step[<<n, f[n - 1]>>]
  BY <1>11 DEF Rounds
<1>13. \A n \in 0..turns : n # 0 => n \in 1..turns /\ n - 1 \in 0..turns
  OBVIOUS
<1>14. \A n \in 0..turns : n # 0 => step[<<n, f[n - 1]>>] = Search(nodes, edges, f[n - 1])
  BY <1>10, <1>11, <1>13
<1>15. Turns(f)
  BY <1>11, <1>12, <1>14
<1>16. PICK searched : Turns(searched) /\ Components(nodes, edges) = searched[turns].closed
  <2> DEFINE h == CHOOSE k : Turns(k)
  <2>1. Turns(h)
    BY <1>15
  <2>2. Components(nodes, edges) = h[turns].closed
    BY <1>1, <1>2 DEF Components, start
  <2> HIDE DEF h
  <2> QED  BY <2>1, <2>2
<1>17. \A n \in 0..turns : searched[n] = IF n = 0 THEN start ELSE Search(nodes, edges, searched[n - 1])
  BY <1>16
<1> DEFINE ended(s) == s.calls = << >> /\ \A u \in V : s.num[u] # 0
           P == {n \in 0..turns : /\ searched[n] \in D
                                  /\ ended(searched[n]) \/ Weight(V, searched[n]) <= turns - n}
<1>18. 0 \in P
  BY <1>6, <1>7, <1>17
<1>19. ASSUME NEW n \in 1..turns, n - 1 \in P  PROVE n \in P
  <2>1. n \in 0..turns /\ n - 1 \in 0..turns /\ n # 0 /\ n \in Nat
    OBVIOUS
  <2>2. PICK s \in D : s = searched[n - 1] /\ (ended(s) \/ Weight(V, s) <= turns - (n - 1))
    BY <1>19
  <2>3. searched[n] = Search(nodes, edges, s)
    BY <1>17, <2>1, <2>2
  <2>4. /\ Search(nodes, edges, s) \in D
        /\ Weight(V, s) \in Nat /\ Weight(V, Search(nodes, edges, s)) \in Nat
        /\ \/ ended(s) /\ Search(nodes, edges, s) = s
           \/ Weight(V, Search(nodes, edges, s)) <= Weight(V, s) - 1
    BY <1>8
  <2>5. ASSUME ended(s)  PROVE ended(Search(nodes, edges, s))
    <3>1. Search(nodes, edges, s) = s
      <4>1. {i \in DOMAIN nodes : s.num[nodes[i]] = 0} = {}
        BY <2>5 DEF Members
      <4> QED  BY <2>5, <4>1 DEF Search
    <3> QED  BY <2>5, <3>1
  <2>6. ASSUME ~ended(s)  PROVE Weight(V, Search(nodes, edges, s)) <= turns - n
    <3>1. PICK w \in Nat, v \in Nat : w = Weight(V, s) /\ v = Weight(V, Search(nodes, edges, s))
      BY <2>4
    <3>2. w <= turns - (n - 1) /\ v <= w - 1
      BY <2>2, <2>4, <2>6, <3>1
    <3>3. v <= turns - n
      BY <2>1, <3>2
    <3> QED  BY <3>1, <3>3
  <2> HIDE DEF ended
  <2> QED  BY <2>1, <2>3, <2>4, <2>5, <2>6
<1> HIDE DEF P
<1>20. turns \in P
  <2>1. 0..turns \subseteq P
    BY <1>18, <1>19, Along
  <2> QED  BY <2>1
<1>21. PICK s \in D : s = searched[turns] /\ (ended(s) \/ Weight(V, s) <= 0)
  <2>1. turns - turns = 0
    OBVIOUS
  <2> HIDE DEF ended
  <2> QED  BY <1>20, <2>1 DEF P
<1>22. Searching(V, edges, s) /\ s \in SearchStates(V, edges)
  BY <1>21 DEF D
<1>23. ended(s)
  <2> SUFFICES ASSUME Weight(V, s) <= 0  PROVE ended(s)
    BY <1>21
  <2>1. PICK Z : Z = {u \in V : s.num[u] = 0}
    OBVIOUS
  <2>1a. IsFiniteSet(Z) /\ Cardinality(Z) \in Nat /\ Cardinality(s.left) \in Nat /\ Len(s.calls) \in Nat
    <3>1. IsFiniteSet(V) /\ IsFiniteSet(DOMAIN edges) /\ s \in SearchStates(V, edges)
      BY <1>3, <1>4, <1>22
    <3>2. /\ IsFiniteSet({u \in V : s.num[u] = 0}) /\ Cardinality({u \in V : s.num[u] = 0}) \in Nat
          /\ Cardinality(s.left) \in Nat /\ Len(s.calls) \in Nat
      BY <3>1, WeightIs, ZenonT(60)
    <3> QED  BY <2>1, <3>2
  <2>2. PICK cz \in Nat, cc \in Nat, cl \in Nat :
          cz = Cardinality(Z) /\ cc = Len(s.calls) /\ cl = Cardinality(s.left)
    BY <2>1a
  <2>2a. Weight(V, s) = 2 * Cardinality(Z) + Len(s.calls) + Cardinality(s.left)
    BY <2>1 DEF Weight
  <2>3. Weight(V, s) = 2 * cz + cc + cl
    BY <2>2, <2>2a
  <2>4. cz = 0 /\ cc = 0
    BY <2>2, <2>3
  <2>5. Z = {}
    BY <2>1a, <2>2, <2>4, FS_EmptySet
  <2>6. s.calls \in Seq(V) /\ Len(s.calls) = 0
    BY <1>22, <2>2, <2>4 DEF SearchStates
  <2>7. s.calls = << >>
    BY <2>6, EmptySeq
  <2> QED  BY <2>1, <2>5, <2>7
<1>24. Members(s.calls) = {} /\ s.stack = {}
  <2>1. s.stack = {}
    BY <1>22, <1>23 DEF Searching, Called
  <2> QED  BY <1>23, <2>1 DEF Members
<1>25. UNION Members(s.closed) = V
  <2>1. s.closed \in Seq(SUBSET V)
    BY <1>22 DEF SearchStates
  <2>2. UNION Members(s.closed) \subseteq V
    BY <2>1 DEF Members
  <2>3. \A u \in V : u \in Gone(s)
    BY <1>22, <1>23, <1>24 DEF Searching, Numbered
  <2> QED  BY <2>2, <2>3 DEF Gone
<1>26. Parted(Pairs(edges), V, [closed |-> s.closed])
  BY <1>22 DEF Searching, Parted
<1>27. \A i \in DOMAIN edges : \A k \in DOMAIN s.closed : edges[i].src \in s.closed[k] =>
         \E j \in DOMAIN s.closed : j <= k /\ edges[i].dst \in s.closed[j]
  BY <1>22 DEF Searching, Seen
<1>28. s.closed \in Seq(SUBSET V)
  BY <1>22 DEF SearchStates
<1> QED  BY <1>16, <1>21, <1>25, <1>26, <1>27, <1>28 DEF ClosedInTurn

-----------------------------------------------------------------------------
(* Kahn's order                                                            *)

\* Components in turn: they are apart, and no edge leads on from the first of them.
InTurn(V, comps, edges) ==
  /\ comps \in Seq(SUBSET V)
  /\ \A j, k \in DOMAIN comps : j # k => comps[j] \cap comps[k] = {}
  /\ \A k \in DOMAIN comps : comps[k] # {}
  /\ \A e \in Members(edges) : \A k \in DOMAIN comps : e.src \in comps[k] =>
       \E j \in DOMAIN comps : j <= k /\ e.dst \in comps[j]

\* The next component: it awaits none through a hard edge, and none through any if there
\* is such a one.
Next1(comps, hard, all, todo) ==
  Head(IF Open(comps, todo, all) # << >> THEN Open(comps, todo, all) ELSE Open(comps, todo, hard))
Drawable(hard, all, todo, c) ==
  /\ c \in todo /\ ~Awaits(todo, c, hard)
  /\ ~Awaits(todo, c, all) \/ \A d \in todo : Awaits(todo, d, all)

LEMMA NextIs ==
  ASSUME NEW V, NEW comps, NEW hard, NEW all, InTurn(V, comps, hard),
         Members(hard) \subseteq Members(all),
         NEW todo, todo \subseteq Members(comps), todo # {}
  PROVE  Drawable(hard, all, todo, Next1(comps, hard, all, todo))
<1>1. PICK P : P = SUBSET V /\ comps \in Seq(P)
  BY DEF InTurn
<1>2. ASSUME NEW edges
      PROVE  /\ Open(comps, todo, edges) = << >> <=> \A c \in todo : Awaits(todo, c, edges)
             /\ Open(comps, todo, edges) # << >> =>
                  /\ Head(Open(comps, todo, edges)) \in todo
                  /\ ~Awaits(todo, Head(Open(comps, todo, edges)), edges)
  <2>1. PICK S : S = {c \in todo : ~Awaits(todo, c, edges)}
    OBVIOUS
  <2>2. PICK o : o = Open(comps, todo, edges)
    OBVIOUS
  <2>3. o \in Seq(P \cap S) /\ Members(o) = Members(comps) \cap S
    BY <1>1, <2>1, <2>2, ThoseIs DEF Open
  <2>4. Members(o) = S
    BY <2>1, <2>3
  <2>5. o # << >> => Head(o) \in S
    BY <2>3
  <2>6. o = << >> => S = {}
    BY <2>4 DEF Members
  <2> QED  BY <2>1, <2>2, <2>5, <2>6
<1>3. \E c \in todo : ~Awaits(todo, c, hard)
  <2>1. PICK N \in Nat : N = Len(comps) /\ DOMAIN comps = 1..N
    BY <1>1, OneMore
  <2>2. PICK K \in SUBSET (1..N) : K = {k \in 1..N : comps[k] \in todo}
    OBVIOUS
  <2>3. K # {}
    BY <2>1, <2>2 DEF Members
  <2>4. PICK k \in K : \A m \in K : m <= k
    BY <2>3, LastPlace
  <2>5. comps[k] \in todo
    BY <2>2
  <2>6. ASSUME Awaits(todo, comps[k], hard)  PROVE FALSE
    <3>1. PICK e \in Members(hard), d \in todo \ {comps[k]} : e.dst \in comps[k] /\ e.src \in d
      BY <2>6 DEF Awaits
    <3>2. PICK m \in 1..N : comps[m] = d
      BY <2>1, <3>1 DEF Members
    <3>3. m \in K /\ m # k
      BY <2>2, <3>1, <3>2
    <3>4. m <= k
      BY <2>4, <3>3
    <3>5. PICK j \in 1..N : j <= m /\ e.dst \in comps[j]
      BY <2>1, <3>1, <3>2 DEF InTurn
    <3>6. j # k
      BY <3>3, <3>4, <3>5
    <3>7. comps[j] \cap comps[k] = {}
      BY <2>1, <3>6 DEF InTurn
    <3> QED  BY <3>1, <3>5, <3>7
  <2> QED  BY <2>5, <2>6
<1>4. \A c : Awaits(todo, c, hard) => Awaits(todo, c, all)
  BY DEF Awaits
<1> QED  BY <1>2, <1>3, <1>4 DEF Next1, Drawable

\* What is still to be drawn at the n-th place.
ToDo(comps, order, n) == Members(comps) \ {order[k] : k \in 1..(n - 1)}
DrawnInTurn(comps, hard, all, order, N) ==
  /\ order \in Seq(Members(comps)) /\ Len(order) = N
  /\ \A n \in 1..N : Drawable(hard, all, ToDo(comps, order, n), order[n])

\* One draw more.
LEMMA DrawOne ==
  ASSUME NEW V, NEW comps, NEW hard, NEW all, InTurn(V, comps, hard),
         Members(hard) \subseteq Members(all),
         NEW n \in Nat, n < Len(comps), NEW order, DrawnInTurn(comps, hard, all, order, n)
  PROVE  LET c == Next1(comps, hard, all, Members(comps) \ Members(order))
         IN  DrawnInTurn(comps, hard, all, Append(order, c), n + 1)
<1>1. PICK C : C = Members(comps)
  OBVIOUS
<1>2. PICK todo : todo = C \ Members(order)
  OBVIOUS
<1>3. order \in Seq(C) /\ Len(order) = n /\ DOMAIN order = 1..n
      /\ \A k \in 1..n : Drawable(hard, all, ToDo(comps, order, k), order[k])
  <2>1. order \in Seq(C) /\ Len(order) = n
    BY <1>1 DEF DrawnInTurn
  <2> QED  BY <2>1 DEF DrawnInTurn
<1>4. todo # {}
  <2>1. PICK N \in Nat : N = Len(comps) /\ DOMAIN comps = 1..N
    BY OneMore DEF InTurn
  <2>2. \A j, k \in 1..N : comps[j] = comps[k] => j = k
    BY <2>1 DEF InTurn
  <2>3. comps \in [1..N -> C] /\ \A c \in C : \E k \in 1..N : comps[k] = c
    <3>1. comps = [k \in 1..N |-> comps[k]]
      BY <2>1 DEF InTurn
    <3> QED  BY <1>1, <2>1, <3>1 DEF Members
  <2>4. ExistsBijection(1..N, C)
    BY <2>2, <2>3 DEF ExistsBijection, Bijection, Injection, Surjection, IsInjective
  <2>5. IsFiniteSet(C) /\ Cardinality(C) = N
    BY <2>1, <2>4, FS_NatBijection, FS_CountingElements
  <2>6. Cardinality(Members(order)) <= n /\ Cardinality(Members(order)) \in Nat
    BY <1>3, MembersAreFew
  <2>7. Members(order) \subseteq C
    BY <1>3 DEF Members
  <2>8. Members(order) # C
    BY <2>1, <2>5, <2>6
  <2> QED  BY <1>2, <2>7, <2>8
<1>5. PICK c : c = Next1(comps, hard, all, todo) /\ Drawable(hard, all, todo, c)
  BY <1>1, <1>2, <1>4, NextIs
<1>6. c \in C
  BY <1>2, <1>5 DEF Drawable
<1>7. PICK more : more = Append(order, c)
  OBVIOUS
<1>8. /\ more \in Seq(C) /\ Len(more) = n + 1 /\ more[n + 1] = c
      /\ \A k \in 1..n : more[k] = order[k]
  BY <1>3, <1>6, <1>7, OneMore
<1>9. ASSUME NEW m \in 1..(n + 1)  PROVE Drawable(hard, all, ToDo(comps, more, m), more[m])
  <2>1. \A k \in 1..(m - 1) : k \in 1..n /\ more[k] = order[k]
    BY <1>8
  <2>2. ToDo(comps, more, m) = ToDo(comps, order, m)
    BY <2>1 DEF ToDo
  <2>3. CASE m = n + 1
    <3>1. m - 1 = n
      BY <2>3
    <3>2. ToDo(comps, order, m) = todo
      BY <1>1, <1>2, <1>3, <3>1 DEF ToDo, Members
    <3> QED  BY <1>5, <1>8, <2>2, <2>3, <3>2
  <2>4. CASE m # n + 1
    <3>1. m \in 1..n
      BY <2>4
    <3> QED  BY <1>3, <1>8, <2>2, <3>1
  <2> QED  BY <2>3, <2>4
<1>10. DrawnInTurn(comps, hard, all, more, n + 1)
  BY <1>1, <1>8, <1>9 DEF DrawnInTurn
<1> QED  BY <1>1, <1>2, <1>5, <1>7, <1>10

\* Kahn draws every component once, each in its turn.
LEMMA KahnIs ==
  ASSUME NEW V, NEW comps, NEW hard, NEW all, InTurn(V, comps, hard),
         Members(hard) \subseteq Members(all)
  PROVE  /\ DrawnInTurn(comps, hard, all, Kahn(comps, hard, all), Len(comps))
         /\ Members(Kahn(comps, hard, all)) = Members(comps)
<1>1. PICK N \in Nat : N = Len(comps) /\ DOMAIN comps = 1..N
  BY OneMore DEF InTurn
<1>2. PICK C : C = Members(comps)
  OBVIOUS
<1> DEFINE add(q) == Append(q, Next1(comps, hard, all, Members(comps) \ Members(q)))
           Draws(f) == f = [n \in 0..N |-> IF n = 0 THEN << >> ELSE add(f[n - 1])]
           step == [w \in (1..N) \X Seq(C) |->
                      IF DrawnInTurn(comps, hard, all, w[2], w[1] - 1) THEN add(w[2]) ELSE w[2]]
<1>3. ASSUME NEW n \in 1..N, NEW q \in Seq(C), DrawnInTurn(comps, hard, all, q, n - 1)
      PROVE  DrawnInTurn(comps, hard, all, add(q), n) /\ add(q) \in Seq(C)
  <2>1. PICK m \in Nat : m = n - 1 /\ m < Len(comps) /\ m + 1 = n
    BY <1>1
  <2>2. DrawnInTurn(comps, hard, all, add(q), m + 1)
    BY <1>3, <2>1, DrawOne
  <2>3. DrawnInTurn(comps, hard, all, add(q), n)
    BY <2>1, <2>2
  <2> HIDE DEF add
  <2> QED  BY <1>2, <2>3 DEF DrawnInTurn
<1> HIDE DEF add
<1>4. step \in [(1..N) \X Seq(C) -> Seq(C)]
  BY <1>3
<1>5. \A n \in 1..N, q \in Seq(C) : DrawnInTurn(comps, hard, all, q, n - 1) => step[<<n, q>>] = add(q)
  OBVIOUS
<1> HIDE DEF step
<1>6. << >> \in Seq(C)
  OBVIOUS
<1>7. PICK f \in [0..N -> Seq(C)] : Rounds(f, N, << >>, step)
  BY <1>4, <1>6, RoundsExist
<1>8. \A n \in 0..N : f[n] = IF n = 0 THEN << >> ELSE step[<<n, f[n - 1]>>]
  BY <1>7 DEF Rounds
<1>9. \A n \in 0..N : n # 0 => n \in 1..N /\ n - 1 \in 0..N
  OBVIOUS
<1>10. DrawnInTurn(comps, hard, all, << >>, 0)
  BY <1>2, <1>6 DEF DrawnInTurn
<1> DEFINE P == {n \in 0..N : DrawnInTurn(comps, hard, all, f[n], n)}
<1>11. 0 \in P
  <2>1. 0 \in 0..N
    OBVIOUS
  <2>2. f[0] = << >>
    BY <1>8, <2>1
  <2> QED  BY <1>10, <2>1, <2>2
<1>12. ASSUME NEW n \in 1..N, n - 1 \in P  PROVE n \in P
  <2>1. n \in 0..N /\ n # 0 /\ n - 1 \in 0..N /\ DrawnInTurn(comps, hard, all, f[n - 1], n - 1)
    BY <1>12
  <2>2. f[n - 1] \in Seq(C)
    BY <1>7, <2>1
  <2>3. f[n] = add(f[n - 1])
    BY <1>5, <1>8, <2>1, <2>2
  <2>4. DrawnInTurn(comps, hard, all, add(f[n - 1]), n)
    BY <1>3, <2>1, <2>2
  <2> QED  BY <2>1, <2>3, <2>4
<1>13. 0..N \subseteq P
  BY <1>11, <1>12, Along
<1>14. \A n \in 0..N : DrawnInTurn(comps, hard, all, f[n], n)
  BY <1>13
<1> HIDE DEF P
<1>15. \A n \in 0..N : n # 0 => step[<<n, f[n - 1]>>] = add(f[n - 1])
  BY <1>5, <1>7, <1>9, <1>14
<1>16. Draws(f)
  BY <1>7, <1>8, <1>15
<1>17. PICK drawn : Draws(drawn) /\ Kahn(comps, hard, all) = drawn[N]
  <2> DEFINE h == CHOOSE k : Draws(k)
  <2>1. Draws(h)
    BY <1>16
  <2>2. Kahn(comps, hard, all) = h[N]
    BY <1>1 DEF Kahn, add, Next1
  <2> HIDE DEF h
  <2> QED  BY <2>1, <2>2
<1>18. drawn = f
  <2>1. \A n \in 0..N : drawn[n] = IF n = 0 THEN << >> ELSE add(drawn[n - 1])
    BY <1>17
  <2>2. \A n \in 0..N : f[n] = IF n = 0 THEN << >> ELSE add(f[n - 1])
    BY <1>16
  <2> DEFINE Same == {n \in 0..N : drawn[n] = f[n]}
  <2>3. 0 \in Same
    BY <2>1, <2>2
  <2>4. ASSUME NEW n \in 1..N, n - 1 \in Same  PROVE n \in Same
    BY <2>1, <2>2, <2>4
  <2>5. 0..N \subseteq Same
    BY <2>3, <2>4, Along
  <2>6. DOMAIN drawn = 0..N /\ drawn = [n \in 0..N |-> drawn[n]] /\ f = [n \in 0..N |-> f[n]]
    BY <1>7, <1>17
  <2> QED  BY <2>5, <2>6
<1>19. PICK order : order = Kahn(comps, hard, all) /\ DrawnInTurn(comps, hard, all, order, N)
  <2>1. N \in 0..N
    OBVIOUS
  <2> QED  BY <1>14, <1>17, <1>18, <2>1
<1>20. order \in Seq(C) /\ Len(order) = N /\ DOMAIN order = 1..N
       /\ \A k \in 1..N : Drawable(hard, all, ToDo(comps, order, k), order[k])
  <2>1. order \in Seq(C) /\ Len(order) = N
    BY <1>2, <1>19 DEF DrawnInTurn
  <2> QED  BY <1>19, <2>1 DEF DrawnInTurn
<1>21. \A j, k \in 1..N : j < k => order[j] # order[k]
  <2> SUFFICES ASSUME NEW j \in 1..N, NEW k \in 1..N, j < k  PROVE order[j] # order[k]
    OBVIOUS
  <2>1. j \in 1..(k - 1)
    OBVIOUS
  <2> QED  BY <1>20, <2>1 DEF Drawable, ToDo
<1>22. Members(order) = C
  <2>1. order \in [1..N -> Members(order)] /\ \A c \in Members(order) : \E k \in 1..N : order[k] = c
    <3>1. order = [k \in 1..N |-> order[k]]
      BY <1>20
    <3> QED  BY <1>20, <3>1 DEF Members
  <2>2. \A j, k \in 1..N : order[j] = order[k] => j = k
    <3> SUFFICES ASSUME NEW j \in 1..N, NEW k \in 1..N, j # k  PROVE order[j] # order[k]
      OBVIOUS
    <3>1. j < k \/ k < j
      OBVIOUS
    <3> QED  BY <1>21, <3>1
  <2>3. ExistsBijection(1..N, Members(order))
    BY <2>1, <2>2 DEF ExistsBijection, Bijection, Injection, Surjection, IsInjective
  <2>4. Cardinality(Members(order)) = N
    BY <2>3, FS_NatBijection, FS_CountingElements
  <2>5. IsFiniteSet(C) /\ Cardinality(C) <= N /\ Cardinality(C) \in Nat
    BY <1>1, <1>2, MembersAreFew DEF InTurn
  <2>6. Members(order) \subseteq C
    BY <1>20 DEF Members
  <2>7. Cardinality(Members(order)) <= Cardinality(C)
        /\ (Cardinality(C) = Cardinality(Members(order)) => C = Members(order))
    BY <2>5, <2>6, FS_Subset
  <2> QED  BY <2>4, <2>5, <2>7
<1> QED  BY <1>1, <1>2, <1>19, <1>22

\* Where everyone in a set of places is led to from another one of it, two lead to each other.
LEMMA SomeLoop ==
  ASSUME NEW W, NEW V, NEW J \in SUBSET V, IsFiniteSet(J), J # {},
         \A j \in J : \E m \in J : m # j /\ <<m, j>> \in W
  PROVE  \E i, j \in J : i # j /\ Both(W, V, i, j)
<1> DEFINE A(j) == {x \in J : Leads(W, V, x, j)}
           n == [j \in J |-> Cardinality(A(j))]
           S == {n[j] : j \in J}
<1>1. \A j \in J : IsFiniteSet(A(j)) /\ Cardinality(A(j)) \in Nat
  BY FS_Subset, FS_CardinalityType
<1>2. \A j \in J : n[j] = Cardinality(A(j)) /\ n[j] \in Nat
  BY <1>1
<1> HIDE DEF n
<1>3. S \subseteq Nat /\ S # {}
  BY <1>2
<1>4. PICK k \in S : \A m \in S : k <= m
  BY <1>3, LeastNatural
<1>5. PICK j \in J : n[j] = k
  OBVIOUS
<1>6. PICK m \in J : m # j /\ <<m, j>> \in W
  OBVIOUS
<1>7. Leads(W, V, m, j)
  BY <1>6, LeadsOn
<1>8. A(m) \subseteq A(j)
  <2>1. \A x \in J : Leads(W, V, x, m) => Leads(W, V, x, j)
    BY <1>7, LeadsOn
  <2> QED  BY <2>1
<1>9. n[j] <= n[m]
  BY <1>4, <1>5
<1>10. A(m) = A(j)
  <2>1. PICK a, b : a = A(m) /\ b = A(j)
    OBVIOUS
  <2>2. IsFiniteSet(b) /\ a \subseteq b /\ Cardinality(b) <= Cardinality(a)
        /\ Cardinality(a) \in Nat /\ Cardinality(b) \in Nat
    BY <1>1, <1>2, <1>8, <1>9, <2>1
  <2>3. Cardinality(a) <= Cardinality(b) /\ (Cardinality(b) = Cardinality(a) => b = a)
    BY <2>2, FS_Subset
  <2> QED  BY <2>1, <2>2, <2>3
<1>11. Leads(W, V, j, j)
  BY LeadsOn
<1>12. j \in A(j)
  BY <1>11
<1>13. Leads(W, V, j, m)
  BY <1>10, <1>12
<1> QED  BY <1>6, <1>7, <1>13 DEF Both

-----------------------------------------------------------------------------
(* The segments of a plan                                                  *)

\* A buffer joins block nodes.
LEMMA BuffersJoinBlocks ==
  ASSUME NEW d \in Docs
  PROVE  LET p == Built(d)
             edges == p.wiring["buffer"]
         IN  /\ p.blocks \in Seq(Id) /\ edges \in Seq(Edge)
             /\ Joins(Members(p.blocks), edges)
             /\ p.segments = Segments(p.blocks, edges)
<1>1. d.nodes \in Seq(Id) /\ d.edges \in Seq(Edge)
  BY PumpAssumption
<1>2. PICK block : block = BlockOf(d)
  OBVIOUS
<1>3. PICK p : p = Built(d)
  OBVIOUS
<1>4. /\ p.blocks = Those(d.nodes, block) /\ p.wiring = Wiring(d)
      /\ p.segments = Segments(p.blocks, p.wiring["buffer"])
  BY <1>2, <1>3 DEF Built
<1>5. PICK carried : carried = {f \in Members(d.edges) : Carrier(block, f) = "buffer"}
  OBVIOUS
<1>6. p.wiring["buffer"] = Those(d.edges, carried)
  BY <1>2, <1>4, <1>5 DEF Wiring, Carriers
<1>7. PICK edges : edges = p.wiring["buffer"]
  OBVIOUS
<1>8. Cut(p)
  BY <1>3, BuiltIsCut
<1>9. edges \in Seq(Edge) /\ p.blocks \in Seq(Id)
  BY <1>7, <1>8 DEF Cut, Carriers
<1>10. Members(edges) = Members(d.edges) \cap carried
  <2>1. edges = Those(d.edges, carried)
    BY <1>6, <1>7
  <2>2. Members(Those(d.edges, carried)) = Members(d.edges) \cap carried
    BY <1>1, ThoseIs
  <2> QED  BY <2>1, <2>2
<1>11. Members(p.blocks) = Members(d.nodes) \cap block
  <2>1. p.blocks = Those(d.nodes, block)
    BY <1>4
  <2>2. Members(Those(d.nodes, block)) = Members(d.nodes) \cap block
    BY <1>1, ThoseIs, ZenonT(60)
  <2> QED  BY <2>1, <2>2
<1>12. ASSUME NEW i \in DOMAIN edges
       PROVE  edges[i].src \in Members(p.blocks) /\ edges[i].dst \in Members(p.blocks)
  <2>1. PICK e : e = edges[i] /\ e \in Members(edges)
    BY DEF Members
  <2>2. e \in Members(d.edges) /\ Carrier(block, e) = "buffer"
    BY <1>5, <1>10, <2>1
  <2>3. e.dst \in Members(d.nodes) /\ e.src \in Members(d.nodes)
    BY <2>2, PumpAssumption
  <2>4. e.dst \in block /\ e.src \in block
    BY <2>2 DEF Carrier
  <2> QED  BY <1>11, <2>1, <2>3, <2>4
<1>13. Joins(Members(p.blocks), edges)
  BY <1>12 DEF Joins
<1> QED  BY <1>3, <1>4, <1>7, <1>9, <1>13

\* The segments: the components of the uncut edges, drawn by Kahn.
LEMMA SegmentsAre ==
  ASSUME NEW d \in Docs
  PROVE  LET p == Built(d)
             edges == p.wiring["buffer"]
             V == Members(p.blocks)
         IN  /\ Joins(V, edges) /\ Members(CycleEdges(edges)) \subseteq Members(edges)
             /\ \E comps : /\ ClosedInTurn(V, CycleEdges(edges), comps)
                           /\ InTurn(V, comps, CycleEdges(edges))
                           /\ DrawnInTurn(comps, CycleEdges(edges), edges, p.segments, Len(comps))
                           /\ Members(p.segments) = Members(comps)
<1>1. PICK p : p = Built(d)
  OBVIOUS
<1>2. PICK edges \in Seq(Edge) :
        /\ edges = p.wiring["buffer"] /\ p.blocks \in Seq(Id) /\ Joins(Members(p.blocks), edges)
        /\ p.segments = Segments(p.blocks, edges)
  BY <1>1, BuffersJoinBlocks
<1>3. PICK V : V = Members(p.blocks)
  OBVIOUS
<1>4. PICK hard : hard = CycleEdges(edges)
  OBVIOUS
<1>5. PICK S : hard = Those(edges, S)
  BY <1>4 DEF CycleEdges
<1>6. hard \in Seq(Edge \cap S) /\ Members(hard) = Members(edges) \cap S
  BY <1>5, ThoseIs
<1>7. PICK F : F = Edge \cap S /\ hard \in Seq(F)
  BY <1>6
<1>8. \A e \in Members(edges) : e.src \in V /\ e.dst \in V
  BY <1>2, <1>3 DEF Joins, Members
<1>9. Joins(V, hard)
  <2>1. \A i \in DOMAIN hard : hard[i] \in Members(edges)
    BY <1>6 DEF Members
  <2> QED  BY <1>8, <2>1 DEF Joins
<1>10. PICK comps : comps = Components(p.blocks, hard)
  OBVIOUS
<1>11. ClosedInTurn(V, hard, comps)
  BY <1>2, <1>3, <1>7, <1>9, <1>10, ComponentsEnd
<1>12. InTurn(V, comps, hard)
  <2>1. comps \in Seq(SUBSET V) /\ Parted(Pairs(hard), V, [closed |-> comps])
    BY <1>11 DEF ClosedInTurn
  <2>2. \A k \in DOMAIN comps : comps[k] # {} /\ \A j \in DOMAIN comps : j # k => comps[j] \cap comps[k] = {}
    BY <2>1 DEF Parted
  <2>3. \A e \in Members(hard) : \A k \in DOMAIN comps : e.src \in comps[k] =>
           \E j \in DOMAIN comps : j <= k /\ e.dst \in comps[j]
    BY <1>11 DEF ClosedInTurn, Members
  <2> QED  BY <2>1, <2>2, <2>3 DEF InTurn
<1>13. p.segments = Kahn(comps, hard, edges)
  BY <1>2, <1>4, <1>10 DEF Segments
<1>14. Members(hard) \subseteq Members(edges)
  BY <1>6
<1>15. /\ DrawnInTurn(comps, hard, edges, p.segments, Len(comps))
       /\ Members(p.segments) = Members(comps)
  BY <1>12, <1>13, <1>14, KahnIs
<1> QED  BY <1>1, <1>2, <1>3, <1>4, <1>11, <1>12, <1>14, <1>15

\* What the segments are to the nodes and wires of the plan.
Sorted(W, U, V, segs) ==
  /\ UNION Members(segs) = V
  /\ \A i, j \in DOMAIN segs : i # j => segs[i] \cap segs[j] = {}
  /\ \A i, j \in DOMAIN segs : \A u \in segs[i], v \in segs[j] : i = j <=> Both(U, V, u, v)
  /\ \A i, j \in DOMAIN segs : \A w \in U : w[1] \in segs[i] /\ w[2] \in segs[j] => i <= j
  /\ \A i, j \in DOMAIN segs : \A w \in W : w[1] \in segs[i] /\ w[2] \in segs[j] /\ j < i =>
       \A k \in DOMAIN segs : j <= k =>
         \E m \in DOMAIN segs : /\ j <= m /\ m # k
                                /\ \E x \in W : x[1] \in segs[m] /\ x[2] \in segs[k]

LEMMA SegmentsAreSorted ==
  ASSUME NEW d \in Docs
  PROVE  LET p == Built(d)
             edges == p.wiring["buffer"]
         IN  /\ p.segments \in Seq(SUBSET Members(p.blocks)) /\ Joins(Members(p.blocks), edges)
             /\ Sorted(Pairs(edges), Pairs(CycleEdges(edges)), Members(p.blocks), p.segments)
<1>1. PICK p, edges, V, hard, segs :
        /\ p = Built(d) /\ edges = p.wiring["buffer"] /\ V = Members(p.blocks)
        /\ hard = CycleEdges(edges) /\ segs = p.segments
  OBVIOUS
<1>2. PICK comps :
        /\ Joins(V, edges) /\ Members(hard) \subseteq Members(edges)
        /\ ClosedInTurn(V, hard, comps) /\ InTurn(V, comps, hard)
        /\ DrawnInTurn(comps, hard, edges, segs, Len(comps)) /\ Members(segs) = Members(comps)
  BY <1>1, SegmentsAre
<1>3. PICK W, U, C : W = Pairs(edges) /\ U = Pairs(hard) /\ C = Members(comps)
  OBVIOUS
<1>4. PICK N \in Nat : N = Len(comps) /\ DOMAIN comps = 1..N
  BY <1>2, OneMore DEF InTurn
<1>5. comps \in Seq(SUBSET V) /\ C \subseteq SUBSET V
  BY <1>2, <1>3 DEF InTurn, Members
<1>6. segs \in Seq(C) /\ DOMAIN segs = 1..N
      /\ \A k \in 1..N : Drawable(hard, edges, ToDo(comps, segs, k), segs[k])
  <2>1. segs \in Seq(C) /\ Len(segs) = N
    BY <1>2, <1>3, <1>4 DEF DrawnInTurn
  <2> QED  BY <1>2, <1>4, <2>1 DEF DrawnInTurn
<1>7. segs \in Seq(SUBSET V)
  BY <1>5, <1>6
<1>8. \A i, j \in 1..N : i < j => segs[i] # segs[j]
  <2> SUFFICES ASSUME NEW i \in 1..N, NEW j \in 1..N, i < j  PROVE segs[i] # segs[j]
    OBVIOUS
  <2>1. i \in 1..(j - 1)
    OBVIOUS
  <2> QED  BY <1>6, <2>1 DEF Drawable, ToDo
<1>9. \A i \in 1..N : \E k \in 1..N : segs[i] = comps[k]
  BY <1>3, <1>4, <1>6 DEF Members
<1>10. \A i, j \in 1..N : i # j => segs[i] \cap segs[j] = {}
  <2> SUFFICES ASSUME NEW i \in 1..N, NEW j \in 1..N, i # j  PROVE segs[i] \cap segs[j] = {}
    OBVIOUS
  <2>1. segs[i] # segs[j]
    <3>1. i < j \/ j < i
      OBVIOUS
    <3> QED  BY <1>8, <3>1
  <2>2. PICK k \in 1..N, m \in 1..N : segs[i] = comps[k] /\ segs[j] = comps[m]
    BY <1>9
  <2> QED  BY <1>2, <1>4, <2>1, <2>2 DEF InTurn
<1>11. UNION Members(segs) = V
  BY <1>2 DEF ClosedInTurn
<1>12. ASSUME NEW i \in 1..N, NEW j \in 1..N, i <= j
       PROVE  segs[j] \in ToDo(comps, segs, i)
  <2>1. segs[j] \in Members(comps)
    BY <1>3, <1>6
  <2>2. \A k \in 1..(i - 1) : k \in 1..N /\ k < j
    BY <1>12
  <2>3. \A k \in 1..(i - 1) : segs[k] # segs[j]
    BY <1>8, <2>2
  <2> QED  BY <2>1, <2>3 DEF ToDo
<1>13. \A e \in Members(edges) : \A i, j \in 1..N :
         e.src \in segs[i] /\ e.dst \in segs[j] /\ j < i => Awaits(ToDo(comps, segs, j), segs[j], edges)
  <2> SUFFICES ASSUME NEW e \in Members(edges), NEW i \in 1..N, NEW j \in 1..N,
                      e.src \in segs[i], e.dst \in segs[j], j < i
               PROVE  Awaits(ToDo(comps, segs, j), segs[j], edges)
    OBVIOUS
  <2>1. segs[i] \in ToDo(comps, segs, j) \ {segs[j]}
    BY <1>8, <1>12
  <2> QED  BY <2>1 DEF Awaits
<1>14. \A e \in Members(hard) : \A i, j \in 1..N :
         e.src \in segs[i] /\ e.dst \in segs[j] => i <= j
  <2> SUFFICES ASSUME NEW e \in Members(hard), NEW i \in 1..N, NEW j \in 1..N,
                      e.src \in segs[i], e.dst \in segs[j], j < i
               PROVE  FALSE
    OBVIOUS
  <2>1. segs[i] \in ToDo(comps, segs, j) \ {segs[j]}
    BY <1>8, <1>12
  <2>2. Awaits(ToDo(comps, segs, j), segs[j], hard)
    BY <2>1 DEF Awaits
  <2> QED  BY <1>6, <2>2 DEF Drawable
<1>15. ASSUME NEW i \in 1..N, NEW j \in 1..N, NEW u \in segs[i], NEW v \in segs[j]
       PROVE  i = j <=> Both(U, V, u, v)
  <2>1. ASSUME i = j  PROVE Both(U, V, u, v)
    <3>1. PICK k \in 1..N : segs[i] = comps[k]
      BY <1>9
    <3>2. \A x, y \in comps[k] : Leads(U, V, x, y)
      BY <1>2, <1>3, <1>4 DEF ClosedInTurn, Parted
    <3> QED  BY <2>1, <3>1, <3>2 DEF Both
  <2>2. ASSUME Both(U, V, u, v)  PROVE i = j
    <3>1. PICK k \in 1..N, m \in 1..N : segs[i] = comps[k] /\ segs[j] = comps[m]
      BY <1>9
    <3>2. \A n \in 1..N : \A x \in comps[n], y \in V : Leads(U, V, x, y) =>
            \E l \in 1..N : l <= n /\ y \in comps[l]
      <4> SUFFICES ASSUME NEW n \in 1..N, NEW x \in comps[n], NEW y \in V, Leads(U, V, x, y)
                   PROVE  \E l \in 1..N : l <= n /\ y \in comps[l]
        OBVIOUS
      <4> DEFINE First == {z \in V : \E l \in 1..N : l <= n /\ z \in comps[l]}
      <4>0. comps[n] \in SUBSET V /\ n <= n
        <5>1. PICK P : P = SUBSET V
          OBVIOUS
        <5>2. comps \in Seq(P)
          BY <1>5, <5>1
        <5>3. comps[n] \in P
          BY <1>4, <5>2
        <5> QED  BY <5>1, <5>3
      <4>1. First \in SUBSET V /\ x \in First
        BY <4>0
      <4>2. ASSUME NEW w \in U, w[1] \in First  PROVE w[2] \in First
        <5>1. PICK e \in Members(hard) : w = <<e.src, e.dst>>
          BY <1>3 DEF Pairs
        <5>2. PICK l \in 1..N : l <= n /\ e.src \in comps[l]
          BY <4>2, <5>1
        <5>3. PICK f \in 1..N : f <= l /\ e.dst \in comps[f]
          BY <1>2, <1>4, <5>2 DEF InTurn
        <5>4. e.dst \in V /\ f <= n
          BY <1>4, <1>5, <5>2, <5>3
        <5> QED  BY <5>1, <5>3, <5>4
      <4> HIDE DEF First
      <4>3. y \in First
        BY <4>1, <4>2 DEF Leads
      <4> QED  BY <4>3 DEF First
    <3>3. u \in V /\ v \in V
      BY <1>7, <1>6
    <3>4. \A n, l \in 1..N : \A x : x \in comps[n] /\ x \in comps[l] => n = l
      BY <1>2, <1>4 DEF InTurn
    <3>5. PICK l \in 1..N : l <= k /\ v \in comps[l]
      BY <2>2, <3>1, <3>2, <3>3 DEF Both
    <3>6. PICK n \in 1..N : n <= m /\ u \in comps[n]
      BY <2>2, <3>1, <3>2, <3>3 DEF Both
    <3>7. l = m /\ n = k
      BY <3>1, <3>4, <3>5, <3>6
    <3>8. k = m
      BY <3>5, <3>6, <3>7
    <3>9. segs[i] \cap segs[j] # {}
      BY <3>1, <3>8
    <3> QED  BY <1>10, <3>9
  <2> QED  BY <2>1, <2>2
<1>16. ASSUME NEW i \in 1..N, NEW j \in 1..N, NEW w \in W, w[1] \in segs[i], w[2] \in segs[j], j < i,
              NEW k \in 1..N, j <= k
       PROVE  \E m \in 1..N : /\ j <= m /\ m # k
                              /\ \E x \in W : x[1] \in segs[m] /\ x[2] \in segs[k]
  <2>1. PICK e \in Members(edges) : w = <<e.src, e.dst>>
    BY <1>3 DEF Pairs
  <2>2. Awaits(ToDo(comps, segs, j), segs[j], edges)
    BY <1>13, <1>16, <2>1
  <2>3. \A c \in ToDo(comps, segs, j) : Awaits(ToDo(comps, segs, j), c, edges)
    BY <1>6, <2>2 DEF Drawable
  <2>4. Awaits(ToDo(comps, segs, j), segs[k], edges)
    BY <1>12, <1>16, <2>3
  <2>5. PICK f \in Members(edges), t \in ToDo(comps, segs, j) \ {segs[k]} : f.dst \in segs[k] /\ f.src \in t
    BY <2>4 DEF Awaits
  <2>6. PICK m \in 1..N : segs[m] = t
    BY <1>2, <1>6, <2>5 DEF ToDo, Members
  <2>7. j <= m
    <3> SUFFICES ASSUME m < j  PROVE FALSE
      OBVIOUS
    <3>1. m \in 1..(j - 1)
      OBVIOUS
    <3> QED  BY <2>5, <2>6, <3>1 DEF ToDo
  <2>8. PICK x : x = <<f.src, f.dst>>
    OBVIOUS
  <2>9. x \in W /\ x[1] = f.src /\ x[2] = f.dst
    BY <1>3, <2>5, <2>8 DEF Pairs
  <2>10. m # k
    BY <2>5, <2>6
  <2> QED  BY <2>5, <2>6, <2>7, <2>9, <2>10
<1>17. ASSUME NEW i \in 1..N, NEW j \in 1..N, NEW w \in U, w[1] \in segs[i], w[2] \in segs[j]
       PROVE  i <= j
  <2>1. PICK e \in Members(hard) : w = <<e.src, e.dst>>
    BY <1>3 DEF Pairs
  <2> QED  BY <1>14, <1>17, <2>1
<1>18. Sorted(W, U, V, segs)
  <2>0. DOMAIN segs = 1..N
    BY <1>6
  <2>2. \A i, j \in DOMAIN segs : i # j => segs[i] \cap segs[j] = {}
    BY <2>0, <1>10
  <2>3. \A i, j \in DOMAIN segs : \A u \in segs[i], v \in segs[j] : i = j <=> Both(U, V, u, v)
    BY <2>0, <1>15
  <2>4. \A w \in U : \A i, j \in DOMAIN segs : w[1] \in segs[i] /\ w[2] \in segs[j] => i <= j
    BY <2>0, <1>17
  <2>5. \A i, j \in 1..N : \A w \in W : w[1] \in segs[i] /\ w[2] \in segs[j] /\ j < i =>
          \A k \in 1..N : j <= k =>
            \E m \in 1..N : /\ j <= m /\ m # k
                            /\ \E x \in W : x[1] \in segs[m] /\ x[2] \in segs[k]
    <3> TAKE i, j \in 1..N
    <3> TAKE w \in W
    <3> HAVE w[1] \in segs[i] /\ w[2] \in segs[j] /\ j < i
    <3> TAKE k \in 1..N
    <3> HAVE j <= k
    <3> QED  BY <1>16
  <2>6. \A i, j \in DOMAIN segs : \A w \in W : w[1] \in segs[i] /\ w[2] \in segs[j] /\ j < i =>
          \A k \in DOMAIN segs : j <= k =>
            \E m \in DOMAIN segs : /\ j <= m /\ m # k
                                   /\ \E x \in W : x[1] \in segs[m] /\ x[2] \in segs[k]
    BY <2>0, <2>5
  <2> QED  BY <2>2, <2>3, <2>4, <2>6, <1>11 DEF Sorted
<1> QED  BY <1>1, <1>2, <1>3, <1>7, <1>18

\* The schedule part of ScheduleIsSound, of the plan as it is in any state.
SoundlyOrdered ==
  LET all == Pairs(Wires("buffer"))
      uncut == Pairs(CycleEdges(Wires("buffer")))
      between == {BetweenSegments(w) : w \in all}
  IN  /\ UNION Members(plan.segments) = BlockIds
      /\ \A i, j \in DOMAIN plan.segments : i # j => plan.segments[i] \cap plan.segments[j] = {}
      /\ \A u, v \in BlockIds : SegmentOf(u) = SegmentOf(v) <=> Both(uncut, BlockIds, u, v)
      /\ Backward(uncut) = {}
      /\ Backward(all) # {} => \E i, j \in DOMAIN plan.segments :
                                 i # j /\ Both(between, DOMAIN plan.segments, i, j)

\* Every plan is, whatever the document it was built from.
LEMMA PlansAreSoundlyOrdered ==
  ASSUME Planned
  PROVE  SoundlyOrdered /\ plan.segments \in Seq(SUBSET BlockIds)
<1>1. PICK segs, V, edges, W, U :
        /\ segs = plan.segments /\ V = BlockIds /\ edges = Wires("buffer")
        /\ W = Pairs(edges) /\ U = Pairs(CycleEdges(edges))
  OBVIOUS
<1>2. segs \in Seq(SUBSET V) /\ Joins(V, edges) /\ Sorted(W, U, V, segs)
  BY <1>1, SegmentsAreSorted DEF Planned, BlockIds, Wires
<1>3. Members(CycleEdges(edges)) \subseteq Members(edges)
  BY <1>1, SegmentsAre DEF Planned, Wires
<1>4. PICK N \in Nat : N = Len(segs) /\ DOMAIN segs = 1..N
  BY <1>2, OneMore
<1>5. PICK seg : seg = [id \in V |-> SegmentOf(id)]
  OBVIOUS
<1>6. \A id \in V : SegmentOf(id) = seg[id] /\ seg[id] \in 1..N /\ id \in segs[seg[id]]
  <2> SUFFICES ASSUME NEW id \in V
               PROVE  SegmentOf(id) = seg[id] /\ seg[id] \in 1..N /\ id \in segs[seg[id]]
    OBVIOUS
  <2>1. \E i \in DOMAIN segs : id \in segs[i]
    BY <1>2 DEF Sorted, Members
  <2>2. SegmentOf(id) = CHOOSE i \in DOMAIN segs : id \in segs[i]
    BY <1>1 DEF SegmentOf
  <2>3. SegmentOf(id) \in DOMAIN segs /\ id \in segs[SegmentOf(id)]
    BY <2>1, <2>2
  <2> QED  BY <1>4, <1>5, <2>3
<1>7. \A w \in W : w[1] \in V /\ w[2] \in V
  <2> SUFFICES ASSUME NEW w \in W  PROVE w[1] \in V /\ w[2] \in V
    OBVIOUS
  <2>1. PICK i \in DOMAIN edges : w = <<edges[i].src, edges[i].dst>>
    BY <1>1 DEF Pairs, Members
  <2> QED  BY <1>2, <2>1 DEF Joins
<1>8. U \subseteq W
  BY <1>1, <1>3 DEF Pairs
<1>9. \A i, j \in 1..N : i # j => segs[i] \cap segs[j] = {}
  BY <1>2, <1>4 DEF Sorted
<1>10. \A u, v \in V : SegmentOf(u) = SegmentOf(v) <=> Both(U, V, u, v)
  <2> TAKE u, v \in V
  <2>1. \A i, j \in 1..N : \A x \in segs[i], y \in segs[j] : i = j <=> Both(U, V, x, y)
    BY <1>2, <1>4 DEF Sorted
  <2>2. seg[u] = seg[v] <=> Both(U, V, u, v)
    BY <1>6, <2>1
  <2> QED  BY <1>6, <2>2
<1>11. Backward(U) = {}
  <2> SUFFICES ASSUME NEW w \in U, SegmentOf(w[2]) < SegmentOf(w[1])  PROVE FALSE
    BY DEF Backward
  <2>1. w[1] \in V /\ w[2] \in V
    BY <1>7, <1>8
  <2>2. \A i, j \in 1..N : w[1] \in segs[i] /\ w[2] \in segs[j] => i <= j
    BY <1>2, <1>4 DEF Sorted
  <2>3. seg[w[1]] <= seg[w[2]] /\ seg[w[1]] \in Nat /\ seg[w[2]] \in Nat
    BY <1>6, <2>1, <2>2
  <2> QED  BY <1>6, <2>1, <2>3
<1>12. ASSUME Backward(W) # {}
       PROVE  \E i, j \in 1..N : i # j /\ Both({BetweenSegments(w) : w \in W}, 1..N, i, j)
  <2>1. PICK w \in W : SegmentOf(w[2]) < SegmentOf(w[1])
    BY <1>12 DEF Backward
  <2>2. PICK i, j \in 1..N : w[1] \in segs[i] /\ w[2] \in segs[j] /\ j < i
    BY <1>6, <1>7, <2>1
  <2>3. \A k \in 1..N : j <= k =>
          \E m \in 1..N : /\ j <= m /\ m # k
                          /\ \E x \in W : x[1] \in segs[m] /\ x[2] \in segs[k]
    <3>1. \A a, b \in DOMAIN segs : \A y \in W : y[1] \in segs[a] /\ y[2] \in segs[b] /\ b < a =>
             \A k \in DOMAIN segs : b <= k =>
               \E m \in DOMAIN segs : /\ b <= m /\ m # k
                                      /\ \E x \in W : x[1] \in segs[m] /\ x[2] \in segs[k]
      BY <1>2 DEF Sorted
    <3>2. \A k \in DOMAIN segs : j <= k =>
            \E m \in DOMAIN segs : /\ j <= m /\ m # k
                                   /\ \E x \in W : x[1] \in segs[m] /\ x[2] \in segs[k]
      BY <1>4, <2>2, <3>1
    <3> QED  BY <1>4, <3>2
  <2>4. PICK B : B = {BetweenSegments(x) : x \in W}
    OBVIOUS
  <2>5. PICK J : J = j..N
    OBVIOUS
  <2>6. J \in SUBSET (1..N) /\ J # {} /\ IsFiniteSet(J)
    <3>1. j \in J /\ J \in SUBSET (1..N)
      BY <2>5
    <3>2. IsFiniteSet(1..N)
      BY FS_Interval
    <3> QED  BY <3>1, <3>2, FS_Subset
  <2>7. \A k \in J : \E m \in J : m # k /\ <<m, k>> \in B
    <3> TAKE k \in J
    <3>1. PICK m \in 1..N, x \in W : j <= m /\ m # k /\ x[1] \in segs[m] /\ x[2] \in segs[k]
      BY <2>3, <2>5, SMTT(60)
    <3>2. seg[x[1]] = m /\ seg[x[2]] = k
      <4>1. x[1] \in V /\ x[2] \in V /\ k \in 1..N
        BY <1>7, <2>6
      <4>2. seg[x[1]] \in 1..N /\ seg[x[2]] \in 1..N
            /\ x[1] \in segs[seg[x[1]]] /\ x[2] \in segs[seg[x[2]]]
        BY <1>6, <4>1
      <4> QED  BY <1>9, <3>1, <4>1, <4>2
    <3>3. BetweenSegments(x) = <<m, k>>
      BY <1>6, <1>7, <3>2 DEF BetweenSegments
    <3>4. m \in J
      BY <2>5, <3>1
    <3> QED  BY <2>4, <3>1, <3>3, <3>4
  <2>8. \E a, b \in J : a # b /\ Both(B, 1..N, a, b)
    BY <2>6, <2>7, SomeLoop
  <2> QED  BY <2>4, <2>6, <2>8
<1>13. UNION Members(segs) = V
  BY <1>2 DEF Sorted
<1>14. SoundlyOrdered
  <2>1. UNION Members(plan.segments) = BlockIds
    BY <1>1, <1>13
  <2>2. \A i, j \in DOMAIN plan.segments : i # j => plan.segments[i] \cap plan.segments[j] = {}
    BY <1>1, <1>4, <1>9
  <2>3. \A u, v \in BlockIds :
          SegmentOf(u) = SegmentOf(v) <=> Both(Pairs(CycleEdges(Wires("buffer"))), BlockIds, u, v)
    BY <1>1, <1>10
  <2>4. Backward(Pairs(CycleEdges(Wires("buffer")))) = {}
    BY <1>1, <1>11
  <2>5. Backward(W) # {} =>
          \E i, j \in DOMAIN segs : i # j /\ Both({BetweenSegments(w) : w \in W}, DOMAIN segs, i, j)
    BY <1>4, <1>12
  <2>6. W = Pairs(Wires("buffer")) /\ segs = plan.segments
    BY <1>1
  <2> QED  BY <2>1, <2>2, <2>3, <2>4, <2>5, <2>6 DEF SoundlyOrdered
<1> QED  BY <1>1, <1>2, <1>14

-----------------------------------------------------------------------------
(* Types                                                                   *)

\* What the state of a native of each kind ranges over.
Ranges(id) ==
  IF KindOf[id] = "delay" THEN Sample
  ELSE IF KindOf[id] \in {"draw", "counter"} THEN 0..MaxCount ELSE {0, 1}
Kernels == {k \in [Id -> Number] : \A id \in Id : k[id] \in Ranges(id)}

\* A function is typed when its values are.
InRange ==
  /\ param \in [Id -> Number] /\ kernel \in Kernels /\ pend \in [Id -> 0..MaxCount]
  /\ out \in [Id -> Number] /\ dirty \in [Id -> BOOLEAN]
  /\ buf \in [Id -> Sample] /\ cell \in [Id -> Sample]

\* The clock is behind at a frame tick and not ahead at a block.
InBounds ==
  /\ pc \in {"idle", "inlet", "events", "emit", "frame", "block", "ladder", "guard"}
  /\ at \in Nat /\ pass \in 0..MaxPasses /\ delivered \in BOOLEAN
  /\ severed \in BOOLEAN /\ overruns \in 0..3
  /\ lag \in -FrameTicks..BlockTicks
  /\ (pc = "frame" => lag >= 0) /\ (pc = "block" => lag <= 0)
  /\ edits \in 0..MaxEdits

MutesAreSegments == muted \subseteq DOMAIN plan.segments

TypeInv == Planned /\ InRange /\ InBounds /\ MutesAreSegments

\* What has a range is a number.
LEMMA RangesAreNumbers ==
  /\ 0 \in Sample /\ 1 \in Sample /\ NaN \in Sample /\ Sample \subseteq Number
  /\ 0..MaxCount \subseteq Number /\ {0, 1} \subseteq 0..MaxCount
  /\ \A id : 0 \in Ranges(id) /\ Ranges(id) \subseteq Number
<1>1. 0 \in Sample /\ 1 \in Sample /\ NaN \in Sample /\ Sample \subseteq Number
      /\ 0..MaxCount \subseteq Number
  BY DEF Sample, Number
<1>2. {0, 1} \subseteq 0..MaxCount
  BY PumpAssumption
<1> QED  BY <1>1, <1>2 DEF Ranges

\* The states of the natives are in range one by one.
LEMMA KernelsIs ==
  ASSUME NEW k
  PROVE  k \in Kernels <=> (k = [id \in Id |-> k[id]] /\ \A id \in Id : k[id] \in Ranges(id))
BY RangesAreNumbers DEF Kernels

\* process: what a block node writes is a sample, and its state stays in range.
LEMMA SoundIsSample ==
  ASSUME Planned, InRange, NEW id \in Id, NEW bufs, NEW k \in Ranges(id), NEW p \in Number,
         NEW gone \in BOOLEAN
  PROVE  Sound(id, bufs, k, p, gone) \in Sample /\ Kept(id, bufs, k, gone) \in Ranges(id)
<1> DEFINE ins == {bufs[src] : src \in Sources(Wires("buffer"), id)}
<1>1. \A S : Mixed(S) \in Sample /\ (NaN \notin S => Mixed(S) \in {0, 1})
  BY DEF Mixed, Sample
<1>2. \A v \in Number : Level(v) \in Sample /\ (v # NaN => Level(v) \in {0, 1})
  BY PumpAssumption DEF Level, Number, Sample, NaN
<1>3. Held(id) \in Number
  <2>1. PICK latches : latches = Wires("latch")
    OBVIOUS
  <2>2. latches \in Seq(Edge)
    BY <2>1, PlanFacts DEF Cut, Wires, Carriers
  <2>3. HasSource(latches, id) => Source(latches, id) \in Id
    BY <2>2, SourceIsWired
  <2>4. Held(id) = IF HasSource(latches, id) THEN out[Source(latches, id)] ELSE 0
    BY <2>1 DEF Held
  <2> QED  BY <2>3, <2>4, RangesAreNumbers DEF InRange
<1>4. Sound(id, bufs, k, p, gone) \in Sample
  <2>1. CASE KindOf[id] \in {"osc", "smoother"}
    BY <1>2, <2>1 DEF Sound
  <2>2. CASE KindOf[id] = "bomb"
    BY <2>2 DEF Sound, Sample
  <2>3. CASE KindOf[id] = "delay"
    BY <2>3 DEF Sound, Ranges
  <2>4. CASE KindOf[id] = "vca"
    <3>1. PICK a, b : a = Mixed(ins) /\ b = Level(Held(id))
      OBVIOUS
    <3>2. Sound(id, bufs, k, p, gone) = IF NaN \in ins \cup {Held(id)} THEN NaN ELSE a * b
      BY <2>4, <3>1 DEF Sound
    <3>3. NaN \notin ins \cup {Held(id)} => a \in {0, 1} /\ b \in {0, 1}
      BY <1>1, <1>2, <1>3, <3>1
    <3>4. a \in {0, 1} /\ b \in {0, 1} => a * b \in {0, 1}
      OBVIOUS
    <3> QED  BY <3>2, <3>3, <3>4 DEF Sample
  <2>5. CASE KindOf[id] \notin {"osc", "smoother", "bomb", "delay", "vca"}
    BY <1>1, <2>5 DEF Sound
  <2> QED  BY <2>1, <2>2, <2>3, <2>4, <2>5
<1>5. Kept(id, bufs, k, gone) \in Ranges(id)
  <2>1. CASE KindOf[id] = "delay"
    BY <1>1, <2>1 DEF Kept, Ranges
  <2>2. CASE KindOf[id] = "bomb"
    BY <2>2 DEF Kept, Ranges
  <2>3. CASE KindOf[id] \notin {"bomb", "delay"}
    BY <2>3 DEF Kept
  <2> QED  BY <2>1, <2>2, <2>3
<1> QED  BY <1>4, <1>5

\* The samples and states of a block.
Banks == [buf : [Id -> Sample], kernel : Kernels]

\* One block node plays.
LEMMA PlayOneIsTyped ==
  ASSUME Planned, InRange, NEW p \in [Id -> Number], NEW gone \in BOOLEAN,
         NEW b \in Banks, NEW id \in Id
  PROVE  PlayOne(p, gone, b, id) \in Banks
<1>1. b.buf \in [Id -> Sample] /\ b.kernel \in Kernels
  BY DEF Banks
<1>2. b.kernel[id] \in Ranges(id) /\ p[id] \in Number
  BY <1>1 DEF Kernels
<1>3. PICK s, k : s = Sound(id, b.buf, b.kernel[id], p[id], gone)
                  /\ k = Kept(id, b.buf, b.kernel[id], gone)
  OBVIOUS
<1>4. s \in Sample /\ k \in Ranges(id)
  BY <1>2, <1>3, SoundIsSample
<1>5. PICK f, g : f = [b.buf EXCEPT ![id] = s] /\ g = [b.kernel EXCEPT ![id] = k]
  OBVIOUS
<1>6. f \in [Id -> Sample]
  BY <1>1, <1>4, <1>5
<1>7. g \in Kernels
  BY <1>1, <1>4, <1>5, KernelsIs
<1>8. PlayOne(p, gone, b, id) = [buf |-> f, kernel |-> g]
  BY <1>3, <1>5 DEF PlayOne
<1> QED  BY <1>6, <1>7, <1>8 DEF Banks

\* A loop whose rounds stay in a set ends in it.
LEMMA RoundsStay ==
  ASSUME NEW D, NEW m \in Nat, NEW f, f[0] \in D, \A n \in 1..m : f[n - 1] \in D => f[n] \in D
  PROVE  f[m] \in D
<1> DEFINE P == {n \in 0..m : f[n] \in D}
<1>1. 0 \in P
  OBVIOUS
<1>2. ASSUME NEW n \in 1..m, n - 1 \in P  PROVE n \in P
  BY <1>2
<1> HIDE DEF P
<1>3. 0..m \subseteq P
  BY <1>1, <1>2, Along
<1>4. m \in P
  BY <1>3
<1> QED  BY <1>4 DEF P

\* One segment plays.
LEMMA PlaySegmentIsTyped ==
  ASSUME Planned, InRange, NEW p \in [Id -> Number], NEW gone \in BOOLEAN,
         NEW b \in Banks, NEW seg
  PROVE  PlaySegment(p, gone, b, seg) \in Banks
<1>1. plan.blocks \in Seq(Id)
  BY PlanFacts DEF Cut
<1>2. PICK nodes : nodes = Those(plan.blocks, seg)
  OBVIOUS
<1>3. nodes \in Seq(Id \cap seg)
  BY <1>1, <1>2, ThoseIs
<1>4. PICK m \in Nat : m = Len(nodes) /\ \A n \in 1..m : nodes[n] \in Id
  BY <1>3
<1> DEFINE Plays(f) == f = [n \in 0..m |-> IF n = 0 THEN b ELSE PlayOne(p, gone, f[n - 1], nodes[n])]
           step == [w \in (1..m) \X Banks |-> PlayOne(p, gone, w[2], nodes[w[1]])]
<1>5. \A n \in 1..m, c \in Banks : PlayOne(p, gone, c, nodes[n]) \in Banks
  BY <1>4, PlayOneIsTyped
<1>6. step \in [(1..m) \X Banks -> Banks]
  BY <1>5
<1>7. \A n \in 1..m, c \in Banks : step[<<n, c>>] = PlayOne(p, gone, c, nodes[n])
  OBVIOUS
<1> HIDE DEF step
<1>8. PICK g \in [0..m -> Banks] : Rounds(g, m, b, step)
  BY <1>6, RoundsExist
<1>9. \A n \in 0..m : g[n] = IF n = 0 THEN b ELSE step[<<n, g[n - 1]>>]
  BY <1>8 DEF Rounds
<1>10. \A n \in 0..m : n # 0 => n \in 1..m /\ n - 1 \in 0..m
  OBVIOUS
<1>11. \A n \in 0..m : n # 0 => step[<<n, g[n - 1]>>] = PlayOne(p, gone, g[n - 1], nodes[n])
  BY <1>7, <1>8, <1>10
<1>12. Plays(g)
  BY <1>8, <1>9, <1>11
<1>13. PICK f : Plays(f) /\ PlaySegment(p, gone, b, seg) = f[m]
  <2> DEFINE h == CHOOSE f : Plays(f)
  <2>1. Plays(h)
    <3> HIDE DEF Plays
    <3> QED  BY <1>12
  <2>2. PlaySegment(p, gone, b, seg) = h[m]
    BY <1>2, <1>4 DEF PlaySegment
  <2> HIDE DEF h
  <2> QED  BY <2>1, <2>2
<1>14. \A n \in 0..m : f[n] = IF n = 0 THEN b ELSE PlayOne(p, gone, f[n - 1], nodes[n])
  BY <1>13
<1>15. f[0] \in Banks
  BY <1>14
<1>16. \A n \in 1..m : n \in 0..m /\ n # 0
  OBVIOUS
<1>17. \A n \in 1..m : f[n - 1] \in Banks => f[n] \in Banks
  BY <1>5, <1>14, <1>16
<1>18. f[m] \in Banks
  BY <1>15, <1>17, RoundsStay
<1> QED  BY <1>13, <1>18

\* The running segments play.
LEMMA PlayedIsTyped ==
  ASSUME Planned, InRange, NEW p \in [Id -> Number], NEW gone \in BOOLEAN
  PROVE  Played1(p, gone) \in Banks
<1>1. PICK V : plan.segments \in Seq(V)
  BY PlansAreSoundlyOrdered
<1>2. PICK running :
        running = Those(plan.segments, Members(plan.segments) \ {plan.segments[i] : i \in muted})
  OBVIOUS
<1>3. PICK m \in Nat : m = Len(running)
  <2>1. PICK S : S = Members(plan.segments) \ {plan.segments[i] : i \in muted}
    OBVIOUS
  <2>2. running \in Seq(V \cap S)
    BY <1>1, <1>2, <2>1, ThoseIs
  <2> QED  BY <2>2
<1>4. PICK b : b = [buf |-> buf, kernel |-> kernel] /\ b \in Banks
  <2>1. buf \in [Id -> Sample] /\ kernel \in Kernels
    BY DEF InRange
  <2>2. [buf |-> buf, kernel |-> kernel] \in Banks
    BY <2>1 DEF Banks
  <2> QED  BY <2>2
<1> DEFINE Plays(f) == f = [n \in 0..m |-> IF n = 0 THEN b ELSE PlaySegment(p, gone, f[n - 1], running[n])]
           step == [w \in (1..m) \X Banks |-> PlaySegment(p, gone, w[2], running[w[1]])]
<1>5. \A n \in 1..m, c \in Banks : PlaySegment(p, gone, c, running[n]) \in Banks
  BY PlaySegmentIsTyped
<1>6. step \in [(1..m) \X Banks -> Banks]
  BY <1>5
<1>7. \A n \in 1..m, c \in Banks : step[<<n, c>>] = PlaySegment(p, gone, c, running[n])
  OBVIOUS
<1> HIDE DEF step
<1>8. PICK g \in [0..m -> Banks] : Rounds(g, m, b, step)
  BY <1>4, <1>6, RoundsExist
<1>9. \A n \in 0..m : g[n] = IF n = 0 THEN b ELSE step[<<n, g[n - 1]>>]
  BY <1>8 DEF Rounds
<1>10. \A n \in 0..m : n # 0 => n \in 1..m /\ n - 1 \in 0..m
  OBVIOUS
<1>11. \A n \in 0..m : n # 0 => step[<<n, g[n - 1]>>] = PlaySegment(p, gone, g[n - 1], running[n])
  BY <1>7, <1>8, <1>10
<1>12. Plays(g)
  BY <1>8, <1>9, <1>11
<1>13. PICK f : Plays(f) /\ Played1(p, gone) = f[m]
  <2> DEFINE h == CHOOSE f : Plays(f)
  <2>1. Plays(h)
    <3> HIDE DEF Plays
    <3> QED  BY <1>12
  <2>2. Played1(p, gone) = h[m]
    BY <1>2, <1>3, <1>4 DEF Played1
  <2> HIDE DEF h
  <2> QED  BY <2>1, <2>2
<1>14. \A n \in 0..m : f[n] = IF n = 0 THEN b ELSE PlaySegment(p, gone, f[n - 1], running[n])
  BY <1>13
<1>15. f[0] \in Banks
  BY <1>4, <1>14
<1>16. \A n \in 1..m : n \in 0..m /\ n # 0
  OBVIOUS
<1>17. \A n \in 1..m : f[n - 1] \in Banks => f[n] \in Banks
  BY <1>5, <1>14, <1>16
<1>18. f[m] \in Banks
  BY <1>15, <1>17, RoundsStay
<1> QED  BY <1>13, <1>18

\* What a node hears is a number; what it shows and keeps is one.
LEMMA ValueIsNumber ==
  ASSUME Planned, InRange, NEW id \in Id
  PROVE  /\ Ticked(id, kernel[id]) \in Ranges(id)
         /\ Value(id, Ticked(id, kernel[id]), Input(id)) \in Number
<1>1. PICK wires, snapshots : wires = Wires("cell") /\ snapshots = Wires("snapshot")
  OBVIOUS
<1>2. Input(id) = IF HasSource(snapshots, id) THEN cell[id]
                  ELSE IF HasSource(wires, id) THEN out[Source(wires, id)] ELSE 0
  <2>1. CASE HasSource(snapshots, id)
    BY <1>1, <2>1 DEF Input
  <2>2. CASE ~HasSource(snapshots, id) /\ HasSource(wires, id)
    BY <1>1, <2>2 DEF Input
  <2>3. CASE ~HasSource(snapshots, id) /\ ~HasSource(wires, id)
    BY <1>1, <2>3 DEF Input
  <2> QED  BY <2>1, <2>2, <2>3
<1>3. HasSource(wires, id) => Source(wires, id) \in Id
  BY <1>1, PlanFacts
<1>4. Input(id) \in Number
  BY <1>2, <1>3, RangesAreNumbers DEF InRange
<1>5. kernel[id] \in Ranges(id) /\ param[id] \in Number
  BY DEF InRange, Kernels
<1>6. Ticked(id, kernel[id]) \in Ranges(id)
  BY <1>5 DEF Ticked, Ranges
<1>7. Ticked(id, kernel[id]) \in Number
  BY <1>6, RangesAreNumbers
<1>8. Value(id, Ticked(id, kernel[id]), Input(id)) \in
        {param[id], Input(id), Ticked(id, kernel[id]), 0}
  BY DEF Value
<1> QED  BY <1>4, <1>5, <1>6, <1>7, <1>8, RangesAreNumbers

\* A written param is a number.
LEMMA WritesKeepRange ==
  ASSUME TypeInv, NEW id \in Id, NEW v \in {0, 1}, SetParam(id, v)
  PROVE  InRange'
<1>1. InRange
  BY DEF TypeInv
<1>2. v \in Number
  BY RangesAreNumbers
<1>3. param' = [param EXCEPT ![id] = v] /\ UNCHANGED <<kernel, pend, out, buf, cell>>
      /\ (dirty' = dirty \/ dirty' = [dirty EXCEPT ![id] = TRUE])
  BY DEF SetParam
<1>4. param' \in [Id -> Number]
  BY <1>1, <1>2, <1>3 DEF InRange
<1>5. dirty' \in [Id -> BOOLEAN]
  BY <1>1, <1>3 DEF InRange
<1> QED  BY <1>1, <1>3, <1>4, <1>5 DEF InRange

\* What a rebuild does not bring home starts over, in range.
LEMMA RebuildsKeepRange ==
  ASSUME TypeInv, NEW d \in Played, Rebuild(d)
  PROVE  InRange' /\ MutesAreSegments'
<1>1. InRange
  BY DEF TypeInv
<1>2. PICK home :
        /\ kernel' = [id \in Id |-> IF id \in home THEN kernel[id] ELSE 0]
        /\ pend' = [id \in Id |-> IF id \in home THEN pend[id] ELSE 0]
  BY DEF Rebuild
<1>3. /\ out' = [id \in Id |-> 0] /\ dirty' = [id \in Id |-> TRUE] /\ buf' = [id \in Id |-> 0]
      /\ cell' = [id \in Id |-> 0] /\ muted' = {} /\ UNCHANGED param
  BY DEF Rebuild
<1>4. \A id \in Id : kernel[id] \in Ranges(id)
  BY <1>1 DEF InRange, Kernels
<1>5. kernel' \in Kernels
  BY <1>2, <1>4, RangesAreNumbers, KernelsIs
<1>6. pend' \in [Id -> 0..MaxCount]
  BY <1>1, <1>2, RangesAreNumbers DEF InRange
<1>7. /\ out' \in [Id -> Number] /\ dirty' \in [Id -> BOOLEAN] /\ buf' \in [Id -> Sample]
      /\ cell' \in [Id -> Sample]
  BY <1>3, RangesAreNumbers
<1> QED  BY <1>1, <1>3, <1>5, <1>6, <1>7 DEF InRange, MutesAreSegments

\* Counts saturate under bangs ...
LEMMA BangsKeepRange ==
  ASSUME TypeInv, NEW id \in Id, Bang(id)
  PROVE  InRange'
<1>1. InRange
  BY DEF TypeInv
<1>2. PICK cone : cone = Targets(Wires("event"), id)
  OBVIOUS
<1>3. /\ kernel' = [x \in Id |-> IF x \in cone /\ KindOf[x] \in AppliesBangs
                                 THEN Least(kernel[x] + 1, MaxCount) ELSE kernel[x]]
      /\ dirty' = [x \in Id |-> dirty[x] \/ x \in cone]
      /\ UNCHANGED <<param, pend, out, buf, cell>>
  BY <1>2 DEF Bang
<1>4. \A x \in Id : kernel[x] \in Ranges(x)
  BY <1>1 DEF InRange, Kernels
<1>5. \A x \in Id : kernel'[x] \in Ranges(x)
  <2> SUFFICES ASSUME NEW x \in Id  PROVE kernel'[x] \in Ranges(x)
    OBVIOUS
  <2>1. CASE KindOf[x] \in AppliesBangs
    <3>1. Ranges(x) = 0..MaxCount
      BY <2>1 DEF AppliesBangs, Ranges
    <3>2. kernel[x] \in 0..MaxCount
      BY <1>4, <3>1
    <3>4. kernel[x] + 1 \in Nat
      BY <3>2, PumpAssumption
    <3>3. Least(kernel[x] + 1, MaxCount) \in 0..MaxCount
      BY <3>4, LeastBounds
    <3> QED  BY <1>3, <3>1, <3>2, <3>3
  <2>2. CASE KindOf[x] \notin AppliesBangs
    BY <1>3, <1>4, <2>2
  <2> QED  BY <2>1, <2>2
<1>6. kernel' \in Kernels
  BY <1>3, <1>5, KernelsIs
<1>7. dirty' \in [Id -> BOOLEAN]
  BY <1>1, <1>3 DEF InRange
<1> QED  BY <1>1, <1>3, <1>6, <1>7 DEF InRange

\* ... and under emissions.
LEMMA EmittersKeepRange ==
  ASSUME TypeInv, EmitOne
  PROVE  InRange' /\ delivered' \in BOOLEAN
<1>1. InRange /\ Planned /\ delivered \in BOOLEAN
  BY DEF TypeInv, InBounds
<1>2. at \in DOMAIN plan.frames /\ plan.frames \in Seq(Id)
  BY <1>1, PlanFacts DEF EmitOne, Cut
<1>3. PICK id \in Id : id = plan.frames[at]
  BY <1>2
<1>4. UNCHANGED <<param, out, buf, cell>>
  BY DEF EmitOne
<1>5. CASE KindOf[id] \in Emitters /\ pend[id] > 0
  <2>1. Emit(id, pend[id])
    BY <1>3, <1>5 DEF EmitOne
  <2>2. PICK events : events = Wires("event") /\ events \in Seq(Edge)
    BY <1>1, PlanFacts DEF Cut, Wires, Carriers
  <2>3. PICK struck : struck = Targets(events, id)
    OBVIOUS
  <2>4. PICK n \in Nat : n = pend[id]
    BY <1>1 DEF InRange
  <2> DEFINE into(x) == IF x \in struck THEN n * Count(events, id, x) ELSE 0
  <2>5. /\ pend' = [x \in Id |-> IF x = id THEN 0
                                 ELSE IF KindOf[x] = "draw" THEN Least(pend[x] + into(x), MaxCount)
                                 ELSE pend[x]]
        /\ kernel' = [x \in Id |-> IF KindOf[x] \in {"draw", "counter"}
                                   THEN Least(kernel[x] + into(x), MaxCount) ELSE kernel[x]]
        /\ dirty' = [x \in Id |-> dirty[x] \/ x \in struck]
        /\ delivered' = (delivered \/ struck # {})
    BY <2>1, <2>2, <2>3, <2>4 DEF Emit
  <2>6. \A x : into(x) \in Nat
    <3> SUFFICES ASSUME NEW x  PROVE into(x) \in Nat
      OBVIOUS
    <3>1. PICK k \in Nat : k = Count(events, id, x)
      BY <2>2, CountIsNumber
    <3>2. n * k \in Nat
      OBVIOUS
    <3> QED  BY <3>1, <3>2
  <2> HIDE DEF into
  <2>7. \A x \in Id : pend[x] \in 0..MaxCount /\ kernel[x] \in Ranges(x)
    BY <1>1 DEF InRange, Kernels
  <2>8. \A x \in Id : pend'[x] \in 0..MaxCount
    <3> SUFFICES ASSUME NEW x \in Id  PROVE pend'[x] \in 0..MaxCount
      OBVIOUS
    <3>1. pend[x] + into(x) \in Nat
      BY <2>6, <2>7
    <3>2. Least(pend[x] + into(x), MaxCount) \in 0..MaxCount /\ 0 \in 0..MaxCount
      BY <3>1, LeastBounds, RangesAreNumbers
    <3> QED  BY <2>5, <2>7, <3>2
  <2>9. \A x \in Id : kernel'[x] \in Ranges(x)
    <3> SUFFICES ASSUME NEW x \in Id  PROVE kernel'[x] \in Ranges(x)
      OBVIOUS
    <3>1. CASE KindOf[x] \in {"draw", "counter"}
      <4>1. Ranges(x) = 0..MaxCount
        BY <3>1 DEF Ranges
      <4>4. kernel[x] \in 0..MaxCount
        BY <2>7, <4>1
      <4>2. kernel[x] + into(x) \in Nat
        BY <2>6, <4>4, PumpAssumption
      <4>3. Least(kernel[x] + into(x), MaxCount) \in 0..MaxCount
        BY <4>2, LeastBounds
      <4> QED  BY <2>5, <3>1, <4>1, <4>3
    <3>2. CASE KindOf[x] \notin {"draw", "counter"}
      BY <2>5, <2>7, <3>2
    <3> QED  BY <3>1, <3>2
  <2>10. kernel' \in Kernels
    BY <2>5, <2>9, KernelsIs
  <2>11. pend' \in [Id -> 0..MaxCount]
    BY <2>5, <2>8
  <2>12. dirty' \in [Id -> BOOLEAN] /\ delivered' \in BOOLEAN
    BY <1>1, <2>5 DEF InRange
  <2> QED  BY <1>1, <1>4, <2>10, <2>11, <2>12 DEF InRange
<1>6. CASE ~(KindOf[id] \in Emitters /\ pend[id] > 0)
  <2>1. UNCHANGED <<pend, kernel, dirty, delivered>>
    BY <1>3, <1>6 DEF EmitOne
  <2> QED  BY <1>1, <1>4, <2>1 DEF InRange
<1> QED  BY <1>5, <1>6

\* A tick leaves a number in the node's cell.
LEMMA TicksKeepRange ==
  ASSUME TypeInv, TickOne
  PROVE  InRange'
<1>1. InRange /\ Planned
  BY DEF TypeInv
<1>2. plan.order \in Seq(Id)
  BY <1>1, OrderIs DEF Planned
<1>3. PICK id \in Id : id = plan.order[at]
  BY <1>2 DEF TickOne
<1>4. PICK k, v : k = Ticked(id, kernel[id]) /\ v = Value(id, k, Input(id))
  OBVIOUS
<1>5. k \in Ranges(id) /\ v \in Number
  BY <1>1, <1>4, ValueIsNumber
<1>6. UNCHANGED <<param, buf, cell>>
  BY DEF TickOne
<1>7. \/ /\ kernel' = [kernel EXCEPT ![id] = k]
         /\ out' = [out EXCEPT ![id] = v]
         /\ pend' = IF KindOf[id] = "head" THEN [pend EXCEPT ![id] = Least(@ + 1, MaxCount)] ELSE pend
         /\ dirty' = [x \in Id |-> (dirty[x] \/ x \in Wakes(id)) /\ x \notin Rests(id)]
      \/ dirty' = [dirty EXCEPT ![id] = FALSE] /\ UNCHANGED <<kernel, out, pend>>
  BY <1>3, <1>4 DEF TickOne
<1>8. CASE dirty' = [dirty EXCEPT ![id] = FALSE] /\ UNCHANGED <<kernel, out, pend>>
  BY <1>1, <1>6, <1>8 DEF InRange
<1>9. CASE /\ kernel' = [kernel EXCEPT ![id] = k]
           /\ out' = [out EXCEPT ![id] = v]
           /\ pend' = IF KindOf[id] = "head" THEN [pend EXCEPT ![id] = Least(@ + 1, MaxCount)] ELSE pend
           /\ dirty' = [x \in Id |-> (dirty[x] \/ x \in Wakes(id)) /\ x \notin Rests(id)]
  <2>1. kernel' \in Kernels
    BY <1>1, <1>5, <1>9, KernelsIs DEF InRange
  <2>2. out' \in [Id -> Number]
    BY <1>1, <1>5, <1>9 DEF InRange
  <2>3. dirty' \in [Id -> BOOLEAN]
    BY <1>1, <1>9 DEF InRange
  <2>4. pend' \in [Id -> 0..MaxCount]
    <3>1. pend[id] + 1 \in Nat
      BY <1>1 DEF InRange
    <3>2. PICK n : n = Least(pend[id] + 1, MaxCount)
      OBVIOUS
    <3>3. n \in 0..MaxCount
      BY <3>1, <3>2, LeastBounds
    <3>4. pend' = pend \/ pend' = [pend EXCEPT ![id] = n]
      BY <1>9, <3>2
    <3> QED  BY <1>1, <3>3, <3>4 DEF InRange
  <2> QED  BY <1>1, <1>6, <2>1, <2>2, <2>3, <2>4 DEF InRange
<1> QED  BY <1>7, <1>8, <1>9

\* A block leaves samples.
LEMMA BlocksKeepRange ==
  ASSUME TypeInv, PlayBlock
  PROVE  InRange'
<1>1. InRange /\ Planned
  BY DEF TypeInv
<1>2. Latched \in [Id -> Number]
  <2>1. PICK params : params = Wires("param") /\ params \in Seq(Edge)
    BY <1>1, PlanFacts DEF Cut, Wires, Carriers
  <2>2. \A id \in Id : HasSource(params, id) => out[Source(params, id)] \in Number
    BY <1>1, <2>1, SourceIsWired DEF InRange
  <2>3. Latched = [id \in Id |-> IF HasSource(params, id) THEN out[Source(params, id)] ELSE param[id]]
    BY <2>1 DEF Latched
  <2> QED  BY <1>1, <2>2, <2>3 DEF InRange
<1>3. PICK gone \in BOOLEAN : \E played \in {Played1(Latched, gone)} :
        /\ buf' = played.buf
        /\ kernel' = [id \in Id |-> IF id \in BlockIds THEN played.kernel[id] ELSE kernel[id]]
  BY DEF PlayBlock
<1>4. PICK played \in Banks :
        /\ buf' = played.buf
        /\ kernel' = [id \in Id |-> IF id \in BlockIds THEN played.kernel[id] ELSE kernel[id]]
  BY <1>1, <1>2, <1>3, PlayedIsTyped
<1>5. played.buf \in [Id -> Sample] /\ played.kernel \in Kernels
  BY DEF Banks
<1>6. \A id \in Id : played.kernel[id] \in Ranges(id) /\ kernel[id] \in Ranges(id)
  BY <1>1, <1>5 DEF InRange, Kernels
<1>7. kernel' \in Kernels
  BY <1>4, <1>6, KernelsIs
<1>8. param' = Latched /\ UNCHANGED <<pend, out, dirty, cell>>
  BY DEF PlayBlock
<1> QED  BY <1>1, <1>2, <1>4, <1>5, <1>7, <1>8 DEF InRange

\* So does a snapshot.
LEMMA SnapshotsKeepRange ==
  ASSUME TypeInv, BlockEnds
  PROVE  InRange'
<1>1. InRange /\ Planned
  BY DEF TypeInv
<1>2. PICK snapshots : snapshots = Wires("snapshot") /\ snapshots \in Seq(Edge)
  BY <1>1, PlanFacts DEF Cut, Wires, Carriers
<1>3. \A id \in Id : HasSource(snapshots, id) => buf[Source(snapshots, id)] \in Sample
  BY <1>1, <1>2, SourceIsWired DEF InRange
<1>4. cell' = [id \in Id |-> IF HasSource(snapshots, id) THEN buf[Source(snapshots, id)] ELSE cell[id]]
  BY <1>2 DEF BlockEnds
<1>5. cell' \in [Id -> Sample]
  BY <1>1, <1>3, <1>4 DEF InRange
<1>6. UNCHANGED <<param, kernel, pend, out, dirty, buf>>
  BY DEF BlockEnds, states
<1> QED  BY <1>1, <1>5, <1>6 DEF InRange

\* A mute names a segment of the plan.
LEMMA MutesNameSegments ==
  ASSUME TypeInv, Measured
  PROVE  MutesAreSegments'
<1>1. Planned /\ muted \subseteq DOMAIN plan.segments /\ plan' = plan
  BY DEF TypeInv, MutesAreSegments, Measured
<1>2. PICK V : plan.segments \in Seq(V)
  BY <1>1, PlansAreSoundlyOrdered
<1>3. plan.segments # << >> => 1 \in DOMAIN plan.segments
  BY <1>2
<1>4. plan.segments # << >> => Costliest \subseteq DOMAIN plan.segments
  BY <1>3 DEF Costliest
<1>5. muted' = muted \/ (plan.segments # << >> /\ \E i \in Costliest : muted' = muted \cup {i})
  BY DEF Measured
<1> QED  BY <1>1, <1>4, <1>5 DEF MutesAreSegments

\* The clocks, the counters and the program counter.
LEMMA BoundsAreKept ==
  ASSUME TypeInv, [Next]_vars
  PROVE  InBounds'
<1>1. InBounds /\ delivered \in BOOLEAN
  BY DEF TypeInv, InBounds
<1>2. /\ MaxEdits \in Nat /\ MaxPasses \in Nat \ {0} /\ BlockTicks \in Nat \ {0}
      /\ FrameTicks \in Nat \ {0} /\ BlockTicks <= FrameTicks
  BY PumpAssumption
<1>3. CASE \E id \in Id, v \in {0, 1} : SetParam(id, v)
  BY <1>1, <1>2, <1>3 DEF InBounds, SetParam, loop, ladder
<1>4. CASE \E d \in Played : Rebuild(d)
  <2>1. /\ pc' = "events" /\ severed' = FALSE /\ edits < MaxEdits /\ edits' = edits + 1
        /\ UNCHANGED <<at, pass, delivered, overruns, lag>>
    BY <1>4 DEF Rebuild, loop
  <2>4. severed' \in BOOLEAN
    BY <2>1
  <2>5. edits \in 0..MaxEdits /\ edits < MaxEdits /\ edits' = edits + 1
    BY <1>1, <2>1 DEF InBounds
  <2>2. severed' \in BOOLEAN /\ edits' \in 0..MaxEdits
    BY <1>2, <2>4, <2>5
  <2>3. pc' = "events" /\ UNCHANGED <<at, pass, delivered, overruns, lag>>
    BY <2>1
  <2> QED  BY <1>1, <2>2, <2>3 DEF InBounds
<1>5. CASE \E id \in Id : Bang(id)
  BY <1>1, <1>2, <1>5 DEF InBounds, Bang, loop, ladder
<1>6. CASE Drained \/ UNCHANGED vars
  BY <1>1, <1>6 DEF InBounds, Drained, vars, loop, ladder
<1>7. CASE BeginEmit
  <2>1. /\ pc' = "emit" /\ at' = 1 /\ pass' = 1 /\ delivered' = FALSE
        /\ UNCHANGED <<severed, overruns, lag, edits>>
    BY <1>7 DEF BeginEmit, ladder
  <2>2. 1 \in 0..MaxPasses
    BY <1>2
  <2> QED  BY <1>1, <2>1, <2>2 DEF InBounds
<1>8. CASE EmitOne
  <2>1. delivered' \in BOOLEAN
    BY <1>8, EmittersKeepRange
  <2> QED  BY <1>1, <1>8, <2>1 DEF InBounds, EmitOne, ladder
<1>9. CASE PassEnds
  <2>1. at' = 1 /\ delivered' = FALSE /\ UNCHANGED <<severed, overruns, lag, edits>>
    BY <1>9 DEF PassEnds, ladder
  <2>2. \/ pc = "emit" /\ pc' = pc /\ pass' = pass + 1 /\ pass < MaxPasses
        \/ pc' = (IF lag >= 0 THEN "frame" ELSE "block") /\ pass' = 0
    BY <1>9 DEF PassEnds, EmitAgain
  <2>3. pass' \in 0..MaxPasses
    BY <1>1, <1>2, <2>2 DEF InBounds
  <2>4. lag \in Int
    BY <1>1, <1>2 DEF InBounds
  <2>5. /\ pc' \in {"emit", "frame", "block"}
        /\ (pc' = "frame" => lag >= 0) /\ (pc' = "block" => lag <= 0)
    BY <2>2, <2>4
  <2> QED  BY <1>1, <2>1, <2>3, <2>5 DEF InBounds
<1>10. CASE TickOne
  BY <1>1, <1>10 DEF InBounds, TickOne, ladder
<1>11. CASE FrameEnds
  BY <1>1, <1>2, <1>11 DEF InBounds, FrameEnds, ladder
<1>12. CASE PlayBlock
  BY <1>1, <1>2, <1>12 DEF InBounds, PlayBlock, loop, ladder
<1>13. CASE Measured
  <2>1. \A late \in BOOLEAN : Overruns(late) \in 0..3
    BY <1>1 DEF InBounds, Overruns, Least
  <2>2. overruns' \in 0..3
    BY <1>13, <2>1 DEF Measured
  <2>3. pc' = "guard" /\ UNCHANGED <<at, pass, delivered, severed, lag, edits>>
    BY <1>13 DEF Measured, loop
  <2> QED  BY <1>1, <2>2, <2>3 DEF InBounds
<1>14. CASE BlockEnds
  <2>1. severed' \in BOOLEAN
    BY <1>1, <1>14 DEF BlockEnds, InBounds
  <2>2. pc' = "inlet" /\ UNCHANGED <<at, pass, delivered, overruns, lag, edits>>
    BY <1>14 DEF BlockEnds, loop
  <2> QED  BY <1>1, <2>1, <2>2 DEF InBounds
<1> QED  BY <1>3, <1>4, <1>5, <1>6, <1>7, <1>8, <1>9, <1>10, <1>11, <1>12, <1>13, <1>14
         DEF Next, Pumping

\* The plan is that of the document.
LEMMA PlannedKept ==
  ASSUME Planned, [Next]_vars
  PROVE  Planned'
<1>1. CASE \E d \in Played : Rebuild(d)
  BY <1>1, PumpAssumption DEF Rebuild, Planned
<1>2. CASE ~\E d \in Played : Rebuild(d)
  <2>1. UNCHANGED <<doc, plan>>
    BY <1>2 DEF Next, Pumping, SetParam, Bang, Drained, BeginEmit, EmitOne, PassEnds, TickOne,
                FrameEnds, PlayBlock, Measured, BlockEnds, vars
  <2> QED  BY <2>1 DEF Planned
<1> QED  BY <1>1, <1>2

\* No step leaves the ranges.
LEMMA TypesSteps ==
  ASSUME TypeInv, [Next]_vars
  PROVE  TypeInv'
<1>1. Planned' /\ InBounds'
  BY BoundsAreKept, PlannedKept DEF TypeInv
<1>2. InRange /\ MutesAreSegments
  BY DEF TypeInv
<1>3. CASE \E id \in Id, v \in {0, 1} : SetParam(id, v)
  <2>1. UNCHANGED <<muted, plan>>
    BY <1>3 DEF SetParam, ladder
  <2> QED  BY <1>1, <1>2, <1>3, <2>1, WritesKeepRange DEF TypeInv, MutesAreSegments
<1>4. CASE \E d \in Played : Rebuild(d)
  BY <1>1, <1>4, RebuildsKeepRange DEF TypeInv
<1>5. CASE \E id \in Id : Bang(id)
  <2>1. UNCHANGED <<muted, plan>>
    BY <1>5 DEF Bang, ladder
  <2> QED  BY <1>1, <1>2, <1>5, <2>1, BangsKeepRange DEF TypeInv, MutesAreSegments
<1>6. CASE EmitOne
  <2>1. UNCHANGED <<muted, plan>>
    BY <1>6 DEF EmitOne, ladder
  <2> QED  BY <1>1, <1>2, <1>6, <2>1, EmittersKeepRange DEF TypeInv, MutesAreSegments
<1>7. CASE TickOne
  <2>1. UNCHANGED <<muted, plan>>
    BY <1>7 DEF TickOne, ladder
  <2> QED  BY <1>1, <1>2, <1>7, <2>1, TicksKeepRange DEF TypeInv, MutesAreSegments
<1>8. CASE PlayBlock
  <2>1. UNCHANGED <<muted, plan>>
    BY <1>8 DEF PlayBlock, ladder
  <2> QED  BY <1>1, <1>2, <1>8, <2>1, BlocksKeepRange DEF TypeInv, MutesAreSegments
<1>9. CASE BlockEnds
  <2>1. UNCHANGED <<muted, plan>>
    BY <1>9 DEF BlockEnds
  <2> QED  BY <1>1, <1>2, <1>9, <2>1, SnapshotsKeepRange DEF TypeInv, MutesAreSegments
<1>10. CASE Measured
  <2>1. UNCHANGED <<param, kernel, pend, out, dirty, buf, cell>>
    BY <1>10 DEF Measured, states, cells
  <2> QED  BY <1>1, <1>2, <1>10, <2>1, MutesNameSegments DEF TypeInv, InRange
<1>11. CASE Drained \/ BeginEmit \/ PassEnds \/ FrameEnds \/ UNCHANGED vars
  <2>1. UNCHANGED <<plan, muted, param, kernel, pend, out, dirty, buf, cell>>
    BY <1>11 DEF Drained, BeginEmit, PassEnds, FrameEnds, vars, states, cells, ladder
  <2> QED  BY <1>1, <1>2, <2>1 DEF TypeInv, InRange, MutesAreSegments
<1> QED  BY <1>3, <1>4, <1>5, <1>6, <1>7, <1>8, <1>9, <1>10, <1>11 DEF Next, Pumping

\* At first everything is zero.
LEMMA TypesInit == Init => TypeInv
<1> SUFFICES ASSUME Init  PROVE TypeInv
  OBVIOUS
<1>1. Planned
  BY DEF Init, Planned
<1>2. InRange
  <2>1. kernel \in Kernels
    BY RangesAreNumbers, KernelsIs DEF Init
  <2> QED  BY <2>1, RangesAreNumbers DEF Init, InRange
<1>3. InBounds
  <2>1. MaxEdits \in Nat /\ MaxPasses \in Nat /\ BlockTicks \in Nat /\ FrameTicks \in Nat
    BY PumpAssumption
  <2>2. /\ pc \in {"inlet", "idle"} /\ at = 1 /\ pass = 0 /\ delivered = FALSE /\ severed = FALSE
        /\ overruns = 0 /\ lag = 0 /\ edits = 0
    BY DEF Init
  <2>3. 0 \in 0..MaxPasses /\ 0 \in 0..MaxEdits /\ 0 \in -FrameTicks..BlockTicks
    BY <2>1
  <2>4. pass \in 0..MaxPasses /\ edits \in 0..MaxEdits /\ lag \in -FrameTicks..BlockTicks
        /\ overruns \in 0..3 /\ at \in Nat
    BY <2>2, <2>3
  <2>5. delivered \in BOOLEAN /\ severed \in BOOLEAN
    BY <2>2
  <2>6. pc \in {"inlet", "idle"}
    BY <2>2
  <2> QED  BY <2>4, <2>5, <2>6 DEF InBounds
<1>4. MutesAreSegments
  BY DEF Init, MutesAreSegments
<1> QED  BY <1>1, <1>2, <1>3, <1>4 DEF TypeInv

\* In such a state the schedule is sound: whether a block is under way makes no
\* difference to the plan.
LEMMA TypeInvIsEnough == TypeInv => ScheduleIsSound
<1> SUFFICES ASSUME TypeInv  PROVE ScheduleIsSound
  OBVIOUS
<1>1. Planned /\ InRange /\ InBounds /\ MutesAreSegments
  BY DEF TypeInv
<1>2. SoundlyOrdered /\ plan.segments \in Seq(SUBSET BlockIds)
  BY <1>1, PlansAreSoundlyOrdered
<1>3. doc.nodes \in Seq(Id)
  BY <1>1, PumpAssumption DEF Planned
<1>4. plan.order \in Seq(Id)
  BY <1>1, OrderIs DEF Planned
<1>5. plan.segments \in Seq(SUBSET Id)
  <2>1. BlockIds \subseteq Id
    BY <1>1, PlanFacts DEF Cut, BlockIds, Members
  <2>2. PICK A, B : A = SUBSET BlockIds /\ B = SUBSET Id
    OBVIOUS
  <2>3. A \subseteq B
    BY <2>1, <2>2
  <2>4. plan.segments \in Seq(B)
    BY <1>2, <2>2, <2>3
  <2> QED  BY <2>2, <2>4
<1>6. TypeOK
  BY <1>1, <1>3, <1>4, <1>5 DEF TypeOK, InRange, Kernels, InBounds, MutesAreSegments
<1> QED  BY <1>2, <1>6 DEF ScheduleIsSound, SoundlyOrdered

\* scc_order and build_impl: for any documents, vocabulary and bounds the segments
\* of every plan that is pumped or only built are the strongly connected components
\* of the uncut edges, no uncut edge runs backward, a cut edge does so only when the
\* edges between segments close a loop, and every variable stays in its range.
THEOREM SchedulesAreSound == Spec => []ScheduleIsSound
<1>1. TypeInv /\ [Next]_vars => TypeInv'
  BY TypesSteps
<1> QED  BY <1>1, TypesInit, TypeInvIsEnough, PTL DEF Spec

===============================================================================
