---------------------------- MODULE ExecPlanProofs ----------------------------
(***************************************************************************)
(* Proofs about the live plan of ExecPlan.tla, for any document, any        *)
(* vocabulary of ops and types, and any number of submissions and undos.    *)
(***************************************************************************)
EXTENDS ExecPlan, SequenceTheorems, NaturalsInduction, WellFoundedInduction, TLAPS

-----------------------------------------------------------------------------
(* Positions of sequences                                                  *)

\* A set of naturals has a least member: what induction would otherwise say.
LEMMA LeastNatural ==
  ASSUME NEW S, S \subseteq Nat, S # {}
  PROVE  \E m \in S : \A k \in S : m <= k
<1> DEFINE R == OpToRel(<, Nat)
<1>1. IsWellFoundedOn(R, Nat)
  BY NatLessThanWellFounded
<1>2. \A x, y \in Nat : x < y => <<x, y>> \in R
  BY DEF OpToRel
<1> HIDE DEF R
<1>3. PICK m \in S : \A k \in S : <<k, m>> \notin R
  BY <1>1, WFMin
<1>4. \A k \in S : k \in Nat /\ m \in Nat /\ ~(k < m)
  BY <1>2, <1>3
<1>5. \A k \in S : m <= k
  BY <1>4
<1> QED  BY <1>5

\* So a set of positions of a sequence has a last one.
LEMMA LastPosition ==
  ASSUME NEW n \in Nat, NEW S, S \subseteq 1..n, S # {}
  PROVE  \E m \in S : \A k \in S : k <= m
<1> DEFINE T == {n - k : k \in S}
<1>1. \A k \in S : n - k \in Nat
  OBVIOUS
<1> HIDE DEF T
<1>2. PICK t \in T : \A k \in T : t <= k
  <2>1. T \subseteq Nat /\ T # {}
    BY <1>1 DEF T
  <2> QED  BY <2>1, LeastNatural
<1>3. PICK m \in S : t = n - m
  BY DEF T
<1>4. \A k \in S : n - m <= n - k
  BY <1>2, <1>3 DEF T
<1>5. \A k \in S : k <= m
  BY <1>4
<1> QED  BY <1>5

\* The recursion of Those, from a sequence's start to its position i.
Keeps(upto, s, S) ==
  upto = [i \in 0..Len(s) |->
            IF i = 0 THEN << >>
            ELSE IF s[i] \in S THEN Append(upto[i - 1], s[i]) ELSE upto[i - 1]]

\* Its first n + 1 values.
KeepsTo(upto, n, s, S) ==
  upto = [i \in 0..n |->
            IF i = 0 THEN << >>
            ELSE IF s[i] \in S THEN Append(upto[i - 1], s[i]) ELSE upto[i - 1]]

\* The recursion has a solution: the shortest prefix without one would
\* extend a prefix with one.
LEMMA KeepsExists ==
  ASSUME NEW U, NEW s \in Seq(U), NEW S
  PROVE  \E upto : Keeps(upto, s, S)
<1> DEFINE N == Len(s)
           bad == {n \in 0..N : ~\E upto : KeepsTo(upto, n, s, S)}
<1>0. N \in Nat
  OBVIOUS
<1>1. bad = {}
  <2> SUFFICES ASSUME bad # {} PROVE FALSE
    OBVIOUS
  <2>0. bad \subseteq Nat
    BY <1>0
  <2>1. PICK m \in bad : \A k \in bad : m <= k
    <3> HIDE DEF bad
    <3> QED  BY <2>0, LeastNatural
  <2>2. CASE m = 0
    <3> DEFINE u == [i \in 0..0 |-> << >>]
    <3>1. KeepsTo(u, 0, s, S)
      <4>1. u = [i \in 0..0 |->
                   IF i = 0 THEN << >>
                   ELSE IF s[i] \in S THEN Append(u[i - 1], s[i]) ELSE u[i - 1]]
        <5>1. \A i \in 0..0 : i = 0
          OBVIOUS
        <5> QED  BY <5>1
      <4> HIDE DEF u
      <4> QED  BY <4>1 DEF KeepsTo
    <3> HIDE DEF u
    <3> QED  BY <2>2, <3>1
  <2>3. CASE m # 0
    <3>1. m - 1 \in 0..N /\ m \in 1..N /\ ~(m <= m - 1)
      BY <2>3, <1>0
    <3>2. PICK v : KeepsTo(v, m - 1, s, S)
      BY <2>1, <3>1
    <3> DEFINE u == [i \in 0..m |->
                       IF i # m THEN v[i]
                       ELSE IF s[m] \in S THEN Append(v[m - 1], s[m]) ELSE v[m - 1]]
    <3>3. \A i \in 0..m : i # m => i \in 0..(m - 1)
      BY <3>1
    <3>4. \A i \in 0..m : i # 0 => i - 1 \in 0..m /\ i - 1 # m
      BY <3>1
    <3>5. \A i \in 0..(m - 1) : v[i] = IF i = 0 THEN << >>
                 ELSE IF s[i] \in S THEN Append(v[i - 1], s[i]) ELSE v[i - 1]
      BY <3>2 DEF KeepsTo
    <3>6. \A i \in 0..m : i # 0 => u[i - 1] = v[i - 1]
      BY <3>4
    <3>7. \A i \in 0..m : u[i] = IF i = 0 THEN << >>
                 ELSE IF s[i] \in S THEN Append(u[i - 1], s[i]) ELSE u[i - 1]
      <4> TAKE i \in 0..m
      <4>1. CASE i = m
        BY <4>1, <3>1, <3>6
      <4>2. CASE i # m
        <5>1. u[i] = v[i] /\ i \in 0..(m - 1)
          BY <4>2, <3>3
        <5>2. CASE i = 0
          BY <5>1, <5>2, <3>5
        <5>3. CASE i # 0
          <6>1. u[i - 1] = v[i - 1]
            BY <5>3, <3>6
          <6> HIDE DEF u
          <6> QED  BY <5>1, <5>3, <6>1, <3>5
        <5> QED  BY <5>2, <5>3
      <4> QED  BY <4>1, <4>2
    <3>8. u = [i \in 0..m |-> u[i]]
      OBVIOUS
    <3> HIDE DEF u
    <3>9. KeepsTo(u, m, s, S)
      BY <3>7, <3>8 DEF KeepsTo
    <3> QED  BY <3>9, <2>1
  <2> QED  BY <2>2, <2>3
<1>2. PICK upto : KeepsTo(upto, N, s, S)
  BY <1>0, <1>1
<1> QED  BY <1>2 DEF Keeps, KeepsTo

\* One more element is one more thing the sequence holds.
LEMMA ContentsAppend ==
  ASSUME NEW U, NEW s \in Seq(U), NEW x \in U
  PROVE  Contents(Append(s, x)) = Contents(s) \cup {x}
<1> DEFINE t == Append(s, x)
<1>1. /\ DOMAIN t = 1..(Len(s) + 1) /\ DOMAIN s = 1..Len(s) /\ Len(s) \in Nat
      /\ t[Len(s) + 1] = x
      /\ \A i \in 1..Len(s) : t[i] = s[i]
  BY AppendProperties, LenProperties
<1> HIDE DEF t
<1>2. \A i \in DOMAIN t : i \in DOMAIN s \/ i = Len(s) + 1
  BY <1>1
<1>3. Len(s) + 1 \in DOMAIN t /\ DOMAIN s \subseteq DOMAIN t
  BY <1>1
<1>4. {t[i] : i \in DOMAIN t} = {s[i] : i \in DOMAIN s} \cup {x}
  <2>1. \A y : y \in {t[i] : i \in DOMAIN t} => y \in {s[i] : i \in DOMAIN s} \cup {x}
    BY <1>1, <1>2
  <2>2. \A i \in DOMAIN s : s[i] \in {t[j] : j \in DOMAIN t}
    <3> TAKE i \in DOMAIN s
    <3>1. i \in DOMAIN t /\ t[i] = s[i]
      BY <1>1, <1>3
    <3> QED  BY <3>1
  <2>3. x \in {t[j] : j \in DOMAIN t}
    BY <1>1, <1>3
  <2> QED  BY <2>1, <2>2, <2>3
<1> QED  BY <1>4 DEF t, Contents

\* Those is a sequence, and holds what is in both.
LEMMA ThoseType ==
  ASSUME NEW U, NEW s \in Seq(U), NEW S
  PROVE  /\ Those(s, S) \in Seq(U)
         /\ Contents(Those(s, S)) = Contents(s) \cap S
<1> DEFINE N == Len(s)
           f == CHOOSE upto : Keeps(upto, s, S)
<1>1. Those(s, S) = f[N]
  BY DEF Those, Keeps
<1>2. Keeps(f, s, S)
  BY KeepsExists
<1> HIDE DEF f
<1>3. N \in Nat /\ DOMAIN s = 1..N
  OBVIOUS
<1> DEFINE Good(n) == /\ f[n] \in Seq(U)
                      /\ Contents(f[n]) = {s[i] : i \in 1..n} \cap S
           bad == {n \in 0..N : ~Good(n)}
<1>4. bad = {}
  <2> SUFFICES ASSUME bad # {} PROVE FALSE
    OBVIOUS
  <2>0. bad \subseteq Nat
    BY <1>3
  <2>1. PICK m \in bad : \A k \in bad : m <= k
    <3> HIDE DEF bad
    <3> QED  BY <2>0, LeastNatural
  <2>2. CASE m = 0
    <3>1. f[0] = << >>
      BY <1>2, <1>3 DEF Keeps
    <3>2. Good(0)
      BY <3>1 DEF Contents
    <3> QED  BY <2>1, <2>2, <3>2
  <2>3. CASE m # 0
    <3>1. m - 1 \in 0..N /\ m \in 1..N /\ ~(m <= m - 1)
      BY <2>3, <1>3
    <3>2. f[m] = IF s[m] \in S THEN Append(f[m - 1], s[m]) ELSE f[m - 1]
      BY <1>2, <1>3, <3>1, <2>3 DEF Keeps
    <3>3. Good(m - 1)
      BY <3>1, <2>1
    <3>4. {s[i] : i \in 1..m} = {s[i] : i \in 1..(m - 1)} \cup {s[m]}
      <4>1. \A i \in 1..m : i = m \/ i \in 1..(m - 1)
        BY <3>1
      <4>2. m \in 1..m /\ \A i \in 1..(m - 1) : i \in 1..m
        BY <3>1
      <4> QED  BY <4>1, <4>2
    <3>5. s[m] \in U
      BY <3>1, <1>3
    <3>6. CASE s[m] \in S
      <4>1. f[m] = Append(f[m - 1], s[m])
        BY <3>2, <3>6
      <4>2. f[m] \in Seq(U)
        BY <4>1, <3>3, <3>5
      <4>3. Contents(f[m]) = Contents(f[m - 1]) \cup {s[m]}
        <5> DEFINE g == f[m - 1]
                   x == s[m]
        <5>1. g \in Seq(U) /\ x \in U
          BY <3>3, <3>5
        <5> HIDE DEF g, x
        <5>2. Contents(Append(g, x)) = Contents(g) \cup {x}
          BY <5>1, ContentsAppend
        <5> QED  BY <5>2, <4>1 DEF g, x
      <4>4. Good(m)
        BY <4>2, <4>3, <3>3, <3>4, <3>6
      <4> QED  BY <2>1, <4>4
    <3>7. CASE s[m] \notin S
      <4>1. f[m] = f[m - 1]
        BY <3>2, <3>7
      <4>2. Good(m)
        BY <4>1, <3>3, <3>4, <3>7
      <4> QED  BY <2>1, <4>2
    <3> QED  BY <3>6, <3>7
  <2> QED  BY <2>2, <2>3
<1>5. Good(N)
  <2>1. N \in 0..N
    BY <1>3
  <2> HIDE DEF Good
  <2> QED  BY <1>4, <2>1
<1>6. Contents(s) = {s[i] : i \in 1..N}
  BY <1>3 DEF Contents
<1> QED  BY <1>1, <1>5, <1>6

-----------------------------------------------------------------------------
(* Types                                                                   *)

NodeTypes == NodeType \cup Linked

\* A map of params has ids as keys and, at each id, a value of that id's kind.
LEMMA ParamMapHas ==
  ASSUME NEW f \in ParamMap
  PROVE  /\ DOMAIN f \subseteq Id
         /\ \A id \in DOMAIN f : f[id] \in Num \cup Text \cup Arr /\ f[id] \in Values(id)
  BY DEF ParamMap

\* Conversely, such a function is a map of params.
LEMMA ParamMapIs ==
  ASSUME NEW f, NEW D, D \subseteq Id, f = [id \in D |-> f[id]],
         \A id \in D : f[id] \in Num \cup Text \cup Arr /\ f[id] \in Values(id)
  PROVE  f \in ParamMap
<1>1. f \in [D -> Num \cup Text \cup Arr]
  OBVIOUS
<1> QED  BY <1>1 DEF ParamMap

\* A param map with one more param, and with one less.
LEMMA WithType ==
  ASSUME NEW f \in ParamMap, NEW id \in Id, NEW v \in Num \cup Text \cup Arr,
         v \in Values(id)
  PROVE  /\ With(f, id, v) \in ParamMap
         /\ DOMAIN With(f, id, v) = DOMAIN f \cup {id}
         /\ \A x \in DOMAIN f \cup {id} : With(f, id, v)[x] = IF x = id THEN v ELSE f[x]
<1> DEFINE g == With(f, id, v)
           D == DOMAIN f \cup {id}
<1>1. g = [x \in D |-> IF x = id THEN v ELSE f[x]]
  BY DEF With
<1> HIDE DEF g
<1>2. D \subseteq Id /\ \A x \in D : g[x] \in Num \cup Text \cup Arr /\ g[x] \in Values(x)
  BY <1>1, ParamMapHas
<1>3. g = [x \in D |-> g[x]]
  BY <1>1
<1>4. g \in ParamMap
  <2> HIDE DEF D
  <2> QED  BY <1>2, <1>3, ParamMapIs
<1> QED  BY <1>1, <1>4 DEF g

\* Dropping one key leaves a map of params.
LEMMA WithoutType ==
  ASSUME NEW f \in ParamMap, NEW id
  PROVE  Without(f, id) \in ParamMap
<1> DEFINE g == Without(f, id)
           D == DOMAIN f \ {id}
<1>1. g = [x \in D |-> f[x]]
  BY DEF Without
<1> HIDE DEF g
<1>2. D \subseteq Id /\ \A x \in D : g[x] \in Num \cup Text \cup Arr /\ g[x] \in Values(x)
  BY <1>1, ParamMapHas
<1>3. g = [x \in D |-> g[x]]
  BY <1>1
<1>4. g \in ParamMap
  <2> HIDE DEF D
  <2> QED  BY <1>2, <1>3, ParamMapIs
<1> QED  BY <1>4 DEF g

\* The parts of a document, and a document of its parts.
LEMMA DocumentHas ==
  ASSUME NEW d \in Document
  PROVE  /\ d.nodes \in Seq(Id \X NodeTypes) /\ d.edges \in Seq(Id \X Id)
         /\ d.defaults \in ParamMap
         /\ d = [nodes |-> d.nodes, edges |-> d.edges, defaults |-> d.defaults]
  BY DEF Document, NodeTypes

\* A document by its parts.
LEMMA DocumentIs ==
  ASSUME NEW ns \in Seq(Id \X NodeTypes), NEW es \in Seq(Id \X Id), NEW ds \in ParamMap
  PROVE  [nodes |-> ns, edges |-> es, defaults |-> ds] \in Document
  BY DEF Document, NodeTypes

\* Ops by their parts.
LEMMA OpIs ==
  ASSUME NEW T, NEW t \in T, NEW id \in Id
  PROVE  /\ \A type \in NodeTypes : Op("add_node", id, type, t) \in Ops(T)
         /\ Op("remove_node", id, "", t) \in Ops(T)
         /\ \A to \in Id : /\ Op("add_edge", id, to, t) \in Ops(T)
                           /\ Op("remove_edge", id, to, t) \in Ops(T)
         /\ \A v \in Values(id) : Op(SetterOf(id), id, v, t) \in Ops(T)
<1>1. \A type \in NodeTypes : Op("add_node", id, type, t) \in Ops(T)
  BY DEF Ops, OpsOver, Op, NodeTypes
<1>2. Op("remove_node", id, "", t) \in Ops(T)
  BY DEF Ops, OpsOver, Op
<1>3. \A to \in Id : /\ Op("add_edge", id, to, t) \in Ops(T)
                     /\ Op("remove_edge", id, to, t) \in Ops(T)
  BY DEF Ops, OpsOver, Op
<1>4. \A v \in Values(id) : Op(SetterOf(id), id, v, t) \in Ops(T)
  <2> TAKE v \in Values(id)
  <2> DEFINE o == Op(SetterOf(id), id, v, t)
  <2>1. o \in [op : {SetterOf(id)}, a : {id}, b : Values(id), tag : T]
    BY DEF Op
  <2> HIDE DEF o
  <2>2. o \in UNION {[op : {SetterOf(x)}, a : {x}, b : Values(x), tag : T] : x \in Id}
    BY <2>1
  <2>3. o \in Ops(T)
    BY <2>2 DEF Ops, OpsOver
  <2> QED  BY <2>3 DEF o
<1> QED  BY <1>1, <1>2, <1>3, <1>4

\* What an op of the vocabulary carries, by its kind.
LEMMA OpHas ==
  ASSUME NEW T, NEW o \in Ops(T)
  PROVE  /\ o.a \in Id /\ o.tag \in T
         /\ o.op = "add_node" => o.b \in NodeTypes
         /\ o.op \in {"add_edge", "remove_edge"} => o.b \in Id
         /\ IsParam(o) => o.op = SetterOf(o.a) /\ o.b \in Values(o.a)
         /\ o.op \in {"add_node", "remove_node", "add_edge", "remove_edge",
                      "set_param", "set_text"}
<1>1. CASE o \in [op : {"add_node"}, a : Id, b : NodeType \cup Linked, tag : T]
  BY <1>1 DEF NodeTypes, IsParam
<1>2. CASE o \in [op : {"remove_node"}, a : Id, b : {""}, tag : T]
  BY <1>2 DEF IsParam
<1>3. CASE o \in [op : {"add_edge", "remove_edge"}, a : Id, b : Id, tag : T]
  BY <1>3 DEF IsParam
<1>4. CASE o \in UNION {[op : {SetterOf(id)}, a : {id}, b : Values(id), tag : T] : id \in Id}
  <2>1. PICK id \in Id : o \in [op : {SetterOf(id)}, a : {id}, b : Values(id), tag : T]
    BY <1>4
  <2>2. o.a = id /\ o.tag \in T /\ o.op = SetterOf(id) /\ o.b \in Values(id)
    BY <2>1
  <2>3. SetterOf(id) \in {"set_param", "set_text"}
    BY DEF SetterOf
  <2> QED  BY <2>2, <2>3
<1> QED  BY <1>1, <1>2, <1>3, <1>4 DEF Ops, OpsOver

\* More tags, more ops.
LEMMA OpsWiden ==
  ASSUME NEW T, NEW W, T \subseteq W
  PROVE  Ops(T) \subseteq Ops(W)
<1> SUFFICES ASSUME NEW o \in Ops(T) PROVE o \in Ops(W)
  OBVIOUS
<1>1. CASE o \in [op : {"add_node"}, a : Id, b : NodeType \cup Linked, tag : T]
  BY <1>1 DEF Ops, OpsOver
<1>2. CASE o \in [op : {"remove_node"}, a : Id, b : {""}, tag : T]
  BY <1>2 DEF Ops, OpsOver
<1>3. CASE o \in [op : {"add_edge", "remove_edge"}, a : Id, b : Id, tag : T]
  BY <1>3 DEF Ops, OpsOver
<1>4. CASE o \in UNION {[op : {SetterOf(id)}, a : {id}, b : Values(id), tag : T] : id \in Id}
  <2>1. PICK id \in Id : o \in [op : {SetterOf(id)}, a : {id}, b : Values(id), tag : T]
    BY <1>4
  <2>2. o \in [op : {SetterOf(id)}, a : {id}, b : Values(id), tag : W]
    BY <2>1
  <2> QED  BY <2>2 DEF Ops, OpsOver
<1> QED  BY <1>1, <1>2, <1>3, <1>4 DEF Ops, OpsOver

\* An op of the log's own tags has one of them; a replayed op has none.
LEMMA LoggedOp ==
  ASSUME NEW o \in Ops(0..MaxSubmits)
  PROVE  o.tag # 0 => o \in Ops(1..MaxSubmits)
<1> SUFFICES ASSUME o.tag # 0 PROVE o \in Ops(1..MaxSubmits)
  OBVIOUS
<1> DEFINE T == 0..MaxSubmits
           W == 1..MaxSubmits
<1>0. \A t \in T : t # 0 => t \in W
  BY BoundAssumption
<1> HIDE DEF T, W
<1>1. CASE o \in [op : {"add_node"}, a : Id, b : NodeType \cup Linked, tag : T]
  <2>1. o \in [op : {"add_node"}, a : Id, b : NodeType \cup Linked, tag : W]
    BY <1>0, <1>1
  <2> QED  BY <2>1 DEF Ops, OpsOver, W
<1>2. CASE o \in [op : {"remove_node"}, a : Id, b : {""}, tag : T]
  <2>1. o \in [op : {"remove_node"}, a : Id, b : {""}, tag : W]
    BY <1>0, <1>2
  <2> QED  BY <2>1 DEF Ops, OpsOver, W
<1>3. CASE o \in [op : {"add_edge", "remove_edge"}, a : Id, b : Id, tag : T]
  <2>1. o \in [op : {"add_edge", "remove_edge"}, a : Id, b : Id, tag : W]
    BY <1>0, <1>3
  <2> QED  BY <2>1 DEF Ops, OpsOver, W
<1>4. CASE o \in UNION {[op : {SetterOf(id)}, a : {id}, b : Values(id), tag : T] : id \in Id}
  <2>1. PICK id \in Id : o \in [op : {SetterOf(id)}, a : {id}, b : Values(id), tag : T]
    BY <1>4
  <2>2. o \in [op : {SetterOf(id)}, a : {id}, b : Values(id), tag : W]
    BY <1>0, <2>1
  <2> QED  BY <2>2 DEF Ops, OpsOver, W
<1> QED  BY <1>1, <1>2, <1>3, <1>4 DEF Ops, OpsOver, T

\* The type of a node that is there.
LEMMA TypeInType ==
  ASSUME NEW ns \in Seq(Id \X NodeTypes), NEW id \in Ids(ns)
  PROVE  TypeIn(ns, id) \in NodeTypes
<1> DEFINE S == {i \in DOMAIN ns : ns[i][1] = id}
           last(i) == i \in DOMAIN ns /\ ns[i][1] = id /\ \A j \in DOMAIN ns : ns[j][1] = id => j <= i
<1>1. S # {} /\ S \subseteq 1..Len(ns) /\ Len(ns) \in Nat
  BY DEF Ids, Contents
<1>2. \E i \in S : \A j \in S : j <= i
  <2> HIDE DEF S
  <2> QED  BY <1>1, LastPosition
<1>3. \E i \in DOMAIN ns : last(i)
  BY <1>2
<1> DEFINE m == CHOOSE i \in DOMAIN ns : ns[i][1] = id /\ \A j \in DOMAIN ns : ns[j][1] = id => j <= i
<1>4. m \in DOMAIN ns
  BY <1>3
<1>5. \A i \in DOMAIN ns : ns[i][2] \in NodeTypes
  <2>1. \A i \in DOMAIN ns : ns[i] \in Id \X NodeTypes
    OBVIOUS
  <2> QED  BY <2>1
<1>6. TypeIn(ns, id) = ns[m][2]
  BY DEF TypeIn
<1> HIDE DEF m
<1> QED  BY <1>4, <1>5, <1>6

\* A sequence backwards.
LEMMA BackwardsType ==
  ASSUME NEW S, NEW s \in Seq(S)
  PROVE  /\ Backwards(s) \in Seq(S) /\ Len(Backwards(s)) = Len(s)
         /\ \A i \in 1..Len(s) : Backwards(s)[i] = s[Len(s) + 1 - i]
<1> DEFINE t == Backwards(s)
           n == Len(s)
<1>1. n \in Nat /\ DOMAIN s = 1..n /\ \A i \in 1..n : s[i] \in S
  OBVIOUS
<1>2. t = [i \in 1..n |-> s[n + 1 - i]]
  BY <1>1 DEF Backwards
<1> HIDE DEF t, n
<1>3. \A i \in 1..n : n + 1 - i \in 1..n
  BY <1>1
<1>4. \A i \in 1..n : t[i] = s[n + 1 - i] /\ t[i] \in S
  BY <1>1, <1>2, <1>3
<1>5. t \in [1..n -> S]
  BY <1>2, <1>4
<1>6. t \in Seq(S) /\ Len(t) = n
  BY <1>1, <1>5
<1> QED  BY <1>4, <1>6 DEF t, n

\* A number that is kept is a number, any other value itself.
LEMMA KeptType ==
  ASSUME NEW id \in Id, NEW v \in Values(id)
  PROVE  Kept(v) \in Values(id)
  BY ValueAssumption DEF Kept, Values

\* A param is of one of three kinds.
LEMMA KindIs ==
  ASSUME NEW id \in Id
  PROVE  KindOf[id] \in {"num", "text", "array"}
  BY ValueAssumption

\* What undo needs for a removed node is made of ops.
LEMMA RemovedParts ==
  ASSUME doc \in Document, NEW id \in Ids(doc.nodes), id \in Id
  PROVE  LET gone == Those(doc.edges, {e \in Contents(doc.edges) : Touches(e, id)})
             node == <<Op("add_node", id, TypeIn(doc.nodes, id), 0)>>
             edges == [i \in DOMAIN gone |-> Op("add_edge", gone[i][1], gone[i][2], 0)]
             param == IF id \in DOMAIN doc.defaults /\ KindOf[id] # "array"
                      THEN <<Op(SetterOf(id), id, Kept(doc.defaults[id]), 0)>>
                      ELSE << >>
         IN  node \in Seq(Ops({0})) /\ edges \in Seq(Ops({0})) /\ param \in Seq(Ops({0}))
<1> DEFINE S == Ops({0})
           gone == Those(doc.edges, {e \in Contents(doc.edges) : Touches(e, id)})
           node == <<Op("add_node", id, TypeIn(doc.nodes, id), 0)>>
           edges == [i \in DOMAIN gone |-> Op("add_edge", gone[i][1], gone[i][2], 0)]
           param == IF id \in DOMAIN doc.defaults /\ KindOf[id] # "array"
                    THEN <<Op(SetterOf(id), id, Kept(doc.defaults[id]), 0)>>
                    ELSE << >>
<1>1. node \in Seq(S)
  <2>1. Op("add_node", id, TypeIn(doc.nodes, id), 0) \in S
    BY DocumentHas, TypeInType, OpIs
  <2> HIDE DEF S
  <2> QED  BY <2>1
<1>2. edges \in Seq(S)
  <2>1. gone \in Seq(Id \X Id)
    BY DocumentHas, ThoseType
  <2> HIDE DEF gone
  <2>2. \A i \in 1..Len(gone) : gone[i][1] \in Id /\ gone[i][2] \in Id
    <3>1. \A i \in 1..Len(gone) : gone[i] \in Id \X Id
      BY <2>1
    <3> QED  BY <3>1
  <2>3. \A i \in 1..Len(gone) : edges[i] \in S
    <3> TAKE i \in 1..Len(gone)
    <3>1. i \in DOMAIN gone
      BY <2>1
    <3>2. edges[i] = Op("add_edge", gone[i][1], gone[i][2], 0)
      BY <3>1
    <3> HIDE DEF edges, S
    <3> QED  BY <3>2, <2>2, OpIs DEF S
  <2>4. edges = [i \in 1..Len(gone) |-> edges[i]]
    BY <2>1
  <2>5. Len(gone) \in Nat
    BY <2>1
  <2> HIDE DEF S, edges
  <2>6. edges \in [1..Len(gone) -> S]
    BY <2>3, <2>4
  <2> QED  BY <2>5, <2>6
<1>3. param \in Seq(S)
  <2>1. CASE id \in DOMAIN doc.defaults /\ KindOf[id] # "array"
    <3>1. doc.defaults[id] \in Values(id)
      BY <2>1, DocumentHas, ParamMapHas
    <3>2. Op(SetterOf(id), id, Kept(doc.defaults[id]), 0) \in S
      BY <3>1, KeptType, OpIs
    <3>3. param = <<Op(SetterOf(id), id, Kept(doc.defaults[id]), 0)>>
      BY <2>1
    <3> HIDE DEF S, param
    <3> QED  BY <3>2, <3>3
  <2>2. CASE ~(id \in DOMAIN doc.defaults /\ KindOf[id] # "array")
    <3>1. param = << >>
      BY <2>2
    <3> HIDE DEF S, param
    <3> QED  BY <3>1
  <2> QED  BY <2>1, <2>2
<1> QED  BY <1>1, <1>2, <1>3

\* The inverse of a removed node is a sequence of ops.
LEMMA RemovedType ==
  ASSUME doc \in Document, NEW id \in Ids(doc.nodes), id \in Id
  PROVE  Removed(id) \in Seq(Ops({0}))
<1> DEFINE gone == Those(doc.edges, {e \in Contents(doc.edges) : Touches(e, id)})
           node == <<Op("add_node", id, TypeIn(doc.nodes, id), 0)>>
           edges == [i \in DOMAIN gone |-> Op("add_edge", gone[i][1], gone[i][2], 0)]
           param == IF id \in DOMAIN doc.defaults /\ KindOf[id] # "array"
                    THEN <<Op(SetterOf(id), id, Kept(doc.defaults[id]), 0)>>
                    ELSE << >>
<1>1. node \in Seq(Ops({0})) /\ edges \in Seq(Ops({0})) /\ param \in Seq(Ops({0}))
  BY RemovedParts
<1>2. Removed(id) = node \o edges \o param
  BY DEF Removed
<1> HIDE DEF node, edges, param
<1> QED  BY <1>1, <1>2, ConcatProperties

\* Whoever writes the log writes the document before the op with it.
Logs(o, inverse) ==
  IF IsReplay(o) THEN UNCHANGED <<log, cursor, past>>
  ELSE /\ log' = Append(log, [op |-> o, inverse |-> inverse])
       /\ cursor' = Len(log) + 1
       /\ past' = Append(past, doc)

History ==
  /\ log \in Seq(LogEntry) /\ cursor \in 0..Len(log)
  /\ past \in Seq(Document) /\ Len(past) = Len(log)

\* Logging an op with its inverse keeps the types of log, inverses and cursor.
LEMMA LogsType ==
  ASSUME History, doc \in Document, NEW o \in Ops(0..MaxSubmits),
         NEW inverse \in Seq(Ops({0})), Logs(o, inverse)
  PROVE  History'
<1>1. CASE IsReplay(o)
  BY <1>1 DEF Logs, History
<1>2. CASE ~IsReplay(o)
  <2> DEFINE e == [op |-> o, inverse |-> inverse]
  <2>1. e \in LogEntry
    BY <1>2, LoggedOp DEF LogEntry, IsReplay
  <2>2. log' = Append(log, e) /\ past' = Append(past, doc) /\ cursor' = Len(log) + 1
    BY <1>2 DEF Logs
  <2> HIDE DEF e
  <2>3. log' \in Seq(LogEntry) /\ Len(log') = Len(log) + 1 /\ Len(log) \in Nat
    BY <2>1, <2>2 DEF History
  <2>4. past' \in Seq(Document) /\ Len(past') = Len(past) + 1
    BY <2>2 DEF History
  <2> QED  BY <2>2, <2>3, <2>4 DEF History
<1> QED  BY <1>1, <1>2

\* The sequence of one op.
LEMMA OneOp ==
  ASSUME NEW S, NEW x \in S
  PROVE  <<x>> \in Seq(S)
  OBVIOUS

\* Only an op of an array's route carries an array, and none of its ops
\* carries anything that a scalar route would take.
LEMMA SetterKinds ==
  ASSUME NEW T, NEW o \in Ops(T), IsParam(o)
  PROVE  /\ o.b \in Num \cup Text => KindOf[o.a] # "array"
         /\ o.b \in Arr => KindOf[o.a] = "array"
<1>1. o.a \in Id /\ o.b \in Values(o.a)
  BY OpHas
<1>2. KindOf[o.a] \in {"num", "text", "array"}
  BY <1>1, KindIs
<1> QED  BY <1>1, <1>2, ValueAssumption DEF Values

\* A number or a text: the document and the log stay what they are.
LEMMA ScalarFacts ==
  ASSUME TypeOK, NEW o \in Ops(0..MaxSubmits), SetScalar(o)
  PROVE  /\ o.a \in Id /\ o.b \in Num \cup Text /\ o.b \in Values(o.a)
         /\ KindOf[o.a] # "array"
         /\ <<Op(o.op, o.a, Previous(o.a), 0)>> \in Seq(Ops({0}))
         /\ Logs(o, <<Op(o.op, o.a, Previous(o.a), 0)>>)
         /\ doc' = [nodes |-> doc.nodes, edges |-> doc.edges,
                    defaults |-> With(doc.defaults, o.a, o.b)]
         /\ journal' = With(journal, o.a, o.b)
<1>1. /\ o.a \in Id /\ o.b \in Num \cup Text /\ o.b \in Values(o.a)
      /\ KindOf[o.a] # "array" /\ o.op = SetterOf(o.a)
  BY OpHas, SetterKinds DEF SetScalar, IsParam
<1>2. Previous(o.a) \in Values(o.a)
  <2>0. journal \in ParamMap /\ doc.defaults \in ParamMap
    BY DocumentHas DEF TypeOK
  <2>1. CASE o.a \in DOMAIN journal
    BY <2>0, <2>1, ParamMapHas DEF Previous
  <2>2. CASE o.a \notin DOMAIN journal /\ KindOf[o.a] = "num" /\ o.a \in DOMAIN doc.defaults
    <3>1. Previous(o.a) = Printed[doc.defaults[o.a]]
      BY <2>2 DEF Previous
    <3>2. doc.defaults[o.a] \in Num
      <4>1. doc.defaults[o.a] \in Values(o.a)
        BY <2>0, <2>2, ParamMapHas
      <4> QED  BY <2>2, <4>1 DEF Values
    <3> QED  BY <2>2, <3>1, <3>2, ValueAssumption DEF Values
  <2>3. CASE Previous(o.a) = Unset(o.a)
    BY <1>1, <2>3, KindIs, ValueAssumption DEF Unset, Values
  <2> QED  BY <2>1, <2>2, <2>3 DEF Previous
<1>3. Op(o.op, o.a, Previous(o.a), 0) \in Ops({0})
  BY <1>1, <1>2, OpIs
<1>4. Logs(o, <<Op(o.op, o.a, Previous(o.a), 0)>>)
  BY DEF SetScalar, Record, Logs, auxvars
<1>5. doc' = [nodes |-> doc.nodes, edges |-> doc.edges,
              defaults |-> With(doc.defaults, o.a, o.b)]
  <2>1. doc' = [doc EXCEPT !.defaults = With(@, o.a, o.b)]
    BY DEF SetScalar
  <2>2. doc = [nodes |-> doc.nodes, edges |-> doc.edges, defaults |-> doc.defaults]
    BY DocumentHas DEF TypeOK
  <2> QED  BY <2>1, <2>2
<1>6. journal' = With(journal, o.a, o.b)
  BY DEF SetScalar
<1>7. <<Op(o.op, o.a, Previous(o.a), 0)>> \in Seq(Ops({0}))
  BY <1>3
<1> QED  BY <1>1, <1>4, <1>5, <1>6, <1>7

\* An array: nothing live is written.
LEMMA ArrayFacts ==
  ASSUME TypeOK, NEW o \in Ops(0..MaxSubmits), SetArray(o)
  PROVE  /\ o.a \in Id /\ o.b \in Arr /\ KindOf[o.a] = "array" /\ o.b \in Values(o.a)
         /\ \E inverse \in Seq(Ops({0})) : Logs(o, inverse)
         /\ doc' = [nodes |-> doc.nodes, edges |-> doc.edges,
                    defaults |-> With(doc.defaults, o.a, o.b)]
         /\ UNCHANGED <<journal, insts, rejected>> /\ structural' = TRUE
<1>1. o.a \in Id /\ o.b \in Arr /\ KindOf[o.a] = "array" /\ o.b \in Values(o.a)
      /\ o.op = SetterOf(o.a) /\ o.op = "set_param"
  BY OpHas, SetterKinds DEF SetArray, IsParam
<1> DEFINE prev == IF o.a \in DOMAIN doc.defaults THEN doc.defaults[o.a] ELSE NoArr
           inv == <<Op("set_param", o.a, prev, 0)>>
<1>2. prev \in Values(o.a)
  <2>0. doc.defaults \in ParamMap
    BY DocumentHas DEF TypeOK
  <2>1. CASE o.a \in DOMAIN doc.defaults
    BY <2>0, <2>1, ParamMapHas
  <2>2. CASE o.a \notin DOMAIN doc.defaults
    BY <1>1, <2>2, ValueAssumption DEF Values
  <2> QED  BY <2>1, <2>2
<1>3. Logs(o, inv)
  BY DEF SetArray, Record, Logs, auxvars
<1> HIDE DEF prev
<1>4. inv \in Seq(Ops({0}))
  <2>1. Op("set_param", o.a, prev, 0) \in Ops({0})
    BY <1>1, <1>2, OpIs
  <2> QED  BY <2>1
<1>5. doc' = [nodes |-> doc.nodes, edges |-> doc.edges,
              defaults |-> With(doc.defaults, o.a, o.b)]
  <2>1. doc' = [doc EXCEPT !.defaults = With(@, o.a, o.b)]
    BY DEF SetArray
  <2>2. doc = [nodes |-> doc.nodes, edges |-> doc.edges, defaults |-> doc.defaults]
    BY DocumentHas DEF TypeOK
  <2> QED  BY <2>1, <2>2
<1>6. UNCHANGED <<journal, insts, rejected>> /\ structural' = TRUE
  BY DEF SetArray
<1> HIDE DEF inv
<1> QED  BY <1>1, <1>3, <1>4, <1>5, <1>6

\* An edit of nodes or edges makes a document of a document, drops params
\* at most, and leaves the live plan to the rebuild.
LEMMA StructuralFacts ==
  ASSUME TypeOK, NEW o \in Ops(0..MaxSubmits),
         AddNode(o) \/ RemoveNode(o) \/ AddEdge(o) \/ RemoveEdge(o)
  PROVE  /\ doc' \in Document
         /\ \E inverse \in Seq(Ops({0})) : Logs(o, inverse)
         /\ DOMAIN doc'.defaults \subseteq DOMAIN doc.defaults
         /\ \A id \in DOMAIN doc'.defaults : doc'.defaults[id] = doc.defaults[id]
         /\ UNCHANGED <<journal, insts, rejected>> /\ structural' = TRUE
<1>0. /\ doc \in Document
      /\ doc.nodes \in Seq(Id \X NodeTypes) /\ doc.edges \in Seq(Id \X Id)
      /\ doc.defaults \in ParamMap
      /\ doc = [nodes |-> doc.nodes, edges |-> doc.edges, defaults |-> doc.defaults]
  BY DocumentHas DEF TypeOK
<1>1. UNCHANGED <<journal, insts, rejected>> /\ structural' = TRUE
  BY DEF AddNode, RemoveNode, AddEdge, RemoveEdge, Restructure
<1>2. CASE AddNode(o)
  <2>1. o.a \in Id /\ o.b \in NodeTypes
    BY <1>2, OpHas DEF AddNode
  <2>2. doc' = [nodes |-> Append(doc.nodes, <<o.a, o.b>>), edges |-> doc.edges,
                defaults |-> doc.defaults]
    <3>1. doc' = [doc EXCEPT !.nodes = Append(@, <<o.a, o.b>>)]
      BY <1>2 DEF AddNode
    <3> QED  BY <1>0, <3>1
  <2>3. Append(doc.nodes, <<o.a, o.b>>) \in Seq(Id \X NodeTypes)
    BY <1>0, <2>1
  <2>4. Logs(o, <<Op("remove_node", o.a, "", 0)>>)
    BY <1>2 DEF AddNode, Record, Logs, auxvars
  <2>5. <<Op("remove_node", o.a, "", 0)>> \in Seq(Ops({0}))
    <3>1. Op("remove_node", o.a, "", 0) \in Ops({0})
      BY <2>1, OpIs
    <3> QED  BY <3>1, OneOp
  <2>6. doc' \in Document /\ doc'.defaults = doc.defaults
    BY <1>0, <2>2, <2>3, DocumentIs
  <2> QED  BY <1>1, <2>4, <2>5, <2>6
<1>3. CASE RemoveNode(o)
  <2> DEFINE ns == Those(doc.nodes, {n \in Contents(doc.nodes) : n[1] # o.a})
             es == Those(doc.edges, {e \in Contents(doc.edges) : ~Touches(e, o.a)})
             ds == Without(doc.defaults, o.a)
  <2>1. doc' = [nodes |-> ns, edges |-> es, defaults |-> ds]
    BY <1>3 DEF RemoveNode
  <2>2. ns \in Seq(Id \X NodeTypes) /\ es \in Seq(Id \X Id) /\ ds \in ParamMap
    BY <1>0, ThoseType, WithoutType
  <2>3. Removed(o.a) \in Seq(Ops({0})) /\ Logs(o, Removed(o.a))
    <3>1. o.a \in Id
      BY OpHas
    <3>2. o.a \in Ids(doc.nodes) /\ Logs(o, Removed(o.a))
      BY <1>3 DEF RemoveNode, Record, Logs, auxvars
    <3> QED  BY <1>0, <3>1, <3>2, RemovedType
  <2>4. DOMAIN ds \subseteq DOMAIN doc.defaults /\ \A id \in DOMAIN ds : ds[id] = doc.defaults[id]
    BY DEF Without
  <2> HIDE DEF ns, es, ds
  <2>5. doc' \in Document /\ doc'.defaults = ds
    BY <2>1, <2>2, DocumentIs
  <2> QED  BY <1>1, <2>3, <2>4, <2>5
<1>4. CASE AddEdge(o)
  <2>1. o.a \in Id /\ o.b \in Id
    BY <1>4, OpHas DEF AddEdge
  <2>2. doc' = [nodes |-> doc.nodes, edges |-> Append(doc.edges, <<o.a, o.b>>),
                defaults |-> doc.defaults]
    <3>1. doc' = [doc EXCEPT !.edges = Append(@, <<o.a, o.b>>)]
      BY <1>4 DEF AddEdge
    <3> QED  BY <1>0, <3>1
  <2>3. Append(doc.edges, <<o.a, o.b>>) \in Seq(Id \X Id)
    BY <1>0, <2>1
  <2>4. Logs(o, <<Op("remove_edge", o.a, o.b, 0)>>)
    BY <1>4 DEF AddEdge, Record, Logs, auxvars
  <2>5. <<Op("remove_edge", o.a, o.b, 0)>> \in Seq(Ops({0}))
    <3>1. Op("remove_edge", o.a, o.b, 0) \in Ops({0})
      BY <2>1, OpIs
    <3> QED  BY <3>1
  <2>6. doc' \in Document /\ doc'.defaults = doc.defaults
    BY <1>0, <2>2, <2>3, DocumentIs
  <2> QED  BY <1>1, <2>4, <2>5, <2>6
<1>5. CASE RemoveEdge(o)
  <2>1. o.a \in Id /\ o.b \in Id
    BY <1>5, OpHas DEF RemoveEdge
  <2> DEFINE es == Those(doc.edges, Contents(doc.edges) \ {<<o.a, o.b>>})
  <2>2. doc' = [nodes |-> doc.nodes, edges |-> es, defaults |-> doc.defaults]
    <3>1. doc' = [doc EXCEPT !.edges = Those(@, Contents(@) \ {<<o.a, o.b>>})]
      BY <1>5 DEF RemoveEdge
    <3> QED  BY <1>0, <3>1
  <2>3. es \in Seq(Id \X Id)
    BY <1>0, ThoseType
  <2> HIDE DEF es
  <2>4. Logs(o, <<Op("add_edge", o.a, o.b, 0)>>)
    BY <1>5 DEF RemoveEdge, Record, Logs, auxvars
  <2>5. <<Op("add_edge", o.a, o.b, 0)>> \in Seq(Ops({0}))
    <3>1. Op("add_edge", o.a, o.b, 0) \in Ops({0})
      BY <2>1, OpIs
    <3> QED  BY <3>1
  <2>6. doc' \in Document /\ doc'.defaults = doc.defaults
    BY <1>0, <2>2, <2>3, DocumentIs
  <2> QED  BY <1>1, <2>4, <2>5, <2>6
<1> QED  BY <1>2, <1>3, <1>4, <1>5

\* Types, with no batch outside pump_block.
Typed ==
  /\ TypeOK
  /\ pc \in {"idle", "undo"} => batch = << >>

\* The first state is typed.
LEMMA TypedInit == Init => Typed
<1> SUFFICES ASSUME Init PROVE Typed
  OBVIOUS
<1>1. doc \in Document
  BY DocAssumption DEF Init
<1>2. journal \in ParamMap
  <2>1. journal = [id \in {} |-> journal[id]]
    BY DEF Init
  <2> QED  BY <2>1, ParamMapIs
<1>3. \A S : << >> \in Seq(S)
  OBVIOUS
<1>4. log = << >> /\ past = << >> /\ cursor \in 0..Len(log) /\ Len(past) = Len(log)
  BY DEF Init
<1>5. submits \in 0..MaxSubmits /\ undos \in 0..MaxUndos /\ rejected \subseteq 0..MaxSubmits
  BY BoundAssumption DEF Init
<1>6. inlet = << >> /\ batch = << >> /\ queueing = << >>
  BY DEF Init
<1>7. pc = "idle" /\ structural = FALSE /\ gesture = FALSE
  BY DEF Init
<1> QED  BY <1>1, <1>2, <1>3, <1>4, <1>5, <1>6, <1>7 DEF Typed, TypeOK

\* A submitted op is typed.
LEMMA SubmittedType ==
  ASSUME NEW t, NEW o \in EditOps(t)
  PROVE  o \in Ops({t}) /\ o.tag = t
<1>0. o \in OpsOver(NodeType, {t})
  BY DEF EditOps
<1>1. CASE o \in [op : {"add_node"}, a : Id, b : NodeType, tag : {t}]
  BY <1>1 DEF Ops, OpsOver
<1>2. CASE o \in [op : {"remove_node"}, a : Id, b : {""}, tag : {t}]
  BY <1>2 DEF Ops, OpsOver
<1>3. CASE o \in [op : {"add_edge", "remove_edge"}, a : Id, b : Id, tag : {t}]
  BY <1>3 DEF Ops, OpsOver
<1>4. CASE o \in UNION {[op : {SetterOf(id)}, a : {id}, b : Values(id), tag : {t}] : id \in Id}
  <2>1. o.tag = t
    BY <1>4
  <2> QED  BY <1>4, <2>1 DEF Ops, OpsOver
<1> QED  BY <1>0, <1>1, <1>2, <1>3, <1>4 DEF OpsOver

\* One op of the batch keeps everything typed.
LEMMA TypedApplyOp ==
  ASSUME Typed, NEW o, ApplyOp(o)
  PROVE  Typed'
<1> DEFINE T == 0..MaxSubmits
<1>1. /\ pc = "apply" /\ batch # << >> /\ o = Head(batch) /\ batch' = Tail(batch)
      /\ UNCHANGED applyrest
  BY DEF ApplyOp, Takes
<1>2. o \in Ops(T) /\ batch' \in Seq(Ops(T))
  <2>1. batch \in Seq(Ops(T))
    BY DEF Typed, TypeOK
  <2> QED  BY <1>1, <2>1, HeadTailProperties
<1>3. History /\ doc \in Document /\ TypeOK
  BY DEF Typed, TypeOK, History
<1> HIDE DEF T
<1>4. /\ doc' \in Document /\ journal' \in ParamMap
      /\ History'
      /\ structural' \in BOOLEAN
      /\ rejected' \subseteq T
  <2>1. CASE SetScalar(o)
    <3>0. /\ o.a \in Id /\ o.b \in Num \cup Text /\ o.b \in Values(o.a)
          /\ <<Op(o.op, o.a, Previous(o.a), 0)>> \in Seq(Ops({0}))
          /\ Logs(o, <<Op(o.op, o.a, Previous(o.a), 0)>>)
          /\ doc' = [nodes |-> doc.nodes, edges |-> doc.edges,
                     defaults |-> With(doc.defaults, o.a, o.b)]
          /\ journal' = With(journal, o.a, o.b)
      BY <1>2, <1>3, <2>1, ScalarFacts DEF T
    <3>1. History'
      BY <1>2, <1>3, <3>0, LogsType DEF T
    <3>2. With(doc.defaults, o.a, o.b) \in ParamMap /\ journal' \in ParamMap
      <4>1. doc.defaults \in ParamMap /\ journal \in ParamMap
        BY DocumentHas DEF Typed, TypeOK
      <4>2. o.b \in Num \cup Text \cup Arr
        BY <3>0
      <4> QED  BY <3>0, <4>1, <4>2, WithType
    <3>3. doc' \in Document
      BY <1>3, <3>0, <3>2, DocumentHas, DocumentIs
    <3>4. UNCHANGED <<rejected, structural>>
      BY <2>1 DEF SetScalar
    <3> QED  BY <3>1, <3>2, <3>3, <3>4 DEF Typed, TypeOK, T
  <2>2. CASE SetArray(o)
    <3>0. /\ o.a \in Id /\ o.b \in Arr /\ o.b \in Values(o.a)
          /\ \E inverse \in Seq(Ops({0})) : Logs(o, inverse)
          /\ doc' = [nodes |-> doc.nodes, edges |-> doc.edges,
                     defaults |-> With(doc.defaults, o.a, o.b)]
          /\ UNCHANGED <<journal, insts, rejected>> /\ structural' = TRUE
      BY <1>2, <1>3, <2>2, ArrayFacts DEF T
    <3>1. History'
      BY <1>2, <1>3, <3>0, LogsType DEF T
    <3>2. With(doc.defaults, o.a, o.b) \in ParamMap
      <4>1. doc.defaults \in ParamMap
        BY DocumentHas DEF Typed, TypeOK
      <4>2. o.b \in Num \cup Text \cup Arr
        BY <3>0
      <4> QED  BY <3>0, <4>1, <4>2, WithType
    <3>3. doc' \in Document
      BY <1>3, <3>0, <3>2, DocumentHas, DocumentIs
    <3> QED  BY <3>0, <3>1, <3>3 DEF Typed, TypeOK, T
  <2>3. CASE AddNode(o) \/ RemoveNode(o) \/ AddEdge(o) \/ RemoveEdge(o)
    <3>0. /\ doc' \in Document
          /\ \E inverse \in Seq(Ops({0})) : Logs(o, inverse)
          /\ UNCHANGED <<journal, insts, rejected>> /\ structural' = TRUE
      BY <1>2, <1>3, <2>3, StructuralFacts DEF T
    <3>1. History'
      BY <1>2, <1>3, <3>0, LogsType DEF T
    <3> QED  BY <3>0, <3>1 DEF Typed, TypeOK, T
  <2>4. CASE Reject(o)
    <3>1. o.tag \in T
      BY <1>2, OpHas
    <3>2. rejected' = rejected \cup {o.tag} /\ UNCHANGED <<structural, cursor, doc, log, journal, past>>
      BY <2>4 DEF Reject, auxvars
    <3> QED  BY <3>1, <3>2 DEF Typed, TypeOK, History, T
  <2> QED  BY <2>1, <2>2, <2>3, <2>4 DEF ApplyOp
<1> QED  BY <1>1, <1>2, <1>4 DEF Typed, TypeOK, History, applyrest, T

\* What undo takes from the log is typed.
LEMMA RevertType ==
  ASSUME Typed, cursor > 0
  PROVE  /\ cursor \in 1..Len(log) /\ log[cursor] \in LogEntry
         /\ Backwards(log[cursor].inverse) \in Seq(Ops({0}))
         /\ cursor - 1 \in 0..Len(log)
<1>1. cursor \in 1..Len(log) /\ log \in Seq(LogEntry) /\ cursor - 1 \in 0..Len(log)
  BY DEF Typed, TypeOK
<1>2. log[cursor] \in LogEntry
  BY <1>1, ElementOfSeq
<1>3. log[cursor].inverse \in Seq(Ops({0}))
  BY <1>2 DEF LogEntry
<1> QED  BY <1>1, <1>2, <1>3, BackwardsType

\* Neither undo nor undo_gesture breaks a type.
LEMMA TypedUndo ==
  ASSUME Typed, UndoStep
  PROVE  Typed'
<1>1. CASE \E g \in BOOLEAN : Undo(g)
  <2>1. PICK g \in BOOLEAN : Undo(g)
    BY <1>1
  <2>2. /\ pc = "idle" /\ undos < MaxUndos /\ cursor > 0 /\ undos' = undos + 1
        /\ queueing' = Backwards(log[cursor].inverse)
        /\ cursor' = cursor - 1 /\ pc' = "undo"
        /\ UNCHANGED <<inlet, batch, structural, docvars, submits, past, clean>>
    BY <2>1 DEF Undo, Revert
  <2>3. gesture' \in BOOLEAN
    BY <2>1 DEF Undo, Revert, IsParam
  <2>4. undos' \in 0..MaxUndos
    BY <2>2, BoundAssumption DEF Typed, TypeOK
  <2> QED  BY <2>2, <2>3, <2>4, RevertType DEF Typed, TypeOK, docvars
<1>2. CASE PushInverse
  <2>1. /\ pc = "undo" /\ queueing # << >>
        /\ inlet' = Append(inlet, Head(queueing)) /\ queueing' = Tail(queueing)
        /\ UNCHANGED <<batch, pc, gesture, structural, cursor, docvars, submits, undos, auxvars>>
    BY <1>2 DEF PushInverse
  <2>2. Head(queueing) \in Ops({0}) /\ queueing' \in Seq(Ops({0}))
    BY <2>1, HeadTailProperties DEF Typed, TypeOK
  <2>3. Ops({0}) \subseteq Ops(0..MaxSubmits)
    <3>1. {0} \subseteq 0..MaxSubmits
      BY BoundAssumption
    <3> QED  BY <3>1, OpsWiden
  <2>4. inlet' \in Seq(Ops(0..MaxSubmits))
    BY <2>1, <2>2, <2>3, AppendProperties DEF Typed, TypeOK
  <2> QED  BY <2>1, <2>2, <2>4 DEF Typed, TypeOK, docvars, auxvars
<1>3. CASE UndoMore
  <2>1. /\ pc = "undo" /\ cursor > 0
        /\ queueing' = Backwards(log[cursor].inverse)
        /\ cursor' = cursor - 1
        /\ UNCHANGED <<inlet, batch, pc, structural, docvars, submits, undos, past, clean>>
    BY <1>3 DEF UndoMore, Revert
  <2>2. gesture' \in BOOLEAN
    BY <1>3 DEF UndoMore, Revert, IsParam
  <2> QED  BY <2>1, <2>2, RevertType DEF Typed, TypeOK, docvars
<1>4. CASE UndoReturns
  BY <1>4 DEF UndoReturns, Typed, TypeOK, docvars, auxvars
<1> QED  BY <1>1, <1>2, <1>3, <1>4 DEF UndoStep

\* No step breaks a type.
LEMMA TypedNext ==
  ASSUME Typed, [Next]_vars
  PROVE  Typed'
<1>1. CASE Submit
  <2>1. PICK o \in EditOps(submits + 1) : inlet' = Append(inlet, o)
    BY <1>1 DEF Submit
  <2>2. submits + 1 \in 0..MaxSubmits /\ submits' = submits + 1 /\ UNCHANGED <<planvars, undos, auxvars>>
    BY <1>1, BoundAssumption DEF Submit, Typed, TypeOK
  <2>3. o \in Ops(0..MaxSubmits)
    <3>1. {submits + 1} \subseteq 0..MaxSubmits
      BY <2>2
    <3> QED  BY <3>1, SubmittedType, OpsWiden
  <2>4. inlet' \in Seq(Ops(0..MaxSubmits))
    BY <2>1, <2>3, AppendProperties DEF Typed, TypeOK
  <2> QED  BY <2>2, <2>4 DEF Typed, TypeOK, planvars, docvars, auxvars
<1>2. CASE UndoStep
  BY <1>2, TypedUndo
<1>3. CASE Drain
  BY <1>3 DEF Drain, Typed, TypeOK, docvars, auxvars
<1>4. CASE Apply
  <2>1. CASE ApplyOp(Head(batch))
    BY <2>1, TypedApplyOp
  <2>2. CASE ParseThrows(Head(batch))
    <3>1. batch' = Tail(batch) /\ batch # << >> /\ batch' \in Seq(Ops(0..MaxSubmits))
      BY <2>2, HeadTailProperties DEF ParseThrows, Takes, Typed, TypeOK
    <3> QED  BY <2>2, <3>1 DEF ParseThrows, Typed, TypeOK, docvars, auxvars
  <2> QED  BY <1>4, <2>1, <2>2 DEF Apply
<1>5. CASE Process
  BY <1>5 DEF Process, Typed, TypeOK, auxvars
<1>6. CASE Rebuild
  BY <1>6 DEF Rebuild, Typed, TypeOK, auxvars
<1>7. CASE RebuildThrows
  BY <1>7 DEF RebuildThrows, Typed, TypeOK, docvars, auxvars
<1>8. CASE UNCHANGED vars
  BY <1>8 DEF vars, planvars, docvars, auxvars, Typed, TypeOK
<1> QED  BY <1>1, <1>2, <1>3, <1>4, <1>5, <1>6, <1>7, <1>8 DEF Next, PumpStep

-----------------------------------------------------------------------------
(* Realized instances and the nodes they realize                           *)

\* The fields every instance of a realized plan has.
Fields == {"id", "type", "region", "alive", "ran", "val"}

Instances(s) == \A i \in DOMAIN s : DOMAIN s[i] = Fields

\* A plan realizes a list of nodes: one instance per node, in its order.
Realizes(s, ns) ==
  /\ DOMAIN s = DOMAIN ns
  /\ \A i \in DOMAIN s : s[i].id = ns[i][1] /\ s[i].type = ns[i][2]

\* t holds the instances of s, whatever became of their states.
SamePlan(s, t) ==
  /\ DOMAIN t = DOMAIN s
  /\ \A i \in DOMAIN s : /\ DOMAIN t[i] = Fields
                         /\ t[i].id = s[i].id /\ t[i].type = s[i].type
                         /\ t[i].region = s[i].region

\* build_impl realizes the document's nodes.
LEMMA FreshRealizes ==
  ASSUME NEW d
  PROVE  Instances(Fresh(d)) /\ Realizes(Fresh(d), d.nodes)
  BY DEF Fresh, Instances, Realizes, Fields

\* A live param edit replaces no instance.
LEMMA SetLiveKeepsPlan ==
  ASSUME NEW s, Instances(s), NEW id, NEW v
  PROVE  SamePlan(s, SetLive(s, id, v))
<1> DEFINE k == First(s, id)
<1>1. CASE SetLive(s, id, v) = s
  BY <1>1 DEF SamePlan, Instances
<1>2. CASE SetLive(s, id, v) = [s EXCEPT ![k].val = v]
  <2> HIDE DEF k
  <2> QED  BY <1>2 DEF SamePlan, Instances, Fields
<1> QED  BY <1>1, <1>2 DEF SetLive

\* Migration gives states away, never instances.
LEMMA MigrateKeepsPlan ==
  ASSUME NEW fresh, Instances(fresh), NEW old
  PROVE  SamePlan(fresh, Migrate(fresh, old))
  BY DEF SamePlan, Instances, Migrate, Fields

\* Replaying the journal writes params, nothing else.
LEMMA ReplayKeepsPlan ==
  ASSUME NEW fresh, Instances(fresh), NEW j
  PROVE  SamePlan(fresh, Replay(fresh, j))
  BY DEF SamePlan, Instances, Replay, Fields

\* What realizes a document's nodes is known by ids, types and order only.
LEMMA SamePlanRealizes ==
  ASSUME NEW s, NEW t, NEW ns, Realizes(s, ns), SamePlan(s, t)
  PROVE  Instances(t) /\ Realizes(t, ns)
  BY DEF Realizes, SamePlan, Instances

-----------------------------------------------------------------------------
(* The plan matches the document                                           *)

\* The plan may only be behind the document inside pump_block's loop with
\* the structural flag up, or after an exception left pump_block.
PlanInv ==
  /\ DOMAIN doc = {"nodes", "edges", "defaults"}
  /\ Instances(insts)
  /\ Realizes(insts, doc.nodes) \/ (pc = "apply" /\ structural) \/ pc = "thrown"

\* The first plan is the plan of its document.
LEMMA PlanInvInit == Init => PlanInv
<1> SUFFICES ASSUME Init PROVE PlanInv
  OBVIOUS
<1>1. DOMAIN doc = {"nodes", "edges", "defaults"}
  <2>1. doc \in Document
    BY DocAssumption DEF Init
  <2> QED  BY <2>1 DEF Document
<1> QED  BY <1>1, FreshRealizes DEF Init, PlanInv

\* A step that touches neither the document nor the instances keeps the
\* invariant when the pump does not leave its loop.
LEMMA PlanInvIdle ==
  ASSUME PlanInv, UNCHANGED <<doc, insts>>,
         \/ pc \notin {"apply", "thrown"}
         \/ pc' = pc /\ structural' = structural
         \/ pc' = "thrown"
  PROVE  PlanInv'
  BY DEF PlanInv, Instances, Realizes

\* One op of the batch: an edit of nodes or edges raises the flag, a param
\* edit leaves nodes alone, and a rejected op changes nothing.
LEMMA PlanInvApplyOp ==
  ASSUME PlanInv, NEW o, ApplyOp(o)
  PROVE  PlanInv'
<1>0. pc = "apply" /\ pc' = "apply"
  BY DEF ApplyOp, Takes, applyrest
<1>1. CASE SetArray(o)
  BY <1>0, <1>1 DEF SetArray, PlanInv, Instances
<1>2. CASE SetScalar(o)
  <2>1. doc'.nodes = doc.nodes /\ DOMAIN doc' = DOMAIN doc /\ structural' = structural
    BY <1>2 DEF SetScalar, PlanInv
  <2>2. SamePlan(insts, insts')
    BY <1>2, SetLiveKeepsPlan DEF SetScalar, PlanInv
  <2>3. Instances(insts')
    BY <2>2 DEF SamePlan, Instances
  <2>4. Realizes(insts, doc.nodes) => Realizes(insts', doc'.nodes)
    BY <2>1, <2>2, SamePlanRealizes
  <2> QED  BY <1>0, <2>1, <2>3, <2>4 DEF PlanInv, Instances, Realizes
<1>3. CASE AddNode(o) \/ RemoveNode(o) \/ AddEdge(o) \/ RemoveEdge(o)
  <2>1. structural' = TRUE /\ insts' = insts
    BY <1>3 DEF AddNode, RemoveNode, AddEdge, RemoveEdge, Restructure
  <2>2. DOMAIN doc' = {"nodes", "edges", "defaults"}
    BY <1>3 DEF AddNode, RemoveNode, AddEdge, RemoveEdge, PlanInv
  <2> QED  BY <1>0, <2>1, <2>2 DEF PlanInv, Instances
<1>4. CASE Reject(o)
  BY <1>0, <1>4, PlanInvIdle DEF Reject
<1> QED  BY <1>1, <1>2, <1>3, <1>4 DEF ApplyOp

\* The rebuild catches up with the document.
LEMMA PlanInvRebuild ==
  ASSUME PlanInv, Rebuild
  PROVE  PlanInv'
<1> DEFINE fresh == Fresh(doc)
           home == Migrate(fresh, insts)
<1>1. insts' = Replay(home, journal) /\ doc' = doc
  BY DEF Rebuild
<1>2. Instances(fresh) /\ Realizes(fresh, doc.nodes)
  BY FreshRealizes
<1> HIDE DEF fresh
<1>3. Instances(home) /\ Realizes(home, doc.nodes)
  BY <1>2, MigrateKeepsPlan, SamePlanRealizes
<1> HIDE DEF home
<1>4. Instances(insts') /\ Realizes(insts', doc.nodes)
  BY <1>1, <1>3, ReplayKeepsPlan, SamePlanRealizes
<1> QED  BY <1>1, <1>4 DEF PlanInv, Instances, Realizes

\* A processed block runs the instances it finds.
LEMMA PlanInvProcess ==
  ASSUME PlanInv, Process
  PROVE  PlanInv'
<1>1. SamePlan(insts, insts')
  BY DEF Process, SamePlan, PlanInv, Instances, Fields
<1>2. Realizes(insts, doc.nodes) /\ doc' = doc
  BY DEF Process, PlanInv
<1>3. Instances(insts') /\ Realizes(insts', doc.nodes)
  BY <1>1, <1>2, SamePlanRealizes
<1> QED  BY <1>2, <1>3 DEF PlanInv, Instances, Realizes

\* No step breaks the invariant of the plan.
LEMMA PlanInvNext ==
  ASSUME PlanInv, [Next]_vars
  PROVE  PlanInv'
<1>1. CASE Submit
  BY <1>1, PlanInvIdle DEF Submit, planvars, docvars
<1>2. CASE UndoStep
  <2>1. pc \in {"idle", "undo"} /\ UNCHANGED <<doc, insts>>
    BY <1>2 DEF UndoStep, Undo, PushInverse, UndoMore, UndoReturns, docvars
  <2> QED  BY <2>1, PlanInvIdle
<1>3. CASE Drain
  BY <1>3, PlanInvIdle DEF Drain, docvars
<1>4. CASE Apply
  <2>1. CASE ApplyOp(Head(batch))
    BY <2>1, PlanInvApplyOp
  <2>2. CASE ParseThrows(Head(batch))
    BY <2>2, PlanInvIdle DEF ParseThrows, docvars
  <2> QED  BY <1>4, <2>1, <2>2 DEF Apply
<1>5. CASE Process
  BY <1>5, PlanInvProcess
<1>6. CASE Rebuild
  BY <1>6, PlanInvRebuild
<1>7. CASE RebuildThrows
  BY <1>7, PlanInvIdle DEF RebuildThrows, docvars
<1>8. CASE UNCHANGED vars
  BY <1>8, PlanInvIdle DEF vars, planvars, docvars
<1> QED  BY <1>1, <1>2, <1>3, <1>4, <1>5, <1>6, <1>7, <1>8 DEF Next, PumpStep

\* Between blocks the realized plan is the document's nodes, in order,
\* after any ops, undos, rejections and rebuilds (pump_block and rebuild).
THEOREM PlanAlwaysMatchesDoc == Spec => []PlanMatchesDoc
<1>1. PlanInv => PlanMatchesDoc
  BY DEF PlanInv, PlanMatchesDoc, Realizes
<1> QED  BY <1>1, PlanInvInit, PlanInvNext, PTL DEF Spec

-----------------------------------------------------------------------------
(* States come home                                                        *)

\* Instance i of s and instance j of t are the one node of its id, type and
\* region in either plan.
SameNode(s, i, t, j) ==
  /\ t[j].id = s[i].id /\ t[j].type = s[i].type /\ t[j].region = s[i].region
  /\ \A k \in DOMAIN s : s[k].id = s[i].id => k = i
  /\ \A k \in DOMAIN t : t[k].id = s[i].id => k = j

\* The state of such a node goes from s to t.
Survives(s, t) ==
  \A i \in DOMAIN s, j \in DOMAIN t :
    SameNode(s, i, t, j) => t[j].alive = s[i].alive /\ (s[i].ran => t[j].ran)

\* A migrated node that is unique in both plans receives its own state: it
\* has one donor, and no instance before it asked.
LEMMA MigrateSurvives ==
  ASSUME NEW fresh, Instances(fresh), NEW old
  PROVE  Survives(old, Migrate(fresh, old))
<1> DEFINE home == Migrate(fresh, old)
<1>1. SamePlan(fresh, home)
  BY MigrateKeepsPlan
<1> SUFFICES ASSUME NEW i \in DOMAIN old, NEW j \in DOMAIN home,
                    SameNode(old, i, home, j)
             PROVE  home[j].alive = old[i].alive /\ home[j].ran = old[i].ran
  BY DEF Survives
<1> DEFINE same == {k \in DOMAIN old : old[k].id = fresh[j].id
                                         /\ old[k].region = fresh[j].region}
           donor == CHOOSE k \in same : \A l \in same \ {k} : k < l
           earlier == \E k \in DOMAIN fresh \ {j} :
                        /\ k < j
                        /\ fresh[k].id = fresh[j].id /\ fresh[k].type = fresh[j].type
<1>2. /\ j \in DOMAIN fresh
      /\ fresh[j].id = old[i].id /\ fresh[j].type = old[i].type
      /\ fresh[j].region = old[i].region
  BY <1>1 DEF SamePlan, SameNode
<1>3. same = {i}
  BY <1>2 DEF SameNode
<1>4. donor = i
  <2> HIDE DEF same
  <2> QED  BY <1>3
<1>5. ~earlier
  BY <1>1, <1>2 DEF SamePlan, SameNode
<1>6. home[j] = IF ~(same # {} /\ old[donor].type = fresh[j].type) THEN fresh[j]
                ELSE IF earlier THEN [fresh[j] EXCEPT !.alive = FALSE, !.val = Native]
                ELSE [fresh[j] EXCEPT !.alive = old[donor].alive,
                                      !.ran = old[donor].ran,
                                      !.val = old[donor].val]
  BY <1>2 DEF Migrate
<1>7. home[j] = [fresh[j] EXCEPT !.alive = old[i].alive, !.ran = old[i].ran,
                                 !.val = old[i].val]
  <2> HIDE DEF home, same, donor, earlier
  <2> QED  BY <1>2, <1>3, <1>4, <1>5, <1>6
<1>8. DOMAIN fresh[j] = Fields
  BY <1>2 DEF Instances
<1> HIDE DEF home
<1> QED  BY <1>7, <1>8 DEF Fields

\* t holds the instances of s with the states they had or, if they have one,
\* have now run with.
SameStates(s, t) ==
  /\ SamePlan(s, t)
  /\ \A i \in DOMAIN s : t[i].alive = s[i].alive /\ (s[i].ran => t[i].ran)

\* What was survived so far is not lost on the way.
LEMMA SurvivesOn ==
  ASSUME NEW r, NEW s, NEW t, Survives(r, s), SameStates(s, t)
  PROVE  Survives(r, t)
<1> SUFFICES ASSUME NEW i \in DOMAIN r, NEW j \in DOMAIN t, SameNode(r, i, t, j)
             PROVE  t[j].alive = r[i].alive /\ (r[i].ran => t[j].ran)
  BY DEF Survives
<1>1. j \in DOMAIN s /\ SameNode(r, i, s, j)
  BY DEF SameStates, SamePlan, SameNode
<1> QED  BY <1>1 DEF Survives, SameStates

\* Instances that stay as they are keep their states.
LEMMA SurvivesSelf ==
  ASSUME NEW s
  PROVE  Survives(s, s)
  BY DEF Survives, SameNode

\* A live edit keeps the state of every instance.
LEMMA SetLiveKeepsStates ==
  ASSUME NEW s, Instances(s), NEW id, NEW v
  PROVE  SameStates(s, SetLive(s, id, v))
<1> DEFINE k == First(s, id)
<1>1. SamePlan(s, SetLive(s, id, v))
  BY SetLiveKeepsPlan
<1>2. CASE SetLive(s, id, v) = s
  BY <1>1, <1>2 DEF SameStates
<1>3. CASE SetLive(s, id, v) = [s EXCEPT ![k].val = v]
  <2> HIDE DEF k
  <2> QED  BY <1>1, <1>3 DEF SameStates, Instances, Fields
<1> QED  BY <1>2, <1>3 DEF SetLive

\* The replay of the journal keeps it as well.
LEMMA ReplayKeepsStates ==
  ASSUME NEW fresh, Instances(fresh), NEW j
  PROVE  SameStates(fresh, Replay(fresh, j))
<1>1. SamePlan(fresh, Replay(fresh, j))
  BY ReplayKeepsPlan
<1> QED  BY <1>1 DEF SameStates, Instances, Replay, Fields

\* So does a block.
LEMMA ProcessKeepsStates ==
  ASSUME Instances(insts), Process
  PROVE  SameStates(insts, insts')
<1>1. \A i \in DOMAIN insts :
        insts'[i] = [insts[i] EXCEPT !.ran = @ \/ insts[i].alive]
  BY DEF Process
<1>2. DOMAIN insts' = DOMAIN insts
  BY DEF Process
<1> QED  BY <1>1, <1>2 DEF SameStates, SamePlan, Instances, Fields

\* The steps that replace or change instances are a live param edit, a
\* rebuild and a block.
LEMMA SurvivesNext ==
  ASSUME PlanInv, [Next]_vars
  PROVE  Survives(insts, insts') \/ insts' = insts
<1>0. Instances(insts)
  BY DEF PlanInv
<1>1. CASE Submit \/ UndoStep \/ Drain \/ RebuildThrows \/ UNCHANGED vars
  BY <1>1 DEF Submit, UndoStep, Undo, PushInverse, UndoMore, UndoReturns, Drain,
              RebuildThrows, vars, planvars, docvars
<1>2. CASE Apply
  <2>1. CASE ParseThrows(Head(batch))
    BY <2>1 DEF ParseThrows, docvars
  <2>2. CASE ApplyOp(Head(batch))
    <3> DEFINE o == Head(batch)
    <3>1. CASE SetScalar(o)
      BY <1>0, <3>1, SetLiveKeepsStates, SurvivesSelf, SurvivesOn DEF SetScalar
    <3>2. CASE SetArray(o) \/ AddNode(o) \/ RemoveNode(o) \/ AddEdge(o)
                 \/ RemoveEdge(o) \/ Reject(o)
      BY <3>2 DEF SetArray, AddNode, RemoveNode, AddEdge, RemoveEdge, Reject,
                  Restructure
    <3> QED  BY <2>2, <3>1, <3>2 DEF ApplyOp
  <2> QED  BY <1>2, <2>1, <2>2 DEF Apply
<1>3. CASE Process
  BY <1>0, <1>3, ProcessKeepsStates, SurvivesSelf, SurvivesOn
<1>4. CASE Rebuild
  <2> DEFINE fresh == Fresh(doc)
             home == Migrate(fresh, insts)
  <2>1. insts' = Replay(home, journal)
    BY <1>4 DEF Rebuild
  <2>2. Instances(fresh) /\ Realizes(fresh, doc.nodes)
    BY FreshRealizes
  <2> HIDE DEF fresh
  <2>3. Survives(insts, home) /\ Instances(home)
    BY <2>2, MigrateSurvives, MigrateKeepsPlan, SamePlanRealizes
  <2> HIDE DEF home
  <2> QED  BY <2>1, <2>3, ReplayKeepsStates, SurvivesOn
<1> QED  BY <1>1, <1>2, <1>3, <1>4 DEF Next, PumpStep

\* Whatever edits, undos and rebuilds happen, a node that is the only one of
\* its id, and stays in its region, keeps the state it ran with (rebuild's
\* state migration), for any types and any documents.
THEOREM StateAlwaysSurvives == Spec => StateSurvives
<1>1. PlanInv /\ [Next]_vars =>
        [\A i \in DOMAIN insts, j \in DOMAIN insts' :
           (/\ insts'[j].id = insts[i].id /\ insts'[j].type = insts[i].type
            /\ insts'[j].region = insts[i].region
            /\ \A k \in DOMAIN insts : insts[k].id = insts[i].id => k = i
            /\ \A k \in DOMAIN insts' : insts'[k].id = insts[i].id => k = j)
           => insts'[j].alive = insts[i].alive /\ (insts[i].ran => insts'[j].ran)]_insts
  BY SurvivesNext DEF Survives, SameNode
<1> QED  BY <1>1, PlanInvInit, PlanInvNext, PTL DEF Spec, StateSurvives

-----------------------------------------------------------------------------
(* Live params follow the document                                         *)

Sized(s) == \E n \in Nat : DOMAIN s = 1..n

\* The first instance of an id is an instance of it, before all others.
LEMMA FirstIs ==
  ASSUME NEW s, Sized(s), NEW id, Has(s, id)
  PROVE  /\ First(s, id) \in DOMAIN s /\ s[First(s, id)].id = id
         /\ \A k \in DOMAIN s : s[k].id = id => First(s, id) <= k
<1>1. PICK n \in Nat : DOMAIN s = 1..n
  BY DEF Sized
<1> DEFINE S == {i \in DOMAIN s : s[i].id = id}
           first(i) == s[i].id = id /\ \A j \in 1..(i - 1) : s[j].id # id
           f == CHOOSE i \in DOMAIN s : first(i)
<1>2. S \subseteq Nat /\ S # {}
  BY <1>1 DEF Has
<1>3. PICK m \in S : \A k \in S : m <= k
  <2> HIDE DEF S
  <2> QED  BY <1>2, LeastNatural
<1>4. first(m)
  <2> SUFFICES ASSUME NEW j \in 1..(m - 1), s[j].id = id PROVE FALSE
    BY <1>3
  <2>1. j \in DOMAIN s /\ ~(m <= j)
    BY <1>1, <1>3
  <2> QED  BY <2>1, <1>3
<1>5. f \in DOMAIN s /\ first(f)
  <2>1. m \in DOMAIN s
    BY <1>3
  <2> HIDE DEF first
  <2> QED  BY <1>4, <2>1
<1>6. \A k \in DOMAIN s : s[k].id = id => f <= k
  <2> SUFFICES ASSUME NEW k \in DOMAIN s, s[k].id = id, ~(f <= k) PROVE FALSE
    OBVIOUS
  <2>1. k \in 1..(f - 1)
    BY <1>1, <1>5
  <2> QED  BY <2>1, <1>5
<1>7. f = First(s, id)
  BY DEF First
<1> HIDE DEF f
<1> QED  BY <1>5, <1>6, <1>7

\* Plans of the same instances have the same first ones.
LEMMA FirstSame ==
  ASSUME NEW s, NEW t, Sized(s), SamePlan(s, t), NEW id, Has(s, id) \/ Has(t, id)
  PROVE  First(t, id) = First(s, id) /\ Has(s, id) /\ Has(t, id)
<1>1. Sized(t) /\ Has(s, id) /\ Has(t, id) /\ DOMAIN s = DOMAIN t
  BY DEF SamePlan, Sized, Has
<1>2. /\ First(s, id) \in DOMAIN s /\ s[First(s, id)].id = id
      /\ First(t, id) \in DOMAIN s /\ s[First(t, id)].id = id
  BY <1>1, FirstIs DEF SamePlan
<1>3. First(s, id) <= First(t, id) /\ First(t, id) <= First(s, id)
  BY <1>1, <1>2, FirstIs DEF SamePlan
<1>4. First(s, id) \in Nat /\ First(t, id) \in Nat
  BY <1>1, <1>2 DEF Sized
<1> QED  BY <1>1, <1>3, <1>4

\* Every live scalar the document defines shows its value.
Shows(s, ds) ==
  \A i \in DOMAIN s :
    (/\ First(s, s[i].id) = i /\ s[i].alive
     /\ KindOf[s[i].id] # "array" /\ s[i].id \in DOMAIN ds)
    => s[i].val = ds[s[i].id]

\* An id decides its region, so the first old instance of an id, if any in
\* the fresh one's region, is the one whose state comes home.
OneRegion(s) ==
  \A i, j \in DOMAIN s : s[i].id = s[j].id => s[i].region = s[j].region

\* The journal never says anything else than the document.
Journalled(j, ds) ==
  \A id \in DOMAIN j \cap DOMAIN ds : KindOf[id] # "array" => j[id] = ds[id]

\* Unlike the property, this holds in the middle of a batch too: each op
\* writes the live instance, the journal and the document alike, or leaves
\* the document less to say.
LiveInv ==
  /\ Typed /\ PlanInv
  /\ Sized(insts) /\ OneRegion(insts)
  /\ Journalled(journal, doc.defaults)
  /\ Shows(insts, doc.defaults)

\* The instances have the id of each of them.
LEMMA HasSelf ==
  ASSUME NEW s, NEW i \in DOMAIN s
  PROVE  Has(s, s[i].id)
  BY DEF Has

\* A live edit writes the instance the document's value goes to.
LEMMA SetLiveShows ==
  ASSUME NEW s, Sized(s), Instances(s), NEW ds \in ParamMap, Shows(s, ds),
         NEW id \in Id, NEW v \in Num \cup Text \cup Arr, v \in Values(id)
  PROVE  Shows(SetLive(s, id, v), With(ds, id, v))
<1> DEFINE t == SetLive(s, id, v)
           es == With(ds, id, v)
           k == First(s, id)
<1>1. SamePlan(s, t) /\ SameStates(s, t)
  BY SetLiveKeepsPlan, SetLiveKeepsStates
<1>2. DOMAIN es = DOMAIN ds \cup {id} /\ \A x \in DOMAIN es : es[x] = IF x = id THEN v ELSE ds[x]
  BY WithType
<1> HIDE DEF es
<1> SUFFICES ASSUME NEW i \in DOMAIN t, First(t, t[i].id) = i, t[i].alive,
                    KindOf[t[i].id] # "array", t[i].id \in DOMAIN es
             PROVE  t[i].val = es[t[i].id]
  BY DEF Shows, es
<1>3. /\ i \in DOMAIN s /\ t[i].id = s[i].id /\ s[i].alive
      /\ First(s, s[i].id) = i
  <2>1. i \in DOMAIN s /\ t[i].id = s[i].id /\ s[i].alive
    BY <1>1 DEF SamePlan, SameStates
  <2>2. Has(s, s[i].id)
    BY <2>1, HasSelf
  <2> HIDE DEF t
  <2> QED  BY <1>1, <2>1, <2>2, FirstSame
<1>4. CASE s[i].id = id
  <2>1. Has(s, id) /\ k = i /\ s[k].alive
    BY <1>3, <1>4, HasSelf
  <2>2. t = [s EXCEPT ![k].val = v]
    BY <2>1 DEF SetLive
  <2>3. t[i].val = v
    <3> HIDE DEF k, t
    <3> QED  BY <1>3, <2>1, <2>2 DEF Instances, Fields
  <2> HIDE DEF t
  <2> QED  BY <1>2, <1>3, <1>4, <2>3
<1>5. CASE s[i].id # id
  <2>1. t[i] = s[i]
    <3>1. CASE t = s
      BY <3>1
    <3>2. CASE Has(s, id) /\ t = [s EXCEPT ![k].val = v]
      <4>1. k # i
        BY <1>5, <3>2, FirstIs
      <4> HIDE DEF k, t
      <4> QED  BY <1>3, <3>2, <4>1
    <3> QED  BY <3>1, <3>2 DEF SetLive
  <2> HIDE DEF t
  <2> QED  BY <1>2, <1>3, <1>5, <2>1 DEF Shows
<1> QED  BY <1>4, <1>5

\* What a step leaves alone or forgets, it does not contradict.
LEMMA ShowsLess ==
  ASSUME NEW s, NEW ds, NEW es, Shows(s, ds),
         \A id \in DOMAIN es : KindOf[id] # "array" => id \in DOMAIN ds /\ es[id] = ds[id]
  PROVE  Shows(s, es)
  BY DEF Shows

\* What an instance shows depends on its place, its life and its value only.
LEMMA ShowsSame ==
  ASSUME NEW s, NEW t, NEW ds, Sized(s), Shows(s, ds), SamePlan(s, t),
         \A i \in DOMAIN s : t[i].alive = s[i].alive /\ t[i].val = s[i].val
  PROVE  Shows(t, ds)
<1> SUFFICES ASSUME NEW i \in DOMAIN t, First(t, t[i].id) = i, t[i].alive,
                    KindOf[t[i].id] # "array", t[i].id \in DOMAIN ds
             PROVE  t[i].val = ds[t[i].id]
  BY DEF Shows
<1>1. i \in DOMAIN s /\ t[i].id = s[i].id
  BY DEF SamePlan
<1>2. First(s, s[i].id) = i
  BY <1>1, HasSelf, FirstSame
<1> QED  BY <1>1, <1>2 DEF Shows

\* build_impl applies the defaults to the first instance of each id.
LEMMA FreshFacts ==
  ASSUME NEW d \in Document
  PROVE  /\ Sized(Fresh(d)) /\ OneRegion(Fresh(d)) /\ Shows(Fresh(d), d.defaults)
<1> DEFINE s == Fresh(d)
           first(i) == \A j \in 1..(i - 1) : d.nodes[j][1] # d.nodes[i][1]
<1>1. /\ DOMAIN s = DOMAIN d.nodes
      /\ \A i \in DOMAIN s :
           /\ s[i].id = d.nodes[i][1]
           /\ s[i].region = IF d.nodes[i][1] \in BlockRegion(d) THEN "block" ELSE "frame"
           /\ s[i].val = IF first(i) /\ d.nodes[i][1] \in DOMAIN d.defaults
                         THEN d.defaults[d.nodes[i][1]] ELSE Native
  BY DEF Fresh
<1>2. PICK n \in Nat : DOMAIN d.nodes = 1..n
  BY DocumentHas
<1> HIDE DEF s
<1>3. Sized(s) /\ OneRegion(s)
  BY <1>1, <1>2 DEF Sized, OneRegion
<1>4. ASSUME NEW i \in DOMAIN s, First(s, s[i].id) = i, s[i].id \in DOMAIN d.defaults
      PROVE  s[i].val = d.defaults[s[i].id]
  <2>1. \A k \in DOMAIN s : s[k].id = s[i].id => i <= k
    BY <1>3, <1>4, HasSelf, FirstIs
  <2>2. first(i)
    <3> SUFFICES ASSUME NEW j \in 1..(i - 1), d.nodes[j][1] = d.nodes[i][1] PROVE FALSE
      OBVIOUS
    <3>1. j \in DOMAIN s /\ ~(i <= j)
      BY <1>1, <1>2
    <3> QED  BY <1>1, <2>1, <3>1
  <2> QED  BY <1>1, <1>4, <2>2
<1>5. Shows(s, d.defaults)
  BY <1>4 DEF Shows
<1> QED  BY <1>3, <1>5 DEF s

\* The state that comes home to the first instance of an id is that of the
\* first instance of it before, or there is none and the document speaks.
LEMMA MigrateShows ==
  ASSUME NEW d \in Document, NEW old, Sized(old), Instances(old), OneRegion(old),
         Shows(old, d.defaults)
  PROVE  Shows(Migrate(Fresh(d), old), d.defaults)
<1> DEFINE fresh == Fresh(d)
           home == Migrate(fresh, old)
<1>1. Sized(fresh) /\ OneRegion(fresh) /\ Shows(fresh, d.defaults) /\ Instances(fresh)
  BY FreshFacts, FreshRealizes
<1> HIDE DEF fresh
<1>2. SamePlan(fresh, home)
  BY <1>1, MigrateKeepsPlan
<1> SUFFICES ASSUME NEW i \in DOMAIN home, First(home, home[i].id) = i, home[i].alive,
                    KindOf[home[i].id] # "array", home[i].id \in DOMAIN d.defaults
             PROVE  home[i].val = d.defaults[home[i].id]
  BY DEF Shows, fresh
<1>3. /\ i \in DOMAIN fresh /\ fresh[i].id = home[i].id
      /\ First(fresh, fresh[i].id) = i
  <2>1. i \in DOMAIN fresh /\ fresh[i].id = home[i].id
    BY <1>2 DEF SamePlan
  <2>2. Has(fresh, fresh[i].id)
    BY <2>1, HasSelf
  <2> HIDE DEF home
  <2> QED  BY <1>1, <1>2, <2>1, <2>2, FirstSame
<1> DEFINE id == fresh[i].id
           same == {j \in DOMAIN old : old[j].id = fresh[i].id
                                         /\ old[j].region = fresh[i].region}
           donor == CHOOSE j \in same : \A l \in same \ {j} : j < l
           gets == same # {} /\ old[donor].type = fresh[i].type
           earlier == \E l \in DOMAIN fresh \ {i} :
                        /\ l < i
                        /\ fresh[l].id = fresh[i].id /\ fresh[l].type = fresh[i].type
<1>4. home[i] = IF ~gets THEN fresh[i]
                ELSE IF earlier THEN [fresh[i] EXCEPT !.alive = FALSE, !.val = Native]
                ELSE [fresh[i] EXCEPT !.alive = old[donor].alive,
                                      !.ran = old[donor].ran,
                                      !.val = old[donor].val]
  BY <1>3 DEF Migrate
<1>5. ~earlier
  <2> SUFFICES ASSUME NEW l \in DOMAIN fresh, l < i, fresh[l].id = fresh[i].id PROVE FALSE
    OBVIOUS
  <2>1. i <= l
    <3>1. Has(fresh, fresh[i].id)
      BY <1>3, HasSelf
    <3> QED  BY <1>1, <1>3, <3>1, FirstIs
  <2>2. i \in Nat /\ l \in Nat
    BY <1>1, <1>3 DEF Sized
  <2> QED  BY <2>1, <2>2
<1>6. CASE ~gets
  <2>1. home[i] = fresh[i]
    <3> HIDE DEF home, gets, earlier
    <3> QED  BY <1>4, <1>6
  <2> HIDE DEF home
  <2> QED  BY <1>1, <1>3, <2>1 DEF Shows
<1>7. CASE gets
  <2>1. home[i] = [fresh[i] EXCEPT !.alive = old[donor].alive, !.ran = old[donor].ran,
                                   !.val = old[donor].val]
    <3> HIDE DEF home, gets, earlier, donor
    <3> QED  BY <1>4, <1>5, <1>7
  <2>2. DOMAIN fresh[i] = Fields
    BY <1>1, <1>3 DEF Instances
  <2>3. home[i].alive = old[donor].alive /\ home[i].val = old[donor].val
    <3> HIDE DEF home, donor
    <3> QED  BY <2>1, <2>2 DEF Fields
  <2> DEFINE k == First(old, id)
  <2>4. PICK j \in same : TRUE
    BY <1>7
  <2>5. Has(old, id) /\ k \in DOMAIN old /\ old[k].id = id /\ \A l \in DOMAIN old : old[l].id = id => k <= l
    <3>1. j \in DOMAIN old /\ old[j].id = id
      BY <2>4
    <3>2. Has(old, id)
      BY <3>1, HasSelf
    <3> HIDE DEF same, id
    <3> QED  BY <3>2, FirstIs
  <2>6. k \in same
    <3>1. old[k].region = old[j].region
      BY <2>4, <2>5 DEF OneRegion
    <3> HIDE DEF k
    <3> QED  BY <2>4, <2>5, <3>1
  <2>7. \A l \in same \ {k} : k < l
    <3> TAKE l \in same \ {k}
    <3>1. k <= l /\ k # l /\ l \in DOMAIN old
      BY <2>5
    <3>2. k \in Nat /\ l \in Nat
      BY <2>5, <3>1 DEF Sized
    <3> HIDE DEF k
    <3> QED  BY <3>1, <3>2
  <2>8. donor = k
    <3>1. donor \in same /\ \A l \in same \ {donor} : donor < l
      <4> HIDE DEF k, same
      <4> QED  BY <2>6, <2>7
    <3>2. donor \in Nat /\ k \in Nat
      <4>1. donor \in DOMAIN old
        BY <3>1
      <4> HIDE DEF donor, k
      <4> QED  BY <2>5, <4>1 DEF Sized
    <3> HIDE DEF donor, k, same
    <3> QED  BY <2>6, <2>7, <3>1, <3>2
  <2>9. old[k].val = d.defaults[id]
    <3>1. First(old, old[k].id) = k
      BY <2>5
    <3>2. old[k].alive /\ KindOf[old[k].id] # "array" /\ old[k].id \in DOMAIN d.defaults
      <4> HIDE DEF donor, k, home
      <4> QED  BY <1>3, <2>3, <2>5, <2>8
    <3> HIDE DEF k
    <3> QED  BY <2>5, <3>1, <3>2 DEF Shows
  <2> HIDE DEF donor, k, home
  <2> QED  BY <1>3, <2>3, <2>8, <2>9
<1> QED  BY <1>6, <1>7

\* After a rebuild the live params show the document: the old values come from
\* migration, the ones set live since from the journal.
LEMMA LiveRebuild ==
  ASSUME LiveInv, Rebuild
  PROVE  Sized(insts') /\ OneRegion(insts') /\ Shows(insts', doc.defaults)
<1> DEFINE fresh == Fresh(doc)
           home == Migrate(fresh, insts)
<1>1. insts' = Replay(home, journal)
  BY DEF Rebuild
<1>0. doc \in Document /\ Instances(insts)
  BY DEF LiveInv, Typed, TypeOK, PlanInv
<1>2. Sized(fresh) /\ OneRegion(fresh) /\ Instances(fresh)
  BY <1>0, FreshFacts, FreshRealizes
<1>3. Shows(home, doc.defaults)
  BY <1>0, MigrateShows DEF LiveInv
<1> HIDE DEF fresh
<1>4. SamePlan(fresh, home)
  BY <1>2, MigrateKeepsPlan
<1>5. Sized(home) /\ OneRegion(home) /\ Instances(home)
  BY <1>2, <1>4 DEF SamePlan, Sized, OneRegion, Instances
<1> HIDE DEF home
<1>6. SamePlan(home, insts') /\ SameStates(home, insts')
  BY <1>1, <1>5, ReplayKeepsPlan, ReplayKeepsStates
<1>7. Sized(insts') /\ OneRegion(insts')
  BY <1>5, <1>6 DEF SamePlan, Sized, OneRegion
<1>8. ASSUME NEW i \in DOMAIN insts', First(insts', insts'[i].id) = i, insts'[i].alive,
             KindOf[insts'[i].id] # "array", insts'[i].id \in DOMAIN doc.defaults
      PROVE  insts'[i].val = doc.defaults[insts'[i].id]
  <2>1. i \in DOMAIN home /\ insts'[i].id = home[i].id /\ home[i].alive
    BY <1>6, <1>8 DEF SamePlan, SameStates
  <2>2. First(home, home[i].id) = i
    BY <1>5, <1>6, <1>8, <2>1, HasSelf, FirstSame
  <2>3. CASE home[i].id \in DOMAIN journal
    <3>1. insts'[i] = [home[i] EXCEPT !.val = journal[home[i].id]]
      BY <1>1, <2>1, <2>2, <2>3 DEF Replay
    <3>2. insts'[i].val = journal[home[i].id]
      BY <1>5, <2>1, <3>1 DEF Instances, Fields
    <3> QED  BY <1>8, <2>1, <2>3, <3>2 DEF LiveInv, Journalled
  <2>4. CASE home[i].id \notin DOMAIN journal
    <3>1. insts'[i] = home[i]
      BY <1>1, <2>1, <2>4 DEF Replay
    <3> QED  BY <1>3, <1>8, <2>1, <2>2, <3>1 DEF Shows
  <2> QED  BY <2>3, <2>4
<1>9. Shows(insts', doc.defaults)
  BY <1>8 DEF Shows
<1> QED  BY <1>7, <1>9

\* After any op the live params show the document again.
LEMMA LiveApplyOp ==
  ASSUME LiveInv, NEW o, ApplyOp(o)
  PROVE  /\ Sized(insts') /\ OneRegion(insts')
         /\ Journalled(journal', doc'.defaults) /\ Shows(insts', doc'.defaults)
<1>1. TypeOK /\ o \in Ops(0..MaxSubmits) /\ Instances(insts)
  <2>1. batch # << >> /\ o = Head(batch) /\ batch \in Seq(Ops(0..MaxSubmits))
    BY DEF ApplyOp, Takes, LiveInv, Typed, TypeOK
  <2> QED  BY <2>1, HeadTailProperties DEF LiveInv, Typed, PlanInv
<1>2. doc.defaults \in ParamMap /\ journal \in ParamMap
  BY <1>1, DocumentHas DEF TypeOK
<1>3. CASE SetScalar(o)
  <2>1. /\ o.a \in Id /\ o.b \in Num \cup Text \cup Arr /\ o.b \in Values(o.a)
        /\ doc'.defaults = With(doc.defaults, o.a, o.b)
        /\ journal' = With(journal, o.a, o.b)
        /\ insts' = SetLive(insts, o.a, o.b)
    <3>1. insts' = SetLive(insts, o.a, o.b)
      BY <1>3 DEF SetScalar
    <3>2. /\ o.a \in Id /\ o.b \in Num \cup Text /\ o.b \in Values(o.a)
          /\ doc' = [nodes |-> doc.nodes, edges |-> doc.edges,
                     defaults |-> With(doc.defaults, o.a, o.b)]
          /\ journal' = With(journal, o.a, o.b)
      BY <1>1, <1>3, ScalarFacts
    <3>3. doc'.defaults = With(doc.defaults, o.a, o.b)
      BY <3>2
    <3>4. o.b \in Num \cup Text \cup Arr
      BY <3>2
    <3> QED  BY <3>1, <3>2, <3>3, <3>4
  <2>2. Shows(insts', doc'.defaults)
    BY <1>1, <1>2, <2>1, SetLiveShows DEF LiveInv
  <2>3. SamePlan(insts, insts')
    BY <1>1, <2>1, SetLiveKeepsPlan
  <2>4. Sized(insts') /\ OneRegion(insts')
    BY <2>3 DEF SamePlan, LiveInv, Sized, OneRegion
  <2>5. Journalled(journal', doc'.defaults)
    <3> DEFINE j == With(journal, o.a, o.b)
               ds == With(doc.defaults, o.a, o.b)
    <3>1. /\ DOMAIN j = DOMAIN journal \cup {o.a}
          /\ \A x \in DOMAIN journal \cup {o.a} : j[x] = IF x = o.a THEN o.b ELSE journal[x]
      BY <1>2, <2>1, WithType
    <3>2. /\ DOMAIN ds = DOMAIN doc.defaults \cup {o.a}
          /\ \A x \in DOMAIN doc.defaults \cup {o.a} :
               ds[x] = IF x = o.a THEN o.b ELSE doc.defaults[x]
      BY <1>2, <2>1, WithType
    <3>3. journal' = j /\ doc'.defaults = ds
      BY <2>1
    <3> HIDE DEF j, ds
    <3>4. Journalled(j, ds)
      BY <3>1, <3>2 DEF LiveInv, Journalled
    <3> QED  BY <3>3, <3>4
  <2> QED  BY <2>2, <2>4, <2>5
<1>4. CASE SetArray(o)
  <2>1. /\ o.a \in Id /\ o.b \in Num \cup Text \cup Arr /\ o.b \in Values(o.a)
        /\ KindOf[o.a] = "array"
        /\ doc'.defaults = With(doc.defaults, o.a, o.b)
        /\ UNCHANGED <<journal, insts>>
    <3>1. /\ o.a \in Id /\ o.b \in Arr /\ KindOf[o.a] = "array" /\ o.b \in Values(o.a)
          /\ doc' = [nodes |-> doc.nodes, edges |-> doc.edges,
                     defaults |-> With(doc.defaults, o.a, o.b)]
          /\ UNCHANGED <<journal, insts, rejected>>
      BY <1>1, <1>4, ArrayFacts
    <3>2. doc'.defaults = With(doc.defaults, o.a, o.b)
      BY <3>1
    <3>3. o.b \in Num \cup Text \cup Arr
      BY <3>1
    <3> QED  BY <3>1, <3>2, <3>3
  <2>2. \A id \in DOMAIN doc'.defaults :
          KindOf[id] # "array" => id \in DOMAIN doc.defaults /\ doc'.defaults[id] = doc.defaults[id]
    <3> DEFINE ds == With(doc.defaults, o.a, o.b)
    <3>0. /\ doc.defaults \in ParamMap /\ o.a \in Id
          /\ o.b \in Num \cup Text \cup Arr /\ o.b \in Values(o.a)
      BY <1>2, <2>1
    <3>1. /\ DOMAIN ds = DOMAIN doc.defaults \cup {o.a}
          /\ \A x \in DOMAIN doc.defaults \cup {o.a} :
               ds[x] = IF x = o.a THEN o.b ELSE doc.defaults[x]
      BY <3>0, WithType
    <3>2. doc'.defaults = ds
      BY <2>1
    <3> HIDE DEF ds
    <3>3. \A id \in DOMAIN ds :
            KindOf[id] # "array" => id \in DOMAIN doc.defaults /\ ds[id] = doc.defaults[id]
      BY <2>1, <3>1
    <3> QED  BY <3>2, <3>3
  <2>3. Shows(insts', doc'.defaults)
    BY <2>1, <2>2, ShowsLess DEF LiveInv
  <2> QED  BY <2>1, <2>2, <2>3 DEF LiveInv, Journalled
<1>5. CASE AddNode(o) \/ RemoveNode(o) \/ AddEdge(o) \/ RemoveEdge(o)
  <2>1. /\ \A id \in DOMAIN doc'.defaults :
             id \in DOMAIN doc.defaults /\ doc'.defaults[id] = doc.defaults[id]
        /\ UNCHANGED <<journal, insts>>
    BY <1>1, <1>5, StructuralFacts
  <2>2. Shows(insts', doc'.defaults)
    BY <2>1, ShowsLess DEF LiveInv
  <2> QED  BY <2>1, <2>2 DEF LiveInv, Journalled
<1>6. CASE Reject(o)
  BY <1>6 DEF Reject, LiveInv
<1> QED  BY <1>3, <1>4, <1>5, <1>6 DEF ApplyOp

\* At first nothing is live that the document does not say.
LEMMA LiveInit == Init => LiveInv
<1> SUFFICES ASSUME Init PROVE LiveInv
  OBVIOUS
<1>1. Typed /\ PlanInv /\ doc \in Document
  BY TypedInit, PlanInvInit DEF Typed, TypeOK
<1>2. insts = Fresh(doc) /\ journal = << >>
  BY DEF Init
<1>3. Journalled(journal, doc.defaults)
  BY <1>2 DEF Journalled
<1> QED  BY <1>1, <1>2, <1>3, FreshFacts DEF LiveInv

\* No step makes a live param differ from the document.
LEMMA LiveNext ==
  ASSUME LiveInv, [Next]_vars
  PROVE  LiveInv'
<1>0. Typed' /\ PlanInv'
  BY TypedNext, PlanInvNext DEF LiveInv
<1>1. CASE UNCHANGED <<doc, journal, insts>>
  BY <1>0, <1>1 DEF LiveInv
<1>2. CASE Submit \/ UndoStep \/ Drain \/ RebuildThrows \/ UNCHANGED vars
  <2>1. UNCHANGED <<doc, journal, insts>>
    BY <1>2 DEF Submit, UndoStep, Undo, PushInverse, UndoMore, UndoReturns, Drain,
                RebuildThrows, vars, planvars, docvars
  <2> QED  BY <1>1, <2>1
<1>3. CASE Apply
  <2>1. CASE ParseThrows(Head(batch))
    BY <1>1, <2>1 DEF ParseThrows, docvars
  <2>2. CASE ApplyOp(Head(batch))
    BY <1>0, <2>2, LiveApplyOp DEF LiveInv
  <2> QED  BY <1>3, <2>1, <2>2 DEF Apply
<1>4. CASE Process
  <2>1. SamePlan(insts, insts') /\ UNCHANGED <<doc, journal>>
    BY <1>4, ProcessKeepsStates DEF Process, SameStates, LiveInv, PlanInv
  <2>2. \A i \in DOMAIN insts :
          insts'[i].alive = insts[i].alive /\ insts'[i].val = insts[i].val
    BY <1>4 DEF Process, LiveInv, PlanInv, Instances, Fields
  <2>3. Shows(insts', doc.defaults)
    BY <2>1, <2>2, ShowsSame DEF LiveInv
  <2>4. Sized(insts') /\ OneRegion(insts')
    BY <2>1 DEF SamePlan, LiveInv, Sized, OneRegion
  <2> QED  BY <1>0, <2>1, <2>3, <2>4 DEF LiveInv
<1>5. CASE Rebuild
  <2>1. UNCHANGED <<doc, journal>>
    BY <1>5 DEF Rebuild
  <2> QED  BY <1>0, <1>5, <2>1, LiveRebuild DEF LiveInv
<1> QED  BY <1>2, <1>3, <1>4, <1>5 DEF Next, PumpStep

\* Everything is typed, whatever is submitted, undone and rebuilt.
THEOREM PlanTypes == Spec => []TypeOK
<1>1. Typed => TypeOK
  BY DEF Typed
<1> QED  BY <1>1, TypedInit, TypedNext, PTL DEF Spec

\* Whatever edits, undos and rebuilds led here, a live scalar param shows
\* what the document says (pump_block's writes and rebuild's migration).
THEOREM LiveAlwaysFollowsDoc == Spec => []LiveFollowsDoc
<1>1. LiveInv => LiveFollowsDoc
  BY DEF LiveInv, Shows, LiveFollowsDoc
<1> QED  BY <1>1, LiveInit, LiveNext, PTL DEF Spec

-----------------------------------------------------------------------------
(* Arrival order is the order                                              *)

Submitted(s) == {i \in DOMAIN s : ~IsReplay(s[i])}
Tags(s) == {s[i].tag : i \in Submitted(s)}
InOrder(s) == \A i, j \in Submitted(s) : i < j => s[i].tag < s[j].tag

\* The ops submitted so far are those of s, in order, and the rejected.
Arrived(s, rej, n) ==
  /\ InOrder(s)
  /\ Tags(s) \cap rej = {}
  /\ Tags(s) \cup (rej \ {0}) = 1..n

Logged == [i \in DOMAIN log |-> log[i].op]
Places == Logged \o batch \o inlet

AllOps == Ops(0..MaxSubmits)

\* The places of a sequence of ops and their tags.
LEMMA TagType ==
  ASSUME NEW s \in Seq(AllOps)
  PROVE  /\ DOMAIN s = 1..Len(s) /\ Len(s) \in Nat
         /\ \A i \in 1..Len(s) : s[i].tag \in Nat
<1>1. DOMAIN s = 1..Len(s) /\ Len(s) \in Nat /\ \A i \in 1..Len(s) : s[i] \in AllOps
  OBVIOUS
<1>2. \A o \in AllOps : o.tag \in 0..MaxSubmits
  BY OpHas DEF AllOps
<1> QED  BY <1>1, <1>2, BoundAssumption

\* The next submission joins behind all others.
LEMMA ArriveNew ==
  ASSUME NEW s \in Seq(AllOps), NEW o \in AllOps, NEW rej, NEW n \in Nat,
         Arrived(s, rej, n), o.tag = n + 1
  PROVE  Arrived(Append(s, o), rej, n + 1)
<1> DEFINE t == Append(s, o)
           m == Len(s) + 1
<1>1. /\ DOMAIN s = 1..Len(s) /\ Len(s) \in Nat /\ DOMAIN t = 1..m
      /\ t[m] = o /\ \A i \in 1..Len(s) : t[i] = s[i]
  BY AppendProperties, LenProperties
<1>2. \A i \in 1..Len(s) : s[i].tag \in Nat
  BY TagType
<1> HIDE DEF t
<1>3. \A i \in Submitted(s) : s[i].tag \in 1..n
  BY DEF Arrived, Tags
<1>4. Submitted(t) = Submitted(s) \cup {m}
  <2>1. \A i \in 1..m : i = m \/ i \in 1..Len(s)
    BY <1>1
  <2>2. m \in 1..m /\ m \notin 1..Len(s) /\ \A i \in 1..Len(s) : i \in 1..m
    BY <1>1
  <2>3. ~IsReplay(o)
    BY DEF IsReplay
  <2> QED  BY <1>1, <2>1, <2>2, <2>3 DEF Submitted
<1>5. \A i \in Submitted(s) : t[i] = s[i] /\ i < m /\ i \in Nat
  BY <1>1 DEF Submitted
<1>6. Tags(t) = Tags(s) \cup {n + 1}
  <2>1. \A i \in Submitted(s) : t[i].tag = s[i].tag
    BY <1>5
  <2>2. t[m].tag = n + 1
    BY <1>1
  <2> QED  BY <1>4, <2>1, <2>2 DEF Tags
<1>7. InOrder(t)
  <2> SUFFICES ASSUME NEW i \in Submitted(t), NEW j \in Submitted(t), i < j
               PROVE  t[i].tag < t[j].tag
    BY DEF InOrder
  <2>1. i # m
    BY <1>1, <1>4, <1>5
  <2>2. CASE j = m
    <3>1. i \in Submitted(s) /\ t[i] = s[i]
      BY <1>4, <1>5, <2>1
    <3>2. s[i].tag \in 1..n /\ t[j].tag = n + 1
      BY <1>1, <1>3, <2>2, <3>1
    <3> QED  BY <3>1, <3>2
  <2>3. CASE j # m
    BY <1>4, <1>5, <2>1, <2>3 DEF Arrived, InOrder
  <2> QED  BY <2>2, <2>3
<1>8. Tags(t) \cap rej = {}
  <2>1. n + 1 \notin rej
    <3> SUFFICES ASSUME n + 1 \in rej PROVE FALSE
      OBVIOUS
    <3>1. n + 1 \in 1..n
      BY DEF Arrived
    <3> QED  BY <3>1
  <2> QED  BY <1>6, <2>1 DEF Arrived
<1>9. Tags(t) \cup (rej \ {0}) = 1..(n + 1)
  <2>1. 1..(n + 1) = 1..n \cup {n + 1}
    OBVIOUS
  <2> QED  BY <1>6, <2>1 DEF Arrived
<1> QED  BY <1>7, <1>8, <1>9 DEF Arrived, t

\* An inverse joins unseen.
LEMMA ArriveReplay ==
  ASSUME NEW s \in Seq(AllOps), NEW o \in AllOps, NEW rej, NEW n,
         Arrived(s, rej, n), IsReplay(o)
  PROVE  Arrived(Append(s, o), rej, n)
<1> DEFINE t == Append(s, o)
           m == Len(s) + 1
<1>1. /\ DOMAIN s = 1..Len(s) /\ Len(s) \in Nat /\ DOMAIN t = 1..m
      /\ t[m] = o /\ \A i \in 1..Len(s) : t[i] = s[i]
  BY AppendProperties, LenProperties
<1> HIDE DEF t
<1>2. Submitted(t) = Submitted(s)
  <2>1. \A i \in 1..m : i = m \/ i \in 1..Len(s)
    BY <1>1
  <2>2. m \notin 1..Len(s) /\ \A i \in 1..Len(s) : i \in 1..m
    BY <1>1
  <2> QED  BY <1>1, <2>1, <2>2 DEF Submitted
<1>3. \A i \in Submitted(s) : t[i] = s[i]
  BY <1>1 DEF Submitted
<1>4. Tags(t) = Tags(s)
  BY <1>2, <1>3 DEF Tags
<1>5. InOrder(t)
  BY <1>2, <1>3 DEF Arrived, InOrder
<1> QED  BY <1>4, <1>5 DEF Arrived, t

\* t is s without its k-th op.
CutAt(s, t, k) ==
  /\ k \in 1..Len(s) /\ Len(t) = Len(s) - 1
  /\ \A i \in 1..Len(t) : t[i] = IF i < k THEN s[i] ELSE s[i + 1]

\* Its place in s.
Back(i, k) == IF i < k THEN i ELSE i + 1

\* Where each place of a cut sequence was before.
LEMMA CutFacts ==
  ASSUME NEW s \in Seq(AllOps), NEW t \in Seq(AllOps), NEW k, CutAt(s, t, k)
  PROVE  /\ k \in DOMAIN s
         /\ \A i \in DOMAIN t : Back(i, k) \in DOMAIN s \ {k} /\ t[i] = s[Back(i, k)]
         /\ \A j \in DOMAIN s \ {k} : \E i \in DOMAIN t : j = Back(i, k)
         /\ \A i, j \in DOMAIN t : i < j => Back(i, k) < Back(j, k)
<1>1. /\ DOMAIN s = 1..Len(s) /\ Len(s) \in Nat /\ DOMAIN t = 1..(Len(s) - 1)
      /\ k \in 1..Len(s)
  BY DEF CutAt
<1>2. \A i \in DOMAIN t : Back(i, k) \in DOMAIN s \ {k} /\ t[i] = s[Back(i, k)]
  BY <1>1 DEF Back, CutAt
<1>3. \A j \in DOMAIN s \ {k} : \E i \in DOMAIN t : j = Back(i, k)
  <2> TAKE j \in DOMAIN s \ {k}
  <2>1. CASE j < k
    <3>1. j \in DOMAIN t /\ j = Back(j, k)
      BY <1>1, <2>1 DEF Back
    <3> QED  BY <3>1
  <2>2. CASE ~(j < k)
    <3>1. j - 1 \in DOMAIN t /\ j = Back(j - 1, k)
      BY <1>1, <2>2 DEF Back
    <3> QED  BY <3>1
  <2> QED  BY <2>1, <2>2
<1>4. \A i, j \in DOMAIN t : i < j => Back(i, k) < Back(j, k)
  BY <1>1 DEF Back
<1> QED  BY <1>1, <1>2, <1>3, <1>4

\* An op that leaves without a trace was an inverse; a submission that
\* leaves is counted as rejected.
LEMMA ArriveCut ==
  ASSUME NEW s \in Seq(AllOps), NEW t \in Seq(AllOps), NEW k, CutAt(s, t, k),
         NEW rej, NEW n, Arrived(s, rej, n)
  PROVE  /\ IsReplay(s[k]) => Arrived(t, rej, n)
         /\ Arrived(t, rej \cup {s[k].tag}, n)
<1>1. /\ k \in DOMAIN s
      /\ \A i \in DOMAIN t : Back(i, k) \in DOMAIN s \ {k} /\ t[i] = s[Back(i, k)]
      /\ \A j \in DOMAIN s \ {k} : \E i \in DOMAIN t : j = Back(i, k)
      /\ \A i, j \in DOMAIN t : i < j => Back(i, k) < Back(j, k)
  BY CutFacts
<1>0. /\ DOMAIN s = 1..Len(s) /\ Len(s) \in Nat
      /\ \A i \in DOMAIN s : s[i].tag \in Nat
  BY TagType
<1>2. InOrder(t)
  <2> SUFFICES ASSUME NEW i \in Submitted(t), NEW j \in Submitted(t), i < j
               PROVE  t[i].tag < t[j].tag
    BY DEF InOrder
  <2>1. /\ Back(i, k) \in Submitted(s) /\ Back(j, k) \in Submitted(s)
        /\ t[i] = s[Back(i, k)] /\ t[j] = s[Back(j, k)] /\ Back(i, k) < Back(j, k)
    BY <1>1 DEF Submitted
  <2> QED  BY <2>1 DEF Arrived, InOrder
<1>3. Tags(t) = {s[j].tag : j \in Submitted(s) \ {k}}
  <2>1. \A i \in Submitted(t) : Back(i, k) \in Submitted(s) \ {k} /\ t[i].tag = s[Back(i, k)].tag
    BY <1>1 DEF Submitted
  <2>2. \A j \in Submitted(s) \ {k} : \E i \in Submitted(t) : t[i].tag = s[j].tag
    BY <1>1 DEF Submitted
  <2> QED  BY <2>1, <2>2 DEF Tags
<1>4. ASSUME IsReplay(s[k]) PROVE Arrived(t, rej, n)
  <2>1. k \notin Submitted(s)
    BY <1>4 DEF Submitted
  <2>2. Tags(t) = Tags(s)
    BY <1>3, <2>1 DEF Tags
  <2> QED  BY <1>2, <2>2 DEF Arrived
<1>5. Arrived(t, rej \cup {s[k].tag}, n)
  <2>1. CASE IsReplay(s[k])
    <3>1. s[k].tag = 0
      BY <2>1 DEF IsReplay
    <3>2. Arrived(t, rej, n)
      BY <1>4, <2>1
    <3>3. 0 \notin Tags(t)
      BY DEF Tags, Submitted, IsReplay
    <3>4. (rej \cup {0}) \ {0} = rej \ {0}
      OBVIOUS
    <3> QED  BY <3>1, <3>2, <3>3, <3>4 DEF Arrived
  <2>2. CASE ~IsReplay(s[k])
    <3>1. k \in Submitted(s) /\ s[k].tag # 0 /\ s[k].tag \in Tags(s)
      BY <1>1, <2>2 DEF Submitted, IsReplay, Tags
    <3>2. \A j \in Submitted(s) \ {k} : s[j].tag # s[k].tag
      <4> TAKE j \in Submitted(s) \ {k}
      <4>1. j \in DOMAIN s /\ j \in Nat /\ k \in Nat /\ s[j].tag \in Nat /\ s[k].tag \in Nat
        BY <1>0, <1>1 DEF Submitted
      <4>2. j < k \/ k < j
        BY <4>1
      <4>3. s[j].tag < s[k].tag \/ s[k].tag < s[j].tag
        BY <3>1, <4>2 DEF Arrived, InOrder
      <4> QED  BY <4>1, <4>3
    <3>3. Tags(t) = Tags(s) \ {s[k].tag}
      BY <1>3, <3>1, <3>2 DEF Tags
    <3>4. Tags(t) \cap (rej \cup {s[k].tag}) = {}
      BY <3>3 DEF Arrived
    <3>5. Tags(t) \cup ((rej \cup {s[k].tag}) \ {0}) = 1..n
      BY <3>1, <3>3 DEF Arrived
    <3> QED  BY <1>2, <3>4, <3>5 DEF Arrived
  <2> QED  BY <2>1, <2>2
<1> QED  BY <1>4, <1>5

\* Every op that was drained, and is not logged, is in the batch, and what
\* is logged, drained or waiting is what arrived.
ArrivalInv == Typed /\ (pc # "thrown" => Arrived(Places, rejected, submits))

\* The log, the batch and the inlet, one after the other, are ops.
LEMMA PlacesType ==
  ASSUME TypeOK
  PROVE  /\ Logged \in Seq(AllOps) /\ Len(Logged) = Len(log)
         /\ batch \in Seq(AllOps) /\ inlet \in Seq(AllOps)
         /\ Logged \o batch \in Seq(AllOps) /\ Places \in Seq(AllOps)
<1>1. log \in Seq(LogEntry) /\ batch \in Seq(AllOps) /\ inlet \in Seq(AllOps)
  BY DEF TypeOK, AllOps
<1>2. Ops(1..MaxSubmits) \subseteq AllOps
  <2>1. 1..MaxSubmits \subseteq 0..MaxSubmits
    BY BoundAssumption
  <2> QED  BY <2>1, OpsWiden DEF AllOps
<1>3. Logged \in Seq(AllOps) /\ Len(Logged) = Len(log)
  <2>1. \A e \in LogEntry : e.op \in AllOps
    BY <1>2 DEF LogEntry
  <2>2. DOMAIN log = 1..Len(log) /\ Len(log) \in Nat /\ \A i \in 1..Len(log) : log[i] \in LogEntry
    BY <1>1, LenProperties
  <2>3. Logged \in [1..Len(log) -> AllOps]
    BY <2>1, <2>2 DEF Logged
  <2> QED  BY <2>2, <2>3
<1>4. Logged \o batch \in Seq(AllOps)
  BY <1>1, <1>3, ConcatProperties
<1>5. Places \in Seq(AllOps)
  BY <1>1, <1>4, ConcatProperties DEF Places
<1> QED  BY <1>1, <1>3, <1>4, <1>5

\* An op appended to the last part is appended to the whole.
LEMMA AppendLast ==
  ASSUME NEW S, NEW l \in Seq(S), NEW r \in Seq(S), NEW x \in S
  PROVE  l \o Append(r, x) = Append(l \o r, x)
<1>1. Append(r, x) = r \o <<x>> /\ Append(l \o r, x) = (l \o r) \o <<x>>
  BY AppendIsConcat, ConcatProperties
<1>2. <<x>> \in Seq(S)
  BY OneOp
<1> QED  BY <1>1, <1>2, ConcatAssociative

\* The head of the middle part moves to the end of the first.
LEMMA MoveHead ==
  ASSUME NEW S, NEW l \in Seq(S), NEW b \in Seq(S), NEW r \in Seq(S), b # << >>
  PROVE  Append(l, Head(b)) \o Tail(b) \o r = l \o b \o r
<1>1. Head(b) \in S /\ Tail(b) \in Seq(S) /\ <<Head(b)>> \in Seq(S)
  BY HeadTailProperties, OneOp
<1>2. b = <<Head(b)>> \o Tail(b)
  <2> DEFINE t == <<Head(b)>> \o Tail(b)
  <2>1. /\ t \in Seq(S) /\ Len(t) = 1 + Len(Tail(b))
        /\ \A i \in 1..(1 + Len(Tail(b))) : t[i] = IF i <= 1 THEN <<Head(b)>>[i] ELSE Tail(b)[i - 1]
    BY <1>1, ConcatProperties
  <2>2. /\ Len(Tail(b)) = Len(b) - 1 /\ Len(b) \in Nat /\ Head(b) = b[1]
        /\ \A i \in 1..(Len(b) - 1) : Tail(b)[i] = b[i + 1]
    BY HeadTailProperties
  <2> HIDE DEF t
  <2>3. \A i \in 1..Len(b) : t[i] = b[i]
    <3> TAKE i \in 1..Len(b)
    <3>1. CASE i = 1
      BY <2>1, <2>2, <3>1
    <3>2. CASE i # 1
      <4>1. i \in 1..(1 + Len(Tail(b))) /\ ~(i <= 1) /\ i - 1 \in 1..(Len(b) - 1)
        BY <2>2, <3>2
      <4> QED  BY <2>1, <2>2, <4>1
    <3> QED  BY <3>1, <3>2
  <2>4. Len(t) = Len(b)
    BY <2>1, <2>2
  <2> QED  BY <2>1, <2>3, <2>4, SeqEqual DEF t
<1>3. Append(l, Head(b)) = l \o <<Head(b)>>
  BY <1>1, AppendIsConcat
<1>4. (l \o <<Head(b)>>) \o Tail(b) = l \o b
  BY <1>1, <1>2, ConcatAssociative
<1> QED  BY <1>3, <1>4

\* The head of the middle part goes.
LEMMA DropHead ==
  ASSUME NEW l \in Seq(AllOps), NEW b \in Seq(AllOps), NEW r \in Seq(AllOps), b # << >>
  PROVE  /\ CutAt(l \o b \o r, l \o Tail(b) \o r, Len(l) + 1)
         /\ (l \o b \o r)[Len(l) + 1] = Head(b)
<1> DEFINE s == (l \o b) \o r
           t == (l \o Tail(b)) \o r
<1>1. /\ Tail(b) \in Seq(AllOps) /\ Len(Tail(b)) = Len(b) - 1 /\ Head(b) = b[1]
      /\ \A i \in 1..(Len(b) - 1) : Tail(b)[i] = b[i + 1]
      /\ Len(b) \in Nat \ {0} /\ Len(l) \in Nat /\ Len(r) \in Nat
  BY HeadTailProperties, EmptySeq, LenProperties
<1>2. /\ l \o b \in Seq(AllOps) /\ Len(l \o b) = Len(l) + Len(b)
      /\ \A i \in 1..(Len(l) + Len(b)) : (l \o b)[i] = IF i <= Len(l) THEN l[i] ELSE b[i - Len(l)]
  BY ConcatProperties
<1>3. /\ l \o Tail(b) \in Seq(AllOps) /\ Len(l \o Tail(b)) = Len(l) + Len(b) - 1
      /\ \A i \in 1..(Len(l) + Len(b) - 1) :
           (l \o Tail(b))[i] = IF i <= Len(l) THEN l[i] ELSE b[i - Len(l) + 1]
  <2> DEFINE c == Tail(b)
  <2>1. /\ l \o c \in Seq(AllOps) /\ Len(l \o c) = Len(l) + Len(c)
        /\ \A i \in 1..(Len(l) + Len(c)) : (l \o c)[i] = IF i <= Len(l) THEN l[i] ELSE c[i - Len(l)]
    BY <1>1, ConcatProperties
  <2>2. Len(c) = Len(b) - 1 /\ \A i \in 1..(Len(b) - 1) : c[i] = b[i + 1]
    BY <1>1
  <2> HIDE DEF c
  <2>3. Len(l \o c) = Len(l) + Len(b) - 1 /\ Len(l) + Len(c) = Len(l) + Len(b) - 1
    BY <1>1, <2>1, <2>2
  <2>4. \A i \in 1..(Len(l) + Len(b) - 1) :
          (l \o c)[i] = IF i <= Len(l) THEN l[i] ELSE b[i - Len(l) + 1]
    <3> TAKE i \in 1..(Len(l) + Len(b) - 1)
    <3>1. CASE i <= Len(l)
      BY <2>1, <2>3, <3>1
    <3>2. CASE ~(i <= Len(l))
      <4>1. i - Len(l) \in 1..(Len(b) - 1)
        BY <1>1, <3>2
      <4> QED  BY <2>1, <2>2, <2>3, <3>2, <4>1
    <3> QED  BY <3>1, <3>2
  <2> QED  BY <2>1, <2>3, <2>4 DEF c
<1>4. /\ Len(s) = Len(l) + Len(b) + Len(r)
      /\ \A i \in 1..(Len(l) + Len(b) + Len(r)) :
           s[i] = IF i <= Len(l) + Len(b) THEN (l \o b)[i] ELSE r[i - (Len(l) + Len(b))]
  <2> DEFINE p == l \o b
  <2> HIDE DEF p
  <2>1. p \in Seq(AllOps) /\ Len(p) = Len(l) + Len(b)
    BY <1>2 DEF p
  <2>2. Len(p \o r) = Len(p) + Len(r) /\ \A i \in 1..(Len(p) + Len(r)) :
          (p \o r)[i] = IF i <= Len(p) THEN p[i] ELSE r[i - Len(p)]
    <3>1. p \in Seq(AllOps) /\ r \in Seq(AllOps)
      BY <2>1
    <3> QED  BY <3>1, ConcatProperties
  <2> QED  BY <2>1, <2>2 DEF p
<1>5. /\ Len(t) = Len(l) + Len(b) - 1 + Len(r)
      /\ \A i \in 1..(Len(l) + Len(b) - 1 + Len(r)) :
           t[i] = IF i <= Len(l) + Len(b) - 1 THEN (l \o Tail(b))[i]
                  ELSE r[i - (Len(l) + Len(b) - 1)]
  <2> DEFINE p == l \o Tail(b)
  <2> HIDE DEF p
  <2>1. p \in Seq(AllOps) /\ Len(p) = Len(l) + Len(b) - 1
    BY <1>3 DEF p
  <2>2. Len(p \o r) = Len(p) + Len(r) /\ \A i \in 1..(Len(p) + Len(r)) :
          (p \o r)[i] = IF i <= Len(p) THEN p[i] ELSE r[i - Len(p)]
    <3>1. p \in Seq(AllOps) /\ r \in Seq(AllOps)
      BY <2>1
    <3> QED  BY <3>1, ConcatProperties
  <2> QED  BY <2>1, <2>2 DEF p
<1> HIDE DEF s, t
<1>6. Len(l) + 1 \in 1..Len(s) /\ Len(t) = Len(s) - 1
  BY <1>1, <1>4, <1>5
<1>7. \A i \in 1..Len(t) : t[i] = IF i < Len(l) + 1 THEN s[i] ELSE s[i + 1]
  <2> TAKE i \in 1..Len(t)
  <2>1. CASE i <= Len(l)
    <3>1. i \in 1..(Len(l) + Len(b) - 1) /\ i \in 1..(Len(l) + Len(b))
          /\ i < Len(l) + 1
      BY <1>1, <1>5, <2>1
    <3>2. t[i] = l[i]
      BY <1>1, <1>3, <1>5, <2>1, <3>1
    <3>3. s[i] = l[i]
      BY <1>1, <1>2, <1>4, <2>1, <3>1
    <3> QED  BY <3>1, <3>2, <3>3
  <2>2. CASE ~(i <= Len(l)) /\ i <= Len(l) + Len(b) - 1
    <3>1. i \in 1..(Len(l) + Len(b) - 1) /\ i + 1 \in 1..(Len(l) + Len(b))
          /\ ~(i < Len(l) + 1) /\ ~(i + 1 <= Len(l))
      BY <1>1, <1>5, <2>2
    <3>2. t[i] = b[i - Len(l) + 1]
      BY <1>1, <1>3, <1>5, <2>2, <3>1
    <3>3. s[i + 1] = b[i + 1 - Len(l)]
      BY <1>1, <1>2, <1>4, <2>2, <3>1
    <3>4. i + 1 - Len(l) = i - Len(l) + 1
      BY <1>1
    <3> QED  BY <3>1, <3>2, <3>3, <3>4
  <2>3. CASE ~(i <= Len(l) + Len(b) - 1)
    <3>1. /\ i + 1 \in 1..(Len(l) + Len(b) + Len(r)) /\ ~(i + 1 <= Len(l) + Len(b))
          /\ ~(i < Len(l) + 1)
          /\ i + 1 - (Len(l) + Len(b)) = i - (Len(l) + Len(b) - 1)
      BY <1>1, <1>5, <2>3
    <3>2. t[i] = r[i - (Len(l) + Len(b) - 1)]
      BY <1>5, <2>3
    <3>3. s[i + 1] = r[i + 1 - (Len(l) + Len(b))]
      BY <1>4, <3>1
    <3> QED  BY <3>1, <3>2, <3>3
  <2> QED  BY <2>1, <2>2, <2>3
<1>8. s[Len(l) + 1] = Head(b)
  <2>1. /\ Len(l) + 1 \in 1..(Len(l) + Len(b)) /\ Len(l) + 1 <= Len(l) + Len(b)
        /\ Len(l) + 1 \in 1..(Len(l) + Len(b) + Len(r)) /\ ~(Len(l) + 1 <= Len(l))
        /\ Len(l) + 1 - Len(l) = 1
    BY <1>1
  <2> QED  BY <1>1, <1>2, <1>4, <2>1
<1> QED  BY <1>6, <1>7, <1>8 DEF CutAt, s, t

\* An applied op moves from the batch to the log, unless it is an inverse,
\* which goes; a rejected op is counted.
LEMMA ArrivalApplyOp ==
  ASSUME ArrivalInv, NEW o, ApplyOp(o)
  PROVE  Arrived(Places', rejected', submits')
<1>1. /\ pc = "apply" /\ batch # << >> /\ o = Head(batch) /\ batch' = Tail(batch)
      /\ inlet' = inlet /\ submits' = submits
  BY DEF ApplyOp, Takes, applyrest
<1>2. TypeOK /\ Arrived(Places, rejected, submits)
  BY <1>1 DEF ArrivalInv, Typed
<1>3. /\ Logged \in Seq(AllOps) /\ Len(Logged) = Len(log)
      /\ batch \in Seq(AllOps) /\ inlet \in Seq(AllOps) /\ Places \in Seq(AllOps)
  BY <1>2, PlacesType
<1>4. o \in AllOps /\ Tail(batch) \in Seq(AllOps)
  BY <1>1, <1>3, HeadTailProperties
<1>5. ASSUME Logged' = Logged
      PROVE  /\ IsReplay(o) => Arrived(Places', rejected, submits)
             /\ Arrived(Places', rejected \cup {o.tag}, submits)
  <2>1. Places' = Logged \o Tail(batch) \o inlet
    BY <1>1, <1>5 DEF Places
  <2>2. CutAt(Places, Places', Len(Logged) + 1) /\ Places[Len(Logged) + 1] = o
    BY <1>1, <1>3, <2>1, DropHead DEF Places
  <2>3. Places' \in Seq(AllOps)
    BY <1>3, <1>4, <2>1, ConcatProperties
  <2> QED  BY <1>2, <1>3, <2>2, <2>3, ArriveCut
<1>6. ASSUME NEW inverse, Logs(o, inverse), rejected' = rejected
      PROVE  Arrived(Places', rejected', submits')
  <2>1. CASE IsReplay(o)
    <3>1. Logged' = Logged
      BY <1>6, <2>1 DEF Logs, Logged
    <3> QED  BY <1>1, <1>5, <1>6, <2>1, <3>1
  <2>2. CASE ~IsReplay(o)
    <3> DEFINE e == [op |-> o, inverse |-> inverse]
    <3>1. log' = Append(log, e) /\ e.op = o
      BY <1>6, <2>2 DEF Logs
    <3> HIDE DEF e
    <3>2. log \in Seq(LogEntry)
      BY <1>2 DEF TypeOK
    <3>3. Logged' = Append(Logged, o)
      <4>1. /\ Len(log) \in Nat /\ DOMAIN log = 1..Len(log) /\ DOMAIN log' = 1..(Len(log) + 1)
            /\ log'[Len(log) + 1] = e /\ \A i \in 1..Len(log) : log'[i] = log[i]
        BY <3>1, <3>2
      <4>2. Logged' = [i \in 1..(Len(log) + 1) |-> log'[i].op]
        BY <4>1 DEF Logged
      <4>3. Logged = [i \in 1..Len(log) |-> log[i].op]
        BY <4>1 DEF Logged
      <4> DEFINE l == Append(Logged, o)
      <4>4. /\ l = [i \in 1..(Len(log) + 1) |-> l[i]]
            /\ l[Len(log) + 1] = o /\ \A i \in 1..Len(log) : l[i] = Logged[i]
        <5>1. /\ l \in Seq(AllOps) /\ Len(l) = Len(Logged) + 1 /\ l[Len(Logged) + 1] = o
              /\ \A i \in 1..Len(Logged) : l[i] = Logged[i]
          BY <1>3, <1>4, AppendProperties
        <5> HIDE DEF l
        <5>2. l = [i \in 1..Len(l) |-> l[i]]
          BY <5>1
        <5> QED  BY <1>3, <5>1, <5>2
      <4>5. \A i \in 1..(Len(log) + 1) : l[i] = log'[i].op
        <5> HIDE DEF l
        <5> TAKE i \in 1..(Len(log) + 1)
        <5>1. CASE i = Len(log) + 1
          BY <3>1, <4>1, <4>4, <5>1
        <5>2. CASE i # Len(log) + 1
          <6>1. i \in 1..Len(log)
            BY <4>1, <5>2
          <6> QED  BY <4>1, <4>3, <4>4, <6>1
        <5> QED  BY <5>1, <5>2
      <4> HIDE DEF l
      <4>6. l = [i \in 1..(Len(log) + 1) |-> log'[i].op]
        BY <4>4, <4>5
      <4> QED  BY <4>2, <4>6 DEF l
    <3>4. Places' = Places
      <4>1. Places' = Append(Logged, o) \o Tail(batch) \o inlet
        BY <1>1, <3>3 DEF Places
      <4>2. Append(Logged, Head(batch)) \o Tail(batch) \o inlet = Logged \o batch \o inlet
        BY <1>1, <1>3, MoveHead
      <4> QED  BY <1>1, <4>1, <4>2 DEF Places
    <3> QED  BY <1>1, <1>2, <1>6, <3>4
  <2> QED  BY <2>1, <2>2
<1>7. CASE SetScalar(o) \/ SetArray(o) \/ AddNode(o) \/ RemoveNode(o) \/ AddEdge(o) \/ RemoveEdge(o)
  <2>1. \E inverse : Logs(o, inverse)
    BY <1>7 DEF SetScalar, SetArray, AddNode, RemoveNode, AddEdge, RemoveEdge, Record, Logs, auxvars
  <2>2. rejected' = rejected
    BY <1>7 DEF SetScalar, SetArray, AddNode, RemoveNode, AddEdge, RemoveEdge, Restructure
  <2> QED  BY <1>6, <2>1, <2>2
<1>8. CASE Reject(o)
  <2>1. rejected' = rejected \cup {o.tag} /\ log' = log
    BY <1>8 DEF Reject
  <2>2. Logged' = Logged
    BY <2>1 DEF Logged
  <2> QED  BY <1>1, <1>5, <2>1, <2>2
<1> QED  BY <1>7, <1>8 DEF ApplyOp

\* At first no op has arrived.
LEMMA ArrivalInit == Init => ArrivalInv
<1> SUFFICES ASSUME Init PROVE ArrivalInv
  OBVIOUS
<1>1. Typed
  BY TypedInit
<1>2. log = << >> /\ batch = << >> /\ inlet = << >> /\ rejected = {} /\ submits = 0
  BY DEF Init
<1>3. DOMAIN Places = {}
  <2>1. Logged \in Seq(AllOps) /\ Len(Logged) = 0
    BY <1>1, <1>2, PlacesType DEF Typed
  <2>2. Places \in Seq(AllOps) /\ Len(Places) = 0
    BY <1>2, <2>1 DEF Places
  <2> QED  BY <2>2
<1>4. Submitted(Places) = {}
  BY <1>3 DEF Submitted
<1>5. Tags(Places) = {} /\ InOrder(Places)
  BY <1>4 DEF Tags, InOrder
<1>6. Arrived(Places, rejected, submits)
  BY <1>2, <1>5 DEF Arrived
<1> QED  BY <1>1, <1>6 DEF ArrivalInv

\* No step loses, doubles or reorders an op that arrived.
LEMMA ArrivalNext ==
  ASSUME ArrivalInv, [Next]_vars
  PROVE  ArrivalInv'
<1>0. Typed /\ Typed' /\ TypeOK
  BY TypedNext DEF ArrivalInv, Typed
<1> SUFFICES ASSUME pc' # "thrown" PROVE Arrived(Places', rejected', submits')
  BY <1>0 DEF ArrivalInv
<1>1. /\ Logged \in Seq(AllOps) /\ batch \in Seq(AllOps) /\ inlet \in Seq(AllOps)
      /\ Logged \o batch \in Seq(AllOps) /\ Places \in Seq(AllOps)
  BY <1>0, PlacesType
<1>2. ASSUME pc # "thrown", UNCHANGED <<log, batch, inlet, rejected, submits>>
      PROVE  Arrived(Places', rejected', submits')
  <2>1. Places' = Places
    BY <1>2 DEF Places, Logged
  <2> QED  BY <1>2, <2>1 DEF ArrivalInv
<1>3. CASE Submit
  <2>1. PICK o \in EditOps(submits + 1) : inlet' = Append(inlet, o)
    BY <1>3 DEF Submit
  <2>2. /\ submits' = submits + 1 /\ submits + 1 \in 0..MaxSubmits /\ pc # "thrown"
        /\ UNCHANGED <<log, batch, rejected>>
    BY <1>0, <1>3, BoundAssumption DEF Submit, planvars, docvars, TypeOK
  <2>3. o \in AllOps /\ o.tag = submits + 1
    <3>1. {submits + 1} \subseteq 0..MaxSubmits
      BY <2>2
    <3> QED  BY <3>1, SubmittedType, OpsWiden DEF AllOps
  <2>4. Places' = Append(Places, o)
    <3>1. Places' = (Logged \o batch) \o Append(inlet, o)
      BY <2>1, <2>2 DEF Places, Logged
    <3> QED  BY <1>1, <2>3, <3>1, AppendLast DEF Places
  <2>5. submits \in Nat
    BY <1>0 DEF TypeOK
  <2> QED  BY <1>1, <2>2, <2>3, <2>4, <2>5, ArriveNew DEF ArrivalInv
<1>4. CASE PushInverse
  <2>1. /\ pc = "undo" /\ queueing # << >> /\ inlet' = Append(inlet, Head(queueing))
        /\ UNCHANGED <<log, batch, rejected, submits>>
    BY <1>4 DEF PushInverse, docvars
  <2> DEFINE o == Head(queueing)
  <2>2. o \in AllOps /\ IsReplay(o)
    <3>1. o \in Ops({0})
      BY <1>0, <2>1, HeadTailProperties DEF TypeOK
    <3>2. o.tag = 0
      BY <3>1, OpHas
    <3>3. {0} \subseteq 0..MaxSubmits
      BY BoundAssumption
    <3> HIDE DEF o
    <3> QED  BY <3>1, <3>2, <3>3, OpsWiden DEF AllOps, IsReplay
  <2> HIDE DEF o
  <2>3. Places' = Append(Places, o)
    <3>1. Places' = (Logged \o batch) \o Append(inlet, o)
      BY <2>1 DEF Places, Logged, o
    <3> QED  BY <1>1, <2>2, <3>1, AppendLast DEF Places
  <2> QED  BY <1>1, <2>1, <2>2, <2>3, ArriveReplay DEF ArrivalInv
<1>5. CASE Drain
  <2>1. /\ pc = "idle" /\ batch = << >> /\ batch' = inlet /\ inlet' = << >>
        /\ UNCHANGED <<log, rejected, submits>>
    BY <1>0, <1>5 DEF Drain, docvars, Typed
  <2>2. Logged' = Logged
    BY <2>1 DEF Logged
  <2>3. Places' = (Logged \o inlet) \o << >>
    BY <2>1, <2>2 DEF Places
  <2>4. Places = (Logged \o << >>) \o inlet
    BY <2>1 DEF Places
  <2>5. Places' = Places
    <3>1. Logged \o inlet \in Seq(AllOps)
      BY <1>1, ConcatProperties
    <3>2. (Logged \o inlet) \o << >> = Logged \o inlet
      BY <3>1, ConcatEmptySeq
    <3>3. Logged \o << >> = Logged
      BY <1>1, ConcatEmptySeq
    <3> QED  BY <2>3, <2>4, <3>2, <3>3
  <2> QED  BY <2>1, <2>5 DEF ArrivalInv
<1>6. CASE Apply
  <2>1. CASE ApplyOp(Head(batch))
    BY <2>1, ArrivalApplyOp
  <2>2. CASE ParseThrows(Head(batch))
    BY <2>2 DEF ParseThrows
  <2> QED  BY <1>6, <2>1, <2>2 DEF Apply
<1>7. CASE (\E g \in BOOLEAN : Undo(g)) \/ UndoMore \/ UndoReturns \/ Process \/ Rebuild
             \/ RebuildThrows \/ UNCHANGED vars
  <2>1. pc # "thrown"
    BY <1>7 DEF Undo, UndoMore, UndoReturns, Process, Rebuild, RebuildThrows, vars, planvars
  <2>2. UNCHANGED <<log, batch, inlet, rejected, submits>>
    BY <1>7 DEF Undo, UndoMore, UndoReturns, Process, Rebuild, RebuildThrows, vars, planvars, docvars
  <2> QED  BY <1>2, <2>1, <2>2
<1> QED  BY <1>3, <1>4, <1>5, <1>6, <1>7 DEF Next, UndoStep, PumpStep

\* Arrival order is the order (ADR-023): whatever is submitted, undone and
\* rejected, every op is logged, drained, waiting or rejected, exactly once,
\* and the log, the batch and the inlet hold them in the order of arrival.
THEOREM ArrivalsKeepOrder == Spec => []ArrivalOrder
<1>1. ArrivalInv => ArrivalOrder
  BY DEF ArrivalInv, Typed, ArrivalOrder, Arrived, InOrder, Tags, Submitted, Places, Logged
<1> QED  BY <1>1, ArrivalInit, ArrivalNext, PTL DEF Spec

-----------------------------------------------------------------------------
(* Undo restores the structure                                             *)

Nodes(x) == x[1]
Edges(x) == x[2]

\* What a replayed inverse makes of the structure x, when it does not lose.
Effect(o, x, y) ==
  \/ IsParam(o) /\ y = x
  \/ o.op = "add_node" /\ y = <<Nodes(x) \cup {<<o.a, o.b>>}, Edges(x)>>
  \/ /\ o.op = "remove_node" /\ \E n \in Nodes(x) : n[1] = o.a
     /\ y = <<{n \in Nodes(x) : n[1] # o.a}, {e \in Edges(x) : ~Touches(e, o.a)}>>
  \/ o.op = "add_edge" /\ y = <<Nodes(x), Edges(x) \cup {<<o.a, o.b>>}>>
  \/ /\ o.op = "remove_edge" /\ <<o.a, o.b>> \in Edges(x)
     /\ y = <<Nodes(x), Edges(x) \ {<<o.a, o.b>>}>>

\* In a clean history that undo has touched, only inverses have an effect.
Step(o, x, y) == IF IsReplay(o) THEN Effect(o, x, y) ELSE y = x

\* The ops of s lead from x to y and none of them loses.
Path(s, x, y) ==
  \E w : /\ w[1] = x /\ w[Len(s) + 1] = y
         /\ \A i \in 1..Len(s) : Step(s[i], w[i], w[i + 1])

\* The ops of s, from the last to the first, lead from x to y.
BackPath(s, x, y) ==
  \E w : /\ w[Len(s) + 1] = x /\ w[1] = y
         /\ \A i \in 1..Len(s) : Step(s[i], w[i + 1], w[i])

\* No op, no change.
LEMMA PathEmpty ==
  ASSUME NEW x, NEW y
  PROVE  Path(<< >>, x, y) <=> x = y
<1>1. ASSUME x = y PROVE Path(<< >>, x, y)
  <2> DEFINE w == [i \in {1} |-> x]
  <2>1. w[1] = x /\ w[Len(<< >>) + 1] = y
    BY <1>1
  <2>2. 1..Len(<< >>) = {}
    OBVIOUS
  <2> HIDE DEF w
  <2> QED  BY <2>1, <2>2 DEF Path
<1>2. ASSUME Path(<< >>, x, y) PROVE x = y
  BY <1>2 DEF Path
<1> QED  BY <1>1, <1>2

\* One more op at the end.
LEMMA PathAppend ==
  ASSUME NEW S, NEW s \in Seq(S), NEW o \in S, NEW x, NEW y, NEW z,
         Path(s, x, y), Step(o, y, z)
  PROVE  Path(Append(s, o), x, z)
<1> DEFINE t == Append(s, o)
           n == Len(s)
<1>1. /\ n \in Nat /\ Len(t) = n + 1 /\ t[n + 1] = o
      /\ \A i \in 1..n : t[i] = s[i]
  BY AppendProperties, LenProperties
<1>2. PICK w : /\ w[1] = x /\ w[n + 1] = y
               /\ \A i \in 1..n : Step(s[i], w[i], w[i + 1])
  BY DEF Path
<1> HIDE DEF t, n
<1> DEFINE v == [i \in 1..(n + 2) |-> IF i = n + 2 THEN z ELSE w[i]]
<1>3. /\ v[n + 2] = z /\ \A i \in 1..(n + 1) : v[i] = w[i]
  <2>1. n + 2 \in 1..(n + 2) /\ \A i \in 1..(n + 1) : i \in 1..(n + 2) /\ i # n + 2
    BY <1>1
  <2> QED  BY <2>1
<1> HIDE DEF v
<1>4. v[1] = x /\ v[Len(t) + 1] = z
  <2>1. 1 \in 1..(n + 1) /\ Len(t) + 1 = n + 2
    BY <1>1
  <2> QED  BY <1>2, <1>3, <2>1
<1>5. \A i \in 1..Len(t) : Step(t[i], v[i], v[i + 1])
  <2> TAKE i \in 1..Len(t)
  <2>1. CASE i = n + 1
    <3>1. v[i] = y /\ v[i + 1] = z /\ t[i] = o
      <4>1. n + 1 \in 1..(n + 1) /\ n + 1 + 1 = n + 2
        BY <1>1
      <4> QED  BY <1>1, <1>2, <1>3, <2>1, <4>1
    <3> QED  BY <3>1
  <2>2. CASE i # n + 1
    <3>1. i \in 1..n /\ i \in 1..(n + 1) /\ i + 1 \in 1..(n + 1)
      BY <1>1, <2>2
    <3>2. v[i] = w[i] /\ v[i + 1] = w[i + 1] /\ t[i] = s[i]
      BY <1>1, <1>3, <3>1
    <3> QED  BY <1>2, <3>1, <3>2
  <2> QED  BY <2>1, <2>2
<1>6. Path(t, x, z)
  BY <1>4, <1>5 DEF Path
<1> QED  BY <1>6 DEF t

\* One op less at the front.
LEMMA PathHead ==
  ASSUME NEW S, NEW s \in Seq(S), s # << >>, NEW x, NEW z, Path(s, x, z)
  PROVE  \E y : Step(Head(s), x, y) /\ Path(Tail(s), y, z)
<1> DEFINE t == Tail(s)
           n == Len(s)
<1>1. /\ n \in Nat \ {0} /\ Len(t) = n - 1 /\ Head(s) = s[1]
      /\ \A i \in 1..(n - 1) : t[i] = s[i + 1]
  BY HeadTailProperties, EmptySeq
<1>2. PICK w : /\ w[1] = x /\ w[n + 1] = z
               /\ \A i \in 1..n : Step(s[i], w[i], w[i + 1])
  BY DEF Path
<1> HIDE DEF t, n
<1> DEFINE v == [i \in 1..n |-> w[i + 1]]
<1>3. \A i \in 1..n : v[i] = w[i + 1]
  OBVIOUS
<1> HIDE DEF v
<1>4. v[1] = w[2] /\ v[Len(t) + 1] = z
  <2>1. 1 \in 1..n /\ n \in 1..n /\ Len(t) + 1 = n
    BY <1>1
  <2> QED  BY <1>2, <1>3, <2>1
<1>5. \A i \in 1..Len(t) : Step(t[i], v[i], v[i + 1])
  <2> TAKE i \in 1..Len(t)
  <2>1. i \in 1..n /\ i + 1 \in 1..n /\ i \in 1..(n - 1)
    BY <1>1
  <2>2. v[i] = w[i + 1] /\ v[i + 1] = w[i + 1 + 1] /\ t[i] = s[i + 1]
    BY <1>1, <1>3, <2>1
  <2> QED  BY <1>2, <2>1, <2>2
<1>6. Path(t, w[2], z)
  BY <1>4, <1>5 DEF Path
<1>7. Step(Head(s), x, w[2])
  <2>1. 1 \in 1..n
    BY <1>1
  <2>2. Step(s[1], w[1], w[1 + 1])
    BY <1>2, <2>1
  <2> QED  BY <1>1, <1>2, <2>2
<1> QED  BY <1>6, <1>7 DEF t

\* Ops without an effect lead nowhere.
LEMMA PathStays ==
  ASSUME NEW S, NEW s \in Seq(S), \A i \in DOMAIN s : ~IsReplay(s[i]), NEW x
  PROVE  Path(s, x, x)
<1> DEFINE w == [i \in 1..(Len(s) + 1) |-> x]
<1>1. Len(s) \in Nat /\ DOMAIN s = 1..Len(s)
  OBVIOUS
<1>2. \A i \in 1..(Len(s) + 1) : w[i] = x
  OBVIOUS
<1> HIDE DEF w
<1>3. 1 \in 1..(Len(s) + 1) /\ Len(s) + 1 \in 1..(Len(s) + 1)
      /\ \A i \in 1..Len(s) : i \in 1..(Len(s) + 1) /\ i + 1 \in 1..(Len(s) + 1)
  BY <1>1
<1>4. \A i \in 1..Len(s) : Step(s[i], w[i], w[i + 1])
  BY <1>1, <1>2, <1>3 DEF Step
<1> QED  BY <1>2, <1>3, <1>4 DEF Path

\* Undo replays an inverse backwards.
LEMMA PathBackwards ==
  ASSUME NEW S, NEW s \in Seq(S), NEW x, NEW y, BackPath(s, x, y)
  PROVE  Path(Backwards(s), x, y)
<1> DEFINE t == Backwards(s)
           n == Len(s)
<1>1. n \in Nat /\ Len(t) = n /\ \A i \in 1..n : t[i] = s[n + 1 - i]
  BY BackwardsType, LenProperties
<1>2. PICK w : /\ w[n + 1] = x /\ w[1] = y
               /\ \A i \in 1..n : Step(s[i], w[i + 1], w[i])
  BY DEF BackPath
<1> HIDE DEF t, n
<1> DEFINE v == [i \in 1..(n + 1) |-> w[n + 2 - i]]
<1>3. \A i \in 1..(n + 1) : v[i] = w[n + 2 - i]
  OBVIOUS
<1> HIDE DEF v
<1>4. v[1] = x /\ v[Len(t) + 1] = y
  <2>1. 1 \in 1..(n + 1) /\ n + 1 \in 1..(n + 1) /\ n + 2 - 1 = n + 1 /\ n + 2 - (n + 1) = 1
    BY <1>1
  <2> QED  BY <1>1, <1>2, <1>3, <2>1
<1>5. \A i \in 1..Len(t) : Step(t[i], v[i], v[i + 1])
  <2> TAKE i \in 1..Len(t)
  <2> DEFINE j == n + 1 - i
  <2>1. /\ j \in 1..n /\ i \in 1..(n + 1) /\ i + 1 \in 1..(n + 1) /\ i \in 1..n
        /\ n + 2 - i = j + 1 /\ n + 2 - (i + 1) = j
    BY <1>1
  <2>2. v[i] = w[j + 1] /\ v[i + 1] = w[j] /\ t[i] = s[j]
    BY <1>1, <1>3, <2>1
  <2> QED  BY <1>2, <2>1, <2>2
<1> QED  BY <1>4, <1>5 DEF Path, t

\* A path of one step, backwards.
LEMMA BackPathOne ==
  ASSUME NEW o, NEW x, NEW y, Step(o, x, y)
  PROVE  BackPath(<<o>>, x, y)
<1> DEFINE w == [i \in 1..2 |-> IF i = 1 THEN y ELSE x]
<1>1. w[1] = y /\ w[2] = x
  OBVIOUS
<1> HIDE DEF w
<1>2. Len(<<o>>) = 1 /\ <<o>>[1] = o /\ \A i \in 1..1 : i = 1
  OBVIOUS
<1>3. \A i \in 1..Len(<<o>>) : Step(<<o>>[i], w[i + 1], w[i])
  BY <1>1, <1>2
<1> QED  BY <1>1, <1>2, <1>3 DEF BackPath

\* The empty path, backwards.
LEMMA BackPathEmpty ==
  ASSUME NEW x
  PROVE  BackPath(<< >>, x, x)
<1> DEFINE w == [i \in {1} |-> x]
<1>1. w[1] = x /\ w[Len(<< >>) + 1] = x
  OBVIOUS
<1>2. 1..Len(<< >>) = {}
  OBVIOUS
<1> HIDE DEF w
<1> QED  BY <1>1, <1>2 DEF BackPath

\* First the ops of t, backwards, then those of s.
LEMMA BackPathConcat ==
  ASSUME NEW S, NEW s \in Seq(S), NEW t \in Seq(S), NEW x, NEW y, NEW z,
         BackPath(t, x, y), BackPath(s, y, z)
  PROVE  BackPath(s \o t, x, z)
<1> DEFINE c == s \o t
           m == Len(s)
           n == Len(t)
<1>1. /\ m \in Nat /\ n \in Nat /\ Len(c) = m + n
      /\ \A i \in 1..(m + n) : c[i] = IF i <= m THEN s[i] ELSE t[i - m]
  BY ConcatProperties, LenProperties
<1>2. PICK w : /\ w[n + 1] = x /\ w[1] = y
               /\ \A i \in 1..n : Step(t[i], w[i + 1], w[i])
  BY DEF BackPath
<1>3. PICK u : /\ u[m + 1] = y /\ u[1] = z
               /\ \A i \in 1..m : Step(s[i], u[i + 1], u[i])
  BY DEF BackPath
<1> HIDE DEF c, m, n
<1> DEFINE v == [i \in 1..(m + n + 1) |-> IF i <= m THEN u[i] ELSE w[i - m]]
<1>4. \A i \in 1..(m + n + 1) : v[i] = IF i <= m THEN u[i] ELSE w[i - m]
  OBVIOUS
<1> HIDE DEF v
<1>5. \A i \in 1..(m + 1) : v[i] = u[i]
  <2> TAKE i \in 1..(m + 1)
  <2>0. i \in 1..(m + n + 1)
    BY <1>1
  <2>1. CASE i <= m
    BY <1>4, <2>0, <2>1
  <2>2. CASE ~(i <= m)
    <3>1. i = m + 1 /\ i - m = 1
      BY <1>1, <2>2
    <3> QED  BY <1>2, <1>3, <1>4, <2>0, <2>2, <3>1
  <2> QED  BY <2>1, <2>2
<1>6. v[m + n + 1] = x /\ v[1] = z
  <2>1. /\ m + n + 1 \in 1..(m + n + 1) /\ ~(m + n + 1 <= m) /\ m + n + 1 - m = n + 1
        /\ 1 \in 1..(m + 1)
    BY <1>1
  <2>2. v[m + n + 1] = w[n + 1]
    <3> DEFINE k == m + n + 1
    <3>1. k \in 1..k /\ ~(k <= m) /\ k - m = n + 1
      BY <1>1
    <3>2. \A i \in 1..k : ~(i <= m) => v[i] = w[i - m]
      BY <1>4
    <3> HIDE DEF k
    <3>3. v[k] = w[k - m]
      BY <3>1, <3>2
    <3> QED  BY <3>1, <3>3 DEF k
  <2>3. v[1] = u[1]
    BY <1>5, <2>1
  <2> QED  BY <1>2, <1>3, <2>2, <2>3
<1>7. \A i \in 1..(m + n) : Step(c[i], v[i + 1], v[i])
  <2> TAKE i \in 1..(m + n)
  <2>1. CASE i <= m
    <3>1. i \in 1..m /\ i \in 1..(m + 1) /\ i + 1 \in 1..(m + 1)
      BY <1>1, <2>1
    <3>2. c[i] = s[i] /\ v[i] = u[i] /\ v[i + 1] = u[i + 1]
      BY <1>1, <1>5, <2>1, <3>1
    <3> QED  BY <1>3, <3>1, <3>2
  <2>2. CASE ~(i <= m)
    <3>1. /\ i - m \in 1..n /\ i \in 1..(m + n + 1) /\ i + 1 \in 1..(m + n + 1)
          /\ ~(i + 1 <= m) /\ i + 1 - m = i - m + 1
      BY <1>1, <2>2
    <3>2. c[i] = t[i - m] /\ v[i] = w[i - m] /\ v[i + 1] = w[i - m + 1]
      BY <1>1, <1>4, <2>2, <3>1
    <3> QED  BY <1>2, <3>1, <3>2
  <2> QED  BY <2>1, <2>2
<1>8. BackPath(c, x, z)
  BY <1>1, <1>6, <1>7 DEF BackPath
<1> QED  BY <1>8 DEF c

Unique(ns) == \A m, n \in Contents(ns) : m[1] = n[1] => m = n

\* The one node of its id is the one TypeIn finds.
LEMMA TypeInIs ==
  ASSUME NEW ns \in Seq(Id \X NodeTypes), NEW id \in Ids(ns)
  PROVE  <<id, TypeIn(ns, id)>> \in Contents(ns)
<1> DEFINE S == {i \in DOMAIN ns : ns[i][1] = id}
           last(i) == i \in DOMAIN ns /\ ns[i][1] = id /\ \A j \in DOMAIN ns : ns[j][1] = id => j <= i
<1>1. S # {} /\ S \subseteq 1..Len(ns) /\ Len(ns) \in Nat
  BY DEF Ids, Contents
<1>2. \E i \in S : \A j \in S : j <= i
  <2> HIDE DEF S
  <2> QED  BY <1>1, LastPosition
<1>3. \E i \in DOMAIN ns : last(i)
  BY <1>2
<1> DEFINE m == CHOOSE i \in DOMAIN ns : ns[i][1] = id /\ \A j \in DOMAIN ns : ns[j][1] = id => j <= i
<1>4. m \in DOMAIN ns /\ ns[m][1] = id
  BY <1>3
<1>5. \A i \in DOMAIN ns : ns[i] = <<ns[i][1], ns[i][2]>>
  <2>1. \A i \in DOMAIN ns : ns[i] \in Id \X NodeTypes
    OBVIOUS
  <2> QED  BY <2>1
<1>6. TypeIn(ns, id) = ns[m][2]
  BY DEF TypeIn
<1> HIDE DEF m
<1> QED  BY <1>4, <1>5, <1>6 DEF Contents

\* Replaying what RemoveNode's inverse kept leads back: the param first, the
\* edges, from the last to the first, and the node.
LEMMA RemovedLeadsBack ==
  ASSUME doc \in Document, Unique(doc.nodes), NEW id \in Ids(doc.nodes), id \in Id
  PROVE  BackPath(Removed(id),
                  <<{n \in Contents(doc.nodes) : n[1] # id},
                    {e \in Contents(doc.edges) : ~Touches(e, id)}>>,
                  Structure(doc))
<1> DEFINE N == Contents(doc.nodes)
           E == Contents(doc.edges)
           N0 == {n \in N : n[1] # id}
           E0 == {e \in E : ~Touches(e, id)}
           type == TypeIn(doc.nodes, id)
           gone == Those(doc.edges, {e \in E : Touches(e, id)})
           node == <<Op("add_node", id, type, 0)>>
           edges == [i \in DOMAIN gone |-> Op("add_edge", gone[i][1], gone[i][2], 0)]
           setter == Op(SetterOf(id), id, Kept(doc.defaults[id]), 0)
           param == IF id \in DOMAIN doc.defaults /\ KindOf[id] # "array"
                    THEN <<setter>> ELSE << >>
           x0 == <<N0, E0>>
           x1 == <<N0, E>>
           x2 == <<N, E>>
<1>1. doc.nodes \in Seq(Id \X NodeTypes) /\ doc.edges \in Seq(Id \X Id)
  BY DocumentHas
<1>2. N = N0 \cup {<<id, type>>}
  <2>1. <<id, type>> \in N
    BY <1>1, TypeInIs
  <2>2. \A n \in N : n[1] = id => n = <<id, type>>
    <3> TAKE n \in N
    <3>1. <<id, type>>[1] = id
      OBVIOUS
    <3> HIDE DEF N, type
    <3> QED  BY <2>1, <3>1 DEF Unique, N
  <2> HIDE DEF N, type
  <2> QED  BY <2>1, <2>2
<1>3. gone \in Seq(Id \X Id) /\ Contents(gone) = {e \in E : Touches(e, id)}
  BY <1>1, ThoseType
<1>4. E = E0 \cup Contents(gone)
  <2> HIDE DEF E, gone
  <2> QED  BY <1>3
<1>5. BackPath(node, x1, x2)
  <2> DEFINE o == Op("add_node", id, type, 0)
  <2>1. o.tag = 0 /\ o.op = "add_node" /\ o.a = id /\ o.b = type
    BY DEF Op
  <2> HIDE DEF o, N, E, N0, type
  <2>2. Effect(o, x1, x2)
    BY <1>2, <2>1 DEF Effect, Nodes, Edges
  <2>3. Step(o, x1, x2)
    BY <2>1, <2>2 DEF Step, IsReplay
  <2>4. BackPath(<<o>>, x1, x2)
    BY <2>3, BackPathOne
  <2> QED  BY <2>4 DEF o
<1>6. BackPath(edges, x0, x1)
  <2> DEFINE n == Len(gone)
             from(i) == {gone[j] : j \in i..n}
             w == [i \in 1..(n + 1) |-> <<N0, E0 \cup from(i)>>]
  <2>1. n \in Nat /\ DOMAIN gone = 1..n /\ \A i \in 1..n : gone[i] \in Id \X Id
    BY <1>3, LenProperties
  <2>2. Contents(gone) = from(1)
    BY <2>1 DEF Contents
  <2>3. \A i \in 1..n : from(i) = from(i + 1) \cup {<<gone[i][1], gone[i][2]>>}
    <3> TAKE i \in 1..n
    <3>1. gone[i] = <<gone[i][1], gone[i][2]>>
      <4>1. \A e \in Id \X Id : e = <<e[1], e[2]>>
        OBVIOUS
      <4> HIDE DEF gone
      <4> QED  BY <2>1, <4>1
    <3>2. /\ \A j \in i..n : j = i \/ j \in (i + 1)..n
          /\ \A j \in (i + 1)..n : j \in i..n
          /\ i \in i..n
      BY <2>1
    <3> QED  BY <3>1, <3>2
  <2>4. from(n + 1) = {}
    <3>1. (n + 1)..n = {}
      BY <2>1
    <3> QED  BY <3>1
  <2>5. Len(edges) = n /\ \A i \in 1..n : edges[i] = Op("add_edge", gone[i][1], gone[i][2], 0)
    <3>1. edges = [i \in 1..n |-> Op("add_edge", gone[i][1], gone[i][2], 0)]
      BY <2>1
    <3> HIDE DEF edges
    <3> QED  BY <2>1, <3>1
  <2>6. \A i \in 1..(n + 1) : w[i] = <<N0, E0 \cup from(i)>>
    OBVIOUS
  <2> HIDE DEF n, from, edges, w, N0, E0, E, gone
  <2>7. w[1] = x1 /\ w[Len(edges) + 1] = x0
    <3>1. 1 \in 1..(n + 1) /\ n + 1 \in 1..(n + 1)
      BY <2>1
    <3>2. w[1] = <<N0, E0 \cup from(1)>> /\ w[n + 1] = <<N0, E0 \cup from(n + 1)>>
      BY <2>6, <3>1
    <3>3. E0 \cup from(1) = E /\ E0 \cup from(n + 1) = E0
      BY <1>4, <2>2, <2>4
    <3> QED  BY <2>5, <3>2, <3>3
  <2>8. \A i \in 1..Len(edges) : Step(edges[i], w[i + 1], w[i])
    <3> TAKE i \in 1..Len(edges)
    <3> DEFINE o == edges[i]
    <3>0. i \in 1..n /\ i \in 1..(n + 1) /\ i + 1 \in 1..(n + 1)
      BY <2>1, <2>5
    <3>1. o.tag = 0 /\ o.op = "add_edge" /\ o.a = gone[i][1] /\ o.b = gone[i][2]
      BY <2>5, <3>0 DEF Op
    <3> HIDE DEF o
    <3>2. w[i] = <<N0, E0 \cup from(i)>> /\ w[i + 1] = <<N0, E0 \cup from(i + 1)>>
      BY <2>6, <3>0
    <3>3. E0 \cup from(i) = (E0 \cup from(i + 1)) \cup {<<o.a, o.b>>}
      BY <2>3, <3>0, <3>1
    <3>4. Effect(o, w[i + 1], w[i])
      BY <3>1, <3>2, <3>3 DEF Effect, Nodes, Edges
    <3>5. Step(o, w[i + 1], w[i])
      BY <3>1, <3>4 DEF Step, IsReplay
    <3> QED  BY <3>5 DEF o
  <2> QED  BY <2>7, <2>8 DEF BackPath
<1>7. BackPath(param, x0, x0)
  <2>1. setter.tag = 0 /\ IsParam(setter)
    BY DEF Op, IsParam, SetterOf
  <2> HIDE DEF setter, x0
  <2>2. Step(setter, x0, x0)
    BY <2>1 DEF Step, Effect
  <2>3. BackPath(<<setter>>, x0, x0)
    BY <2>2, BackPathOne
  <2> QED  BY <2>3, BackPathEmpty
<1>8. node \in Seq(Ops({0})) /\ edges \in Seq(Ops({0})) /\ param \in Seq(Ops({0}))
  BY RemovedParts
<1>9. Removed(id) = (node \o edges) \o param
  BY DEF Removed
<1>10. Structure(doc) = x2
  BY DEF Structure
<1> HIDE DEF node, edges, param, x0, x1, x2
<1>11. BackPath(node \o edges, x0, x2)
  BY <1>5, <1>6, <1>8, BackPathConcat
<1>12. BackPath((node \o edges) \o param, x0, x2)
  <2>1. node \o edges \in Seq(Ops({0}))
    BY <1>8, ConcatProperties
  <2> QED  BY <1>7, <1>8, <1>11, <2>1, BackPathConcat
<1> QED  BY <1>9, <1>10, <1>12 DEF x0

\* What an op does to the structure is decided by the op.
LEMMA EffectUnique ==
  ASSUME NEW o, NEW x, NEW y, NEW z, Effect(o, x, y), Effect(o, x, z)
  PROVE  y = z
<1>1. CASE IsParam(o)
  <2>1. o.op \notin {"add_node", "remove_node", "add_edge", "remove_edge"}
    BY <1>1 DEF IsParam
  <2> QED  BY <2>1 DEF Effect
<1>2. CASE ~IsParam(o) /\ o.op = "add_node"
  BY <1>2 DEF Effect
<1>3. CASE ~IsParam(o) /\ o.op = "remove_node"
  BY <1>3 DEF Effect
<1>4. CASE ~IsParam(o) /\ o.op = "add_edge"
  BY <1>4 DEF Effect
<1>5. CASE ~IsParam(o) /\ o.op = "remove_edge"
  BY <1>5 DEF Effect
<1> QED  BY <1>1, <1>2, <1>3, <1>4, <1>5 DEF Effect

\* The ops that write the log, and what they do to the structure.
Edits(o) == SetScalar(o) \/ SetArray(o) \/ AddNode(o) \/ RemoveNode(o) \/ AddEdge(o) \/ RemoveEdge(o)

\* A structure by its parts.
LEMMA StructureOf ==
  ASSUME NEW d, NEW ns, NEW es, d.nodes = ns, d.edges = es, NEW N, NEW E,
         Contents(ns) = N, Contents(es) = E
  PROVE  Structure(d) = <<N, E>>
  BY DEF Structure

\* An edit does to the structure what its effect says.
LEMMA EditEffect ==
  ASSUME TypeOK, NEW o \in AllOps, Edits(o)
  PROVE  Effect(o, Structure(doc), Structure(doc'))
<1> DEFINE N == Contents(doc.nodes)
           E == Contents(doc.edges)
<1>0. /\ doc.nodes \in Seq(Id \X NodeTypes) /\ doc.edges \in Seq(Id \X Id)
      /\ doc = [nodes |-> doc.nodes, edges |-> doc.edges, defaults |-> doc.defaults]
      /\ Nodes(Structure(doc)) = N /\ Edges(Structure(doc)) = E
  BY DocumentHas DEF TypeOK, Structure, Nodes, Edges
<1>1. CASE SetScalar(o) \/ SetArray(o)
  <2>1. PICK ds : doc' = [nodes |-> doc.nodes, edges |-> doc.edges, defaults |-> ds]
    BY <1>1, ScalarFacts, ArrayFacts DEF AllOps
  <2>2. Structure(doc') = Structure(doc)
    BY <2>1 DEF Structure
  <2>3. IsParam(o)
    BY <1>1 DEF SetScalar, SetArray, IsParam
  <2> QED  BY <2>2, <2>3 DEF Effect
<1>2. CASE AddNode(o)
  <2>1. o.op = "add_node" /\ doc' = [doc EXCEPT !.nodes = Append(@, <<o.a, o.b>>)]
    BY <1>2 DEF AddNode
  <2>2. doc' = [nodes |-> Append(doc.nodes, <<o.a, o.b>>), edges |-> doc.edges,
                defaults |-> doc.defaults]
    BY <1>0, <2>1
  <2>3. <<o.a, o.b>> \in Id \X NodeTypes
    BY <2>1, OpHas DEF AllOps
  <2>4. Contents(Append(doc.nodes, <<o.a, o.b>>)) = N \cup {<<o.a, o.b>>}
    BY <1>0, <2>3, ContentsAppend
  <2>5. Structure(doc') = <<N \cup {<<o.a, o.b>>}, E>>
    <3> DEFINE ns == Append(doc.nodes, <<o.a, o.b>>)
               M == N \cup {<<o.a, o.b>>}
    <3>1. doc'.nodes = ns /\ doc'.edges = doc.edges
      BY <2>2
    <3>2. Contents(ns) = M
      BY <2>4
    <3> HIDE DEF ns, M
    <3>3. Structure(doc') = <<M, E>>
      BY <3>1, <3>2, StructureOf
    <3> QED  BY <3>3 DEF M
  <2> HIDE DEF N, E
  <2> QED  BY <1>0, <2>1, <2>5 DEF Effect
<1>3. CASE RemoveNode(o)
  <2> DEFINE S == {n \in N : n[1] # o.a}
             T == {e \in E : ~Touches(e, o.a)}
  <2>1. /\ o.op = "remove_node" /\ o.a \in Ids(doc.nodes)
        /\ doc' = [nodes |-> Those(doc.nodes, S), edges |-> Those(doc.edges, T),
                   defaults |-> Without(doc.defaults, o.a)]
    BY <1>3 DEF RemoveNode
  <2>2. Contents(Those(doc.nodes, S)) = N \cap S /\ Contents(Those(doc.edges, T)) = E \cap T
    BY <1>0, ThoseType
  <2>3. N \cap S = S /\ E \cap T = T
    <3> HIDE DEF N, E
    <3> QED  OBVIOUS
  <2>4. Structure(doc') = <<S, T>>
    <3>1. doc'.nodes = Those(doc.nodes, S) /\ doc'.edges = Those(doc.edges, T)
      BY <2>1
    <3>2. Contents(Those(doc.nodes, S)) = S /\ Contents(Those(doc.edges, T)) = T
      BY <2>2, <2>3
    <3> HIDE DEF S, T
    <3> QED  BY <3>1, <3>2, StructureOf
  <2>5. \E n \in N : n[1] = o.a
    BY <2>1 DEF Ids
  <2> HIDE DEF N, E
  <2> QED  BY <1>0, <2>1, <2>4, <2>5 DEF Effect
<1>4. CASE AddEdge(o)
  <2>1. o.op = "add_edge" /\ doc' = [doc EXCEPT !.edges = Append(@, <<o.a, o.b>>)]
    BY <1>4 DEF AddEdge
  <2>2. doc' = [nodes |-> doc.nodes, edges |-> Append(doc.edges, <<o.a, o.b>>),
                defaults |-> doc.defaults]
    BY <1>0, <2>1
  <2>3. <<o.a, o.b>> \in Id \X Id
    BY <2>1, OpHas DEF AllOps
  <2>4. Contents(Append(doc.edges, <<o.a, o.b>>)) = E \cup {<<o.a, o.b>>}
    BY <1>0, <2>3, ContentsAppend
  <2>5. Structure(doc') = <<N, E \cup {<<o.a, o.b>>}>>
    <3> DEFINE es == Append(doc.edges, <<o.a, o.b>>)
               M == E \cup {<<o.a, o.b>>}
    <3>1. doc'.nodes = doc.nodes /\ doc'.edges = es
      BY <2>2
    <3>2. Contents(es) = M
      BY <2>4
    <3> HIDE DEF es, M
    <3>3. Structure(doc') = <<N, M>>
      BY <3>1, <3>2, StructureOf
    <3> QED  BY <3>3 DEF M
  <2> HIDE DEF N, E
  <2> QED  BY <1>0, <2>1, <2>5 DEF Effect
<1>5. CASE RemoveEdge(o)
  <2> DEFINE T == E \ {<<o.a, o.b>>}
  <2>1. /\ o.op = "remove_edge" /\ <<o.a, o.b>> \in E
        /\ doc' = [doc EXCEPT !.edges = Those(@, Contents(@) \ {<<o.a, o.b>>})]
    BY <1>5 DEF RemoveEdge
  <2>2. doc' = [nodes |-> doc.nodes, edges |-> Those(doc.edges, T), defaults |-> doc.defaults]
    BY <1>0, <2>1
  <2>3. Contents(Those(doc.edges, T)) = E \cap T
    BY <1>0, ThoseType
  <2>4. E \cap T = T
    <3> HIDE DEF E
    <3> QED  OBVIOUS
  <2>5. Structure(doc') = <<N, T>>
    <3>1. doc'.nodes = doc.nodes /\ doc'.edges = Those(doc.edges, T)
      BY <2>2
    <3>2. Contents(Those(doc.edges, T)) = T
      BY <2>3, <2>4
    <3> HIDE DEF T
    <3> QED  BY <3>1, <3>2, StructureOf
  <2> HIDE DEF N, E
  <2> QED  BY <1>0, <2>1, <2>5 DEF Effect
<1> QED  BY <1>1, <1>2, <1>3, <1>4, <1>5 DEF Edits

\* A loser has no effect.
LEMMA LoserHasNone ==
  ASSUME NEW o, Loses(o), NEW y
  PROVE  ~Effect(o, Structure(doc), y)
  BY DEF Loses, Effect, IsParam, Structure, Nodes, Edges, Ids

\* What a clean edit logs leads back, and keeps one node per id.
LEMMA EditLeadsBack ==
  ASSUME TypeOK, NEW o \in AllOps, Edits(o), ~IsReplay(o), clean', Unique(doc.nodes)
  PROVE  /\ clean /\ cursor = Len(log) /\ Unique(doc'.nodes)
         /\ \E inverse : Logs(o, inverse) /\ BackPath(inverse, Structure(doc'), Structure(doc))
<1> DEFINE N == Contents(doc.nodes)
           E == Contents(doc.edges)
           x == Structure(doc)
           y == Structure(doc')
<1>0. /\ doc \in Document
      /\ Nodes(x) = N /\ Edges(x) = E /\ Nodes(y) = Contents(doc'.nodes)
      /\ Effect(o, x, y) /\ x = <<N, E>>
  BY EditEffect DEF TypeOK, Structure, Nodes, Edges
<1>1. clean /\ cursor = Len(log)
  BY DEF Edits, SetScalar, SetArray, AddNode, RemoveNode, AddEdge, RemoveEdge, Record
<1>2. CASE SetScalar(o) \/ SetArray(o)
  <2>1. IsParam(o)
    BY <1>2 DEF SetScalar, SetArray, IsParam
  <2>2. y = x
    BY <1>0, <2>1, EffectUnique DEF Effect
  <2>3. PICK v : Logs(o, <<Op(o.op, o.a, v, 0)>>)
    <3>1. CASE SetScalar(o)
      BY <3>1 DEF SetScalar, Record, Logs, auxvars
    <3>2. CASE SetArray(o)
      <4>1. o.op = "set_param"
        BY <3>2 DEF SetArray
      <4> QED  BY <3>2, <4>1 DEF SetArray, Record, Logs, auxvars
    <3> QED  BY <1>2, <3>1, <3>2
  <2> DEFINE i == Op(o.op, o.a, v, 0)
  <2>4. i.tag = 0 /\ IsParam(i)
    BY <2>1 DEF Op, IsParam
  <2> HIDE DEF i
  <2>5. Step(i, y, x)
    BY <2>2, <2>4 DEF Step, Effect
  <2>6. BackPath(<<i>>, y, x)
    BY <2>5, BackPathOne
  <2>7. Unique(doc'.nodes)
    BY <1>0, <2>2 DEF Unique
  <2> QED  BY <1>1, <2>3, <2>6, <2>7 DEF i
<1>3. CASE AddNode(o)
  <2>1. /\ o.op = "add_node" /\ o.a \notin Ids(doc.nodes)
        /\ \A e \in E : ~Touches(e, o.a)
        /\ Logs(o, <<Op("remove_node", o.a, "", 0)>>)
    BY <1>3 DEF AddNode, Record, Logs, auxvars
  <2>2. ~IsParam(o)
    BY <2>1 DEF IsParam
  <2>3. y = <<N \cup {<<o.a, o.b>>}, E>>
    BY <1>0, <2>1, <2>2 DEF Effect
  <2>4. Contents(doc'.nodes) = N \cup {<<o.a, o.b>>}
    BY <1>0, <2>3 DEF Nodes
  <2>5. \A n \in N : n[1] # o.a
    BY <2>1 DEF Ids
  <2>6. Unique(doc'.nodes)
    <3>1. <<o.a, o.b>>[1] = o.a
      OBVIOUS
    <3> HIDE DEF N
    <3> QED  BY <2>4, <2>5, <3>1 DEF Unique, N
  <2> DEFINE i == Op("remove_node", o.a, "", 0)
  <2>7. i.tag = 0 /\ i.op = "remove_node" /\ i.a = o.a
    BY DEF Op
  <2> HIDE DEF i
  <2>8. {n \in Nodes(y) : n[1] # i.a} = N /\ (\E n \in Nodes(y) : n[1] = i.a)
    <3>1. Nodes(y) = N \cup {<<o.a, o.b>>}
      BY <2>3 DEF Nodes
    <3>2. <<o.a, o.b>>[1] = o.a
      OBVIOUS
    <3> HIDE DEF N, y
    <3> QED  BY <2>5, <2>7, <3>1, <3>2
  <2>9. {e \in Edges(y) : ~Touches(e, i.a)} = E
    <3>1. Edges(y) = E
      BY <2>3 DEF Edges
    <3> HIDE DEF E, y
    <3> QED  BY <2>1, <2>7, <3>1
  <2>10. Effect(i, y, x)
    <3> HIDE DEF N, E, y, x
    <3> QED  BY <1>0, <2>7, <2>8, <2>9 DEF Effect
  <2>11. BackPath(<<i>>, y, x)
    BY <2>7, <2>10, BackPathOne DEF Step, IsReplay
  <2> QED  BY <1>1, <2>1, <2>6, <2>11 DEF i
<1>4. CASE RemoveNode(o)
  <2>1. o.op = "remove_node" /\ o.a \in Ids(doc.nodes) /\ Logs(o, Removed(o.a))
    BY <1>4 DEF RemoveNode, Record, Logs, auxvars
  <2>2. ~IsParam(o)
    BY <2>1 DEF IsParam
  <2>3. y = <<{n \in N : n[1] # o.a}, {e \in E : ~Touches(e, o.a)}>>
    <3> HIDE DEF N, E, y, x
    <3> QED  BY <1>0, <2>1, <2>2 DEF Effect
  <2>4. BackPath(Removed(o.a), y, x)
    <3>1. o.a \in Id
      BY OpHas DEF AllOps
    <3> HIDE DEF y
    <3> QED  BY <1>0, <2>1, <2>3, <3>1, RemovedLeadsBack
  <2>5. Contents(doc'.nodes) = {n \in N : n[1] # o.a}
    <3> HIDE DEF N, E, y
    <3> QED  BY <1>0, <2>3 DEF Nodes
  <2>6. Unique(doc'.nodes)
    BY <2>5 DEF Unique
  <2> QED  BY <1>1, <2>1, <2>4, <2>6
<1>5. CASE AddEdge(o)
  <2>1. o.op = "add_edge" /\ <<o.a, o.b>> \notin E /\ Logs(o, <<Op("remove_edge", o.a, o.b, 0)>>)
    BY <1>5 DEF AddEdge, Record, Logs, auxvars
  <2>2. ~IsParam(o)
    BY <2>1 DEF IsParam
  <2>3. y = <<N, E \cup {<<o.a, o.b>>}>>
    <3> HIDE DEF N, E, y, x
    <3> QED  BY <1>0, <2>1, <2>2 DEF Effect
  <2>4. Nodes(y) = N /\ Edges(y) = E \cup {<<o.a, o.b>>}
    <3> HIDE DEF N, E, y
    <3> QED  BY <2>3 DEF Nodes, Edges
  <2> DEFINE i == Op("remove_edge", o.a, o.b, 0)
  <2>5. i.tag = 0 /\ i.op = "remove_edge" /\ i.a = o.a /\ i.b = o.b
    BY DEF Op
  <2> HIDE DEF i
  <2>6. Effect(i, y, x)
    <3>1. (E \cup {<<o.a, o.b>>}) \ {<<o.a, o.b>>} = E
      BY <2>1
    <3> HIDE DEF N, E, y, x
    <3> QED  BY <1>0, <2>4, <2>5, <3>1 DEF Effect
  <2>7. BackPath(<<i>>, y, x)
    BY <2>5, <2>6, BackPathOne DEF Step, IsReplay
  <2>8. Unique(doc'.nodes)
    BY <1>0, <2>4 DEF Unique
  <2> QED  BY <1>1, <2>1, <2>7, <2>8 DEF i
<1>6. CASE RemoveEdge(o)
  <2>1. o.op = "remove_edge" /\ <<o.a, o.b>> \in E /\ Logs(o, <<Op("add_edge", o.a, o.b, 0)>>)
    BY <1>6 DEF RemoveEdge, Record, Logs, auxvars
  <2>2. ~IsParam(o)
    BY <2>1 DEF IsParam
  <2>3. y = <<N, E \ {<<o.a, o.b>>}>>
    <3> HIDE DEF N, E, y, x
    <3> QED  BY <1>0, <2>1, <2>2 DEF Effect
  <2>4. Nodes(y) = N /\ Edges(y) = E \ {<<o.a, o.b>>}
    <3> HIDE DEF N, E, y
    <3> QED  BY <2>3 DEF Nodes, Edges
  <2> DEFINE i == Op("add_edge", o.a, o.b, 0)
  <2>5. i.tag = 0 /\ i.op = "add_edge" /\ i.a = o.a /\ i.b = o.b
    BY DEF Op
  <2> HIDE DEF i
  <2>6. Effect(i, y, x)
    <3>1. (E \ {<<o.a, o.b>>}) \cup {<<o.a, o.b>>} = E
      BY <2>1
    <3> HIDE DEF N, E, y, x
    <3> QED  BY <1>0, <2>4, <2>5, <3>1 DEF Effect
  <2>7. BackPath(<<i>>, y, x)
    BY <2>5, <2>6, BackPathOne DEF Step, IsReplay
  <2>8. Unique(doc'.nodes)
    BY <1>0, <2>4 DEF Unique
  <2> QED  BY <1>1, <2>1, <2>7, <2>8 DEF i
<1> QED  BY <1>2, <1>3, <1>4, <1>5, <1>6 DEF Edits

Users(s) == \A i \in DOMAIN s : ~IsReplay(s[i])

\* Every logged inverse leads from the document after its op to the one before.
Chained(l, p) ==
  \A i \in 1..(Len(l) - 1) : BackPath(l[i].inverse, Structure(p[i + 1]), Structure(p[i]))

\* Nothing was undone yet: no inverse is under way, and that of the last op
\* leads back from the document.
Untouched ==
  /\ Unique(doc.nodes) /\ queueing = << >> /\ Users(batch) /\ Users(inlet)
  /\ cursor > 0 => BackPath(log[cursor].inverse, Structure(doc), Structure(past[cursor]))

\* What is under way, in the order in which it will be applied, leads to z.
Leads(z) == \E k, m : Path(batch, Structure(doc), k) /\ Path(inlet, k, m) /\ Path(queueing, m, z)

CleanInv ==
  /\ 0 \notin rejected
  /\ Chained(log, past)
  /\ cursor = Len(log) => Untouched
  /\ cursor < Len(log) => Leads(Structure(past[cursor + 1]))

\* The inductive invariant: after an undo, what is under way leads to the
\* structure that the undone op found.
UndoInv ==
  /\ Typed
  /\ pc # "undo" => queueing = << >>
  /\ clean => CleanInv

\* Where no inverse waits, the way back through the ops is empty.
LEMMA UsersStay ==
  ASSUME NEW S, NEW s \in Seq(S), Users(s), NEW x
  PROVE  Path(s, x, x)
  BY PathStays DEF Users

\* One more op of a user at the end.
LEMMA UsersAppend ==
  ASSUME NEW S, NEW s \in Seq(S), Users(s), NEW o \in S, ~IsReplay(o)
  PROVE  Users(Append(s, o))
<1> DEFINE t == Append(s, o)
<1>1. /\ DOMAIN t = 1..(Len(s) + 1) /\ DOMAIN s = 1..Len(s) /\ Len(s) \in Nat
      /\ t[Len(s) + 1] = o /\ \A i \in 1..Len(s) : t[i] = s[i]
  OBVIOUS
<1> HIDE DEF t
<1>2. \A i \in DOMAIN t : i = Len(s) + 1 \/ i \in 1..Len(s)
  BY <1>1
<1>3. Users(t)
  BY <1>1, <1>2 DEF Users
<1> QED  BY <1>3 DEF t

\* One op of a user less at the head.
LEMMA UsersTail ==
  ASSUME NEW S, NEW s \in Seq(S), Users(s), s # << >>
  PROVE  Users(Tail(s)) /\ ~IsReplay(Head(s))
<1> DEFINE t == Tail(s)
<1>1. /\ DOMAIN t = 1..(Len(s) - 1) /\ DOMAIN s = 1..Len(s) /\ Len(s) \in Nat \ {0}
      /\ Head(s) = s[1] /\ \A i \in 1..(Len(s) - 1) : t[i] = s[i + 1]
  BY HeadTailProperties, EmptySeq
<1> HIDE DEF t
<1>2. \A i \in 1..(Len(s) - 1) : i + 1 \in DOMAIN s
  BY <1>1
<1>3. 1 \in DOMAIN s
  BY <1>1
<1>4. Users(t) /\ ~IsReplay(Head(s))
  BY <1>1, <1>2, <1>3 DEF Users
<1> QED  BY <1>4 DEF t

\* The types that the steps below keep citing.
LEMMA UndoTypes ==
  ASSUME TypeOK
  PROVE  /\ batch \in Seq(AllOps) /\ inlet \in Seq(AllOps) /\ queueing \in Seq(AllOps)
         /\ Len(log) \in Nat /\ cursor \in Nat /\ cursor <= Len(log)
         /\ \A i \in 1..Len(log) : log[i].inverse \in Seq(AllOps)
<1>1. Ops({0}) \subseteq AllOps
  <2>1. {0} \subseteq 0..MaxSubmits
    BY BoundAssumption
  <2> QED  BY <2>1, OpsWiden DEF AllOps
<1>2. Seq(Ops({0})) \subseteq Seq(AllOps)
  BY <1>1
<1>3. \A i \in 1..Len(log) : log[i] \in LogEntry
  BY DEF TypeOK
<1>4. \A i \in 1..Len(log) : log[i].inverse \in Seq(Ops({0}))
  BY <1>3 DEF LogEntry
<1> QED  BY <1>2, <1>4 DEF TypeOK, AllOps

\* Undo, and a gesture that goes on: the next older inverse joins what is
\* under way.
LEMMA CleanRevert ==
  ASSUME TypeOK, CleanInv, queueing = << >>, cursor > 0,
         queueing' = Backwards(log[cursor].inverse), cursor' = cursor - 1,
         UNCHANGED <<inlet, batch, doc, log, past, rejected>>
  PROVE  CleanInv'
<1> DEFINE inverse == log[cursor].inverse
           z == Structure(past[cursor])
<1>1. /\ batch \in Seq(AllOps) /\ inlet \in Seq(AllOps) /\ inverse \in Seq(AllOps)
      /\ Len(log) \in Nat /\ cursor \in 1..Len(log)
  <2>1. cursor \in 1..Len(log)
    BY UndoTypes
  <2> QED  BY <2>1, UndoTypes
<1>2. cursor' < Len(log) /\ cursor' + 1 = cursor
  BY <1>1
<1>3. \E k, m : Path(batch, Structure(doc), k) /\ Path(inlet, k, m) /\ BackPath(inverse, m, z)
  <2>1. CASE cursor = Len(log)
    <3>1. Untouched
      BY <2>1 DEF CleanInv
    <3> QED  BY <1>1, <3>1, UsersStay DEF Untouched
  <2>2. CASE cursor < Len(log)
    <3>1. Leads(Structure(past[cursor + 1]))
      BY <2>2 DEF CleanInv
    <3>2. PICK k, m : /\ Path(batch, Structure(doc), k) /\ Path(inlet, k, m)
                      /\ Path(<< >>, m, Structure(past[cursor + 1]))
      BY <3>1 DEF Leads
    <3>3. m = Structure(past[cursor + 1])
      BY <3>2, PathEmpty
    <3>4. cursor \in 1..(Len(log) - 1)
      BY <1>1, <2>2
    <3>5. BackPath(inverse, m, z)
      BY <3>3, <3>4 DEF CleanInv, Chained
    <3> QED  BY <3>2, <3>5
  <2> QED  BY <1>1, <2>1, <2>2
<1>4. Leads(Structure(past[cursor + 1]))'
  <2>1. PICK k, m : Path(batch, Structure(doc), k) /\ Path(inlet, k, m) /\ BackPath(inverse, m, z)
    BY <1>3
  <2>2. Path(Backwards(inverse), m, z)
    BY <1>1, <2>1, PathBackwards
  <2>3. /\ batch' = batch /\ inlet' = inlet /\ queueing' = Backwards(inverse)
        /\ Structure(doc') = Structure(doc)
    OBVIOUS
  <2>4. Structure(past'[cursor' + 1]) = z
    BY <1>2
  <2> HIDE DEF inverse, z
  <2>5. \E k1, m1 : Path(batch', Structure(doc'), k1) /\ Path(inlet', k1, m1) /\ Path(queueing', m1, z)
    BY <2>1, <2>2, <2>3
  <2> QED  BY <2>4, <2>5 DEF Leads
<1> QED  BY <1>2, <1>4 DEF CleanInv, Chained

\* An inverse enters the inlet, behind everything else.
LEMMA CleanPush ==
  ASSUME TypeOK, CleanInv, PushInverse
  PROVE  CleanInv'
<1> DEFINE o == Head(queueing)
           z == Structure(past[cursor + 1])
<1>1. /\ queueing # << >> /\ inlet' = Append(inlet, o) /\ queueing' = Tail(queueing)
      /\ UNCHANGED <<batch, doc, log, past, cursor, rejected>>
  BY DEF PushInverse, docvars, auxvars
<1>2. /\ batch \in Seq(AllOps) /\ inlet \in Seq(AllOps) /\ queueing \in Seq(AllOps) /\ o \in AllOps
      /\ Len(log) \in Nat /\ cursor \in Nat /\ cursor <= Len(log)
  <2>1. o \in AllOps
    BY <1>1, UndoTypes, HeadTailProperties
  <2> QED  BY <2>1, UndoTypes
<1>3. cursor # Len(log)
  BY <1>1 DEF CleanInv, Untouched
<1>4. cursor < Len(log)
  BY <1>2, <1>3
<1>5. PICK k, m : Path(batch, Structure(doc), k) /\ Path(inlet, k, m) /\ Path(queueing, m, z)
  BY <1>4 DEF CleanInv, Leads
<1>6. PICK y : Step(o, m, y) /\ Path(Tail(queueing), y, z)
  BY <1>1, <1>2, <1>5, PathHead
<1> HIDE DEF o, z
<1>7. Path(Append(inlet, o), k, y)
  BY <1>2, <1>5, <1>6, PathAppend
<1>8. Leads(z)'
  <2>1. \E k1, m1 : Path(batch', Structure(doc'), k1) /\ Path(inlet', k1, m1) /\ Path(queueing', m1, z)
    BY <1>1, <1>5, <1>6, <1>7
  <2>2. Structure(past'[cursor' + 1]) = z
    BY <1>1 DEF z
  <2> QED  BY <1>1, <2>1, <2>2 DEF Leads, z
<1> QED  BY <1>1, <1>3, <1>8 DEF CleanInv, Chained, z

\* An op of a user joins the inlet: as long as it loses or awaits its turn,
\* it moves nothing.
LEMMA CleanSubmit ==
  ASSUME TypeOK, CleanInv, Submit
  PROVE  CleanInv'
<1>1. PICK o \in EditOps(submits + 1) : inlet' = Append(inlet, o)
  BY DEF Submit
<1>2. /\ UNCHANGED <<batch, doc, log, past, cursor, rejected, queueing>>
      /\ submits + 1 \in 1..MaxSubmits
  BY BoundAssumption DEF Submit, planvars, docvars, auxvars, TypeOK
<1>3. o \in AllOps /\ ~IsReplay(o)
  <2>1. o \in AllOps /\ o.tag = submits + 1
    <3>1. {submits + 1} \subseteq 0..MaxSubmits
      BY <1>2
    <3> QED  BY <3>1, SubmittedType, OpsWiden DEF AllOps
  <2> QED  BY <1>2, <2>1 DEF IsReplay
<1>4. /\ inlet \in Seq(AllOps)
      /\ Len(log) \in Nat /\ cursor \in Nat /\ cursor <= Len(log)
  BY UndoTypes
<1>5. CASE cursor = Len(log)
  <2>1. Untouched
    BY <1>5 DEF CleanInv
  <2>2. Users(inlet')
    BY <1>1, <1>3, <1>4, <2>1, UsersAppend DEF Untouched
  <2>3. Untouched'
    BY <1>2, <2>1, <2>2 DEF Untouched, Users, Unique
  <2> QED  BY <1>2, <1>4, <1>5, <2>3 DEF CleanInv, Chained
<1>6. CASE cursor < Len(log)
  <2> DEFINE z == Structure(past[cursor + 1])
  <2>1. PICK k, m : Path(batch, Structure(doc), k) /\ Path(inlet, k, m) /\ Path(queueing, m, z)
    BY <1>6 DEF CleanInv, Leads
  <2>2. Step(o, m, m)
    BY <1>3 DEF Step
  <2> HIDE DEF z
  <2>3. Path(Append(inlet, o), k, m)
    BY <1>3, <1>4, <2>1, <2>2, PathAppend
  <2>4. \E k1, m1 : Path(batch', Structure(doc'), k1) /\ Path(inlet', k1, m1) /\ Path(queueing', m1, z)
    BY <1>1, <1>2, <2>1, <2>3
  <2>5. Structure(past'[cursor' + 1]) = z
    BY <1>2 DEF z
  <2>6. Leads(z)'
    BY <1>2, <2>4, <2>5 DEF Leads, z
  <2> QED  BY <1>2, <1>4, <1>6, <2>6 DEF CleanInv, Chained, z
<1> QED  BY <1>4, <1>5, <1>6

\* The inlet becomes the batch.
LEMMA CleanDrain ==
  ASSUME TypeOK, CleanInv, Drain, batch = << >>
  PROVE  CleanInv'
<1>1. /\ batch' = inlet /\ inlet' = << >>
      /\ UNCHANGED <<queueing, doc, log, past, cursor, rejected>>
  BY DEF Drain, docvars, auxvars
<1>2. Len(log) \in Nat /\ cursor \in Nat /\ cursor <= Len(log)
  BY UndoTypes
<1>3. CASE cursor = Len(log)
  <2>1. Untouched
    BY <1>3 DEF CleanInv
  <2>2. Users(<< >>)
    BY DEF Users
  <2>3. Untouched'
    BY <1>1, <2>1, <2>2 DEF Untouched, Users, Unique
  <2> QED  BY <1>1, <1>2, <1>3, <2>3 DEF CleanInv, Chained
<1>4. CASE cursor < Len(log)
  <2> DEFINE z == Structure(past[cursor + 1])
  <2>1. PICK k, m : Path(batch, Structure(doc), k) /\ Path(inlet, k, m) /\ Path(queueing, m, z)
    BY <1>4 DEF CleanInv, Leads
  <2>2. k = Structure(doc) /\ Path(<< >>, m, m)
    BY <2>1, PathEmpty
  <2> HIDE DEF z
  <2>3. \E k1, m1 : Path(batch', Structure(doc'), k1) /\ Path(inlet', k1, m1) /\ Path(queueing', m1, z)
    BY <1>1, <2>1, <2>2
  <2>4. Structure(past'[cursor' + 1]) = z
    BY <1>1 DEF z
  <2>5. Leads(z)'
    BY <1>1, <2>3, <2>4 DEF Leads, z
  <2> QED  BY <1>1, <1>2, <1>4, <2>5 DEF CleanInv, Chained, z
<1> QED  BY <1>2, <1>3, <1>4

\* While an inverse is at the head of the batch, its op is still counted as undone.
LEMMA ReplayedOrNot ==
  ASSUME TypeOK, CleanInv, batch # << >>, IsReplay(Head(batch))
  PROVE  cursor < Len(log)
<1>1. batch \in Seq(AllOps) /\ Len(log) \in Nat /\ cursor \in Nat /\ cursor <= Len(log)
  BY UndoTypes
<1>2. cursor # Len(log)
  BY <1>1, UsersTail DEF CleanInv, Untouched
<1> QED  BY <1>1, <1>2

\* The next op of the batch leaves it, and the document goes where the op
\* leads it; the log stays.
LEMMA CleanConsume ==
  ASSUME TypeOK, CleanInv, batch # << >>, batch' = Tail(batch),
         UNCHANGED <<inlet, queueing, log, past, cursor>>,
         ~IsReplay(Head(batch)) => Structure(doc') = Structure(doc) /\ doc'.nodes = doc.nodes,
         IsReplay(Head(batch)) => Effect(Head(batch), Structure(doc), Structure(doc')),
         0 \notin rejected'
  PROVE  CleanInv'
<1> DEFINE o == Head(batch)
<1>1. /\ batch \in Seq(AllOps) /\ o \in AllOps
      /\ Len(log) \in Nat /\ cursor \in Nat /\ cursor <= Len(log)
  <2>1. batch \in Seq(AllOps)
    BY UndoTypes
  <2> QED  BY <2>1, UndoTypes, HeadTailProperties
<1>2. CASE cursor = Len(log)
  <2>1. Untouched
    BY <1>2 DEF CleanInv
  <2>2. Users(Tail(batch)) /\ ~IsReplay(o)
    BY <1>1, <2>1, UsersTail DEF Untouched
  <2>3. Untouched'
    BY <2>1, <2>2 DEF Untouched, Users, Unique
  <2> QED  BY <1>1, <1>2, <2>3 DEF CleanInv, Chained
<1>3. CASE cursor < Len(log)
  <2> DEFINE z == Structure(past[cursor + 1])
  <2>1. PICK k, m : Path(batch, Structure(doc), k) /\ Path(inlet, k, m) /\ Path(queueing, m, z)
    BY <1>3 DEF CleanInv, Leads
  <2>2. PICK y : Step(o, Structure(doc), y) /\ Path(Tail(batch), y, k)
    BY <1>1, <2>1, PathHead
  <2>3. y = Structure(doc')
    BY <2>2, EffectUnique DEF Step
  <2> HIDE DEF z
  <2>4. \E k1, m1 : Path(batch', Structure(doc'), k1) /\ Path(inlet', k1, m1) /\ Path(queueing', m1, z)
    BY <2>1, <2>2, <2>3
  <2>5. Structure(past'[cursor' + 1]) = z
    BY DEF z
  <2>6. Leads(z)'
    BY <2>4, <2>5 DEF Leads, z
  <2> QED  BY <1>1, <1>3, <2>6 DEF CleanInv, Chained, z
<1> QED  BY <1>1, <1>2, <1>3

\* An edit of a user, logged with its inverse.
LEMMA CleanEdit ==
  ASSUME TypeOK, CleanInv, batch # << >>, batch' = Tail(batch), clean',
         UNCHANGED <<inlet, queueing, rejected>>,
         Edits(Head(batch)), ~IsReplay(Head(batch))
  PROVE  CleanInv'
<1> DEFINE o == Head(batch)
<1>1. /\ batch \in Seq(AllOps) /\ o \in AllOps
      /\ Len(log) \in Nat /\ cursor \in Nat /\ cursor <= Len(log)
  <2>1. batch \in Seq(AllOps)
    BY UndoTypes
  <2> QED  BY <2>1, UndoTypes, HeadTailProperties
<1>2. cursor = Len(log)
  BY DEF Edits, SetScalar, SetArray, AddNode, RemoveNode, AddEdge, RemoveEdge, Record
<1>3. Untouched
  BY <1>2 DEF CleanInv
<1>4. PICK inverse : /\ Logs(o, inverse) /\ Unique(doc'.nodes)
                     /\ BackPath(inverse, Structure(doc'), Structure(doc))
  BY <1>1, <1>3, EditLeadsBack DEF Untouched
<1> DEFINE e == [op |-> o, inverse |-> inverse]
<1>5. log' = Append(log, e) /\ cursor' = Len(log) + 1 /\ past' = Append(past, doc)
  BY <1>4 DEF Logs
<1>6. e.inverse = inverse
  OBVIOUS
<1> HIDE DEF e
<1>7. /\ Len(log') = Len(log) + 1 /\ log'[Len(log) + 1] = e
      /\ \A i \in 1..Len(log) : log'[i] = log[i]
  BY <1>5 DEF TypeOK
<1>8. /\ past'[Len(log) + 1] = doc
      /\ \A i \in 1..Len(log) : past'[i] = past[i]
  <2>1. past \in Seq(Document) /\ Len(past) = Len(log)
    BY DEF TypeOK
  <2> QED  BY <1>5, <2>1
<1>9. Untouched'
  <2>1. BackPath(log'[cursor'].inverse, Structure(doc'), Structure(past'[cursor']))
    BY <1>4, <1>5, <1>6, <1>7, <1>8
  <2>2. Users(Tail(batch))
    BY <1>1, <1>3, UsersTail DEF Untouched
  <2> QED  BY <1>3, <1>4, <2>1, <2>2 DEF Untouched, Users, Unique
<1>10. Chained(log', past')
  <2> SUFFICES ASSUME NEW i \in 1..(Len(log') - 1)
               PROVE  BackPath(log'[i].inverse, Structure(past'[i + 1]), Structure(past'[i]))
    BY DEF Chained
  <2>1. i \in 1..Len(log) /\ log'[i] = log[i] /\ past'[i] = past[i]
    BY <1>1, <1>7, <1>8
  <2>2. CASE i = Len(log)
    <3>1. past'[i + 1] = doc
      BY <1>8, <2>2
    <3> QED  BY <1>2, <1>3, <2>1, <2>2, <3>1 DEF Untouched
  <2>3. CASE i # Len(log)
    <3>1. i \in 1..(Len(log) - 1) /\ i + 1 \in 1..Len(log)
      BY <1>1, <2>1, <2>3
    <3> QED  BY <1>8, <2>1, <3>1 DEF CleanInv, Chained
  <2> QED  BY <2>2, <2>3
<1>11. cursor' = Len(log')
  BY <1>5, <1>7
<1>12. ~(cursor' < Len(log'))
  BY <1>1, <1>11
<1> QED  BY <1>9, <1>10, <1>12 DEF CleanInv, Chained

\* One op of the batch: an edit or an inverse applied, or a loser.
LEMMA CleanApplyOp ==
  ASSUME TypeOK, CleanInv, clean', ApplyOp(Head(batch))
  PROVE  CleanInv'
<1> DEFINE o == Head(batch)
<1>1. /\ batch # << >> /\ batch' = Tail(batch) /\ UNCHANGED <<inlet, queueing>>
  BY DEF ApplyOp, Takes, applyrest
<1>2. o \in AllOps
  <2>1. batch \in Seq(AllOps)
    BY UndoTypes
  <2> QED  BY <1>1, <2>1, HeadTailProperties
<1>3. CASE Edits(o)
  <2>1. rejected' = rejected
    BY <1>3 DEF Edits, SetScalar, SetArray, AddNode, RemoveNode, AddEdge, RemoveEdge, Restructure
  <2>2. CASE ~IsReplay(o)
    BY <1>1, <1>3, <2>1, <2>2, CleanEdit
  <2>3. CASE IsReplay(o)
    <3>1. UNCHANGED <<log, past, cursor>>
      BY <1>3, <2>3 DEF Edits, SetScalar, SetArray, AddNode, RemoveNode, AddEdge, RemoveEdge, Record, auxvars
    <3>2. Effect(o, Structure(doc), Structure(doc'))
      BY <1>2, <1>3, EditEffect
    <3>3. 0 \notin rejected'
      BY <2>1 DEF CleanInv
    <3> QED  BY <1>1, <2>3, <3>1, <3>2, <3>3, CleanConsume
  <2> QED  BY <2>2, <2>3
<1>4. CASE Reject(o)
  <2>1. Loses(o) /\ rejected' = rejected \cup {o.tag} /\ UNCHANGED <<log, past, cursor, doc>>
    BY <1>4 DEF Reject, auxvars
  <2>2. ~IsReplay(o)
    <3> SUFFICES ASSUME IsReplay(o) PROVE FALSE
      OBVIOUS
    <3>1. cursor < Len(log)
      BY <1>1, ReplayedOrNot
    <3>2. PICK k : Path(batch, Structure(doc), k)
      BY <3>1 DEF CleanInv, Leads
    <3>3. batch \in Seq(AllOps)
      BY UndoTypes
    <3>4. PICK y : Step(o, Structure(doc), y)
      BY <1>1, <3>2, <3>3, PathHead
    <3>5. Effect(o, Structure(doc), y)
      BY <3>4 DEF Step
    <3> QED  BY <2>1, <3>5, LoserHasNone
  <2>3. 0 \notin rejected'
    BY <2>1, <2>2 DEF CleanInv, IsReplay
  <2> QED  BY <1>1, <2>1, <2>2, <2>3, CleanConsume
<1> QED  BY <1>3, <1>4 DEF ApplyOp, Edits

\* A literal that does not parse takes only itself out of the batch.
LEMMA CleanParseThrows ==
  ASSUME TypeOK, CleanInv, ParseThrows(Head(batch))
  PROVE  CleanInv'
<1> DEFINE o == Head(batch)
<1>1. /\ batch # << >> /\ batch' = Tail(batch)
      /\ UNCHANGED <<inlet, queueing, log, past, cursor, doc, rejected>>
      /\ o.op = "set_param"
  BY DEF ParseThrows, Takes, docvars, auxvars
<1>2. Effect(o, Structure(doc), Structure(doc'))
  BY <1>1 DEF Effect, IsParam
<1>3. 0 \notin rejected'
  BY <1>1 DEF CleanInv
<1> QED  BY <1>1, <1>2, <1>3, CleanConsume

\* At first nothing was undone.
LEMMA UndoInit == Init => UndoInv
<1> SUFFICES ASSUME Init PROVE UndoInv
  OBVIOUS
<1>1. Typed
  BY TypedInit
<1>2. /\ log = << >> /\ batch = << >> /\ inlet = << >> /\ rejected = {} /\ cursor = 0
      /\ queueing = << >> /\ (clean => Unique(doc.nodes))
  BY DEF Init, Unique
<1>3. Len(log) = 0
  BY <1>2
<1>4. Users(batch) /\ Users(inlet) /\ Chained(log, past)
  BY <1>2, <1>3 DEF Users, Chained
<1> QED  BY <1>1, <1>2, <1>3, <1>4 DEF UndoInv, CleanInv, Untouched

\* No step breaks the way back.
LEMMA UndoNext ==
  ASSUME UndoInv, [Next]_vars
  PROVE  UndoInv'
<1>0. Typed /\ Typed' /\ TypeOK
  BY TypedNext DEF UndoInv, Typed
<1>1. CASE \E g \in BOOLEAN : Undo(g)
  <2>1. PICK g \in BOOLEAN : Undo(g)
    BY <1>1
  <2>2. /\ pc = "idle" /\ pc' = "undo" /\ cursor > 0 /\ cursor' = cursor - 1
        /\ queueing' = Backwards(log[cursor].inverse)
        /\ UNCHANGED <<inlet, batch, doc, log, past, rejected, clean>>
    BY <2>1 DEF Undo, Revert, docvars
  <2>3. queueing = << >>
    BY <2>2 DEF UndoInv
  <2>4. clean => CleanInv'
    BY <1>0, <2>2, <2>3, CleanRevert DEF UndoInv
  <2> QED  BY <1>0, <2>2, <2>4 DEF UndoInv
<1>2. CASE UndoMore
  <2>1. /\ pc = "undo" /\ pc' = "undo" /\ cursor > 0 /\ cursor' = cursor - 1
        /\ queueing = << >> /\ queueing' = Backwards(log[cursor].inverse)
        /\ UNCHANGED <<inlet, batch, doc, log, past, rejected, clean>>
    BY <1>2 DEF UndoMore, Revert, docvars
  <2>2. clean => CleanInv'
    BY <1>0, <2>1, CleanRevert DEF UndoInv
  <2> QED  BY <1>0, <2>1, <2>2 DEF UndoInv
<1>3. CASE PushInverse
  <2>1. pc = "undo" /\ pc' = pc /\ clean' = clean
    BY <1>3 DEF PushInverse, auxvars
  <2> QED  BY <1>0, <1>3, <2>1, CleanPush DEF UndoInv
<1>4. CASE Submit
  <2>1. UNCHANGED <<pc, queueing, clean>>
    BY <1>4 DEF Submit, planvars, auxvars
  <2> QED  BY <1>0, <1>4, <2>1, CleanSubmit DEF UndoInv
<1>5. CASE Drain
  <2>1. pc = "idle" /\ pc' = "apply" /\ UNCHANGED <<queueing, clean>>
    BY <1>5 DEF Drain, auxvars
  <2>2. batch = << >>
    BY <1>0, <2>1 DEF Typed
  <2> QED  BY <1>0, <1>5, <2>1, <2>2, CleanDrain DEF UndoInv
<1>6. CASE Apply
  <2>1. CASE ApplyOp(Head(batch))
    <3>1. pc = "apply" /\ pc' = pc /\ queueing' = queueing
      BY <2>1 DEF ApplyOp, Takes, applyrest
    <3>2. clean' => clean
      BY <2>1 DEF ApplyOp, SetScalar, SetArray, AddNode, RemoveNode, AddEdge, RemoveEdge, Reject,
                  Record, auxvars
    <3> QED  BY <1>0, <2>1, <3>1, <3>2, CleanApplyOp DEF UndoInv
  <2>2. CASE ParseThrows(Head(batch))
    <3>1. pc = "apply" /\ pc' = "thrown" /\ UNCHANGED <<queueing, clean>>
      BY <2>2 DEF ParseThrows, Takes, auxvars
    <3> QED  BY <1>0, <2>2, <3>1, CleanParseThrows DEF UndoInv
  <2> QED  BY <1>6, <2>1, <2>2 DEF Apply
<1>7. CASE UndoReturns \/ Process \/ Rebuild \/ RebuildThrows \/ UNCHANGED vars
  <2>1. UNCHANGED <<inlet, batch, queueing, doc, log, past, cursor, rejected, clean>>
    BY <1>7 DEF UndoReturns, Process, Rebuild, RebuildThrows, vars, planvars, docvars, auxvars
  <2>2. (pc' # "undo" => pc # "undo") \/ queueing = << >>
    BY <1>7 DEF UndoReturns, Process, Rebuild, RebuildThrows, vars, planvars
  <2>3. CleanInv' <=> CleanInv
    BY <2>1 DEF CleanInv, Untouched, Leads, Chained, Users, Unique
  <2> QED  BY <1>0, <2>1, <2>2, <2>3 DEF UndoInv
<1> QED  BY <1>1, <1>2, <1>3, <1>4, <1>5, <1>6, <1>7 DEF Next, UndoStep, PumpStep

\* Undo leads back to the structure that the undone op found: the inverses of
\* every undo and gesture, pushed one by one among the ops of other threads,
\* lead through any number of blocks to what the log recorded.
THEOREM UndoAlwaysRestores == Spec => []UndoRestoresStructure
<1>1. UndoInv => UndoRestoresStructure
  <2> SUFFICES ASSUME UndoInv, Settled, clean, cursor < Len(log)
               PROVE  Structure(doc) = Structure(past[cursor + 1])
    BY DEF UndoRestoresStructure
  <2>1. inlet = << >> /\ queueing = << >> /\ batch = << >>
    BY DEF Settled, UndoInv, Typed
  <2>2. PICK k, m : /\ Path(<< >>, Structure(doc), k) /\ Path(<< >>, k, m)
                    /\ Path(<< >>, m, Structure(past[cursor + 1]))
    BY <2>1 DEF UndoInv, CleanInv, Leads
  <2> QED  BY <2>2, PathEmpty
<1> QED  BY <1>1, UndoInit, UndoNext, PTL DEF Spec

\* In such a history none of undo's own ops loses its precondition.
THEOREM UndoOpsNeverLose == Spec => []UndoNeverLoses
<1>1. UndoInv => UndoNeverLoses
  BY DEF UndoInv, CleanInv, UndoNeverLoses
<1> QED  BY <1>1, UndoInit, UndoNext, PTL DEF Spec

===============================================================================
