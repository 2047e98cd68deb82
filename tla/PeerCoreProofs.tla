----------------------------- MODULE PeerCoreProofs -----------------------------
(***************************************************************************)
(* What the peer keeps for any ids, values, frames, ops and requests: its  *)
(* types, the end of mirroring, fresh answers, the undo target, and bursts *)
(* of edits that compose.                                                  *)
(*                                                                         *)
(* Shape says what waits in the queues and in the two program counters,    *)
(* Clock how the frames written down anywhere relate to the current one.   *)
(* Each property then has an invariant of its own on top of these.         *)
(***************************************************************************)
EXTENDS PeerCore, WellFoundedInduction, TLAPS

Event == [id : Id, value : 1..MaxValue]
Edit ==
  {WholeGraph(g) : g \in Graph}
    \cup [op : {"add_node", "remove_node"}, id : Id]
    \cup [op : {"set_param"}, id : Id, value : 1..MaxValue]

HttpState ==
  {Idle} \cup [op : {"spawn", "despawn"}, uid : Uid]
    \cup [op : {"probe"}, want : Nat, since : Nat]
    \cup [op : {"shot"}, since : Nat]
    \cup [op : {"answer"}, frame : Nat, since : Nat]

EarlyInFrame == {"params", "sets", "tick"}
Collecting == {"collect", "install"}

Shape ==
  /\ render \in EarlyInFrame \cup Collecting \cup {"swap", "publish", "mirror", "drain"}
  /\ http \in HttpState
  /\ edits \in Seq(Edit) /\ batch \in Seq(Edit)
  /\ params \in Seq(Event) /\ remote_sets \in Seq(Event)
  /\ batch # << >> => render \in Collecting
  /\ composed # NoGraph <=> render = "install"

Clock ==
  /\ render # "swap" => frame > 0
  /\ values.gen <= frame /\ values.frame <= frame /\ shot.file <= frame
  /\ render \in EarlyInFrame \cup {"publish"} => values.gen < frame
  /\ \A u \in Uid : sent[u] <= frame

Typed == TypeOK /\ Shape /\ Clock

\* Nothing that was despawned is hosted or mirrored again.
Mirrors == \A u \in Uid : gone[u] # NotGone => u \notin hosted /\ sent[u] <= gone[u]

\* What a request waits for will be newer than its question.
Answers ==
  /\ AnswersAreFresh
  /\ http.op \in {"probe", "shot", "answer"} => http.since <= frame
  /\ http.op = "probe" /\ values.gen >= http.want =>
       values.frame >= http.since /\ values.frame > 0
  /\ http.op = "shot" /\ shot.done /\ shot.ok => shot.file >= http.since /\ shot.file > 0

\* The undo node's two graphs: the current one is the live one, or the one that
\* a structural swap of this frame replaced.
SameShape(g, h) == g # NoGraph /\ Structure(g) = Structure(h)
Watching ==
  /\ undo.current = NoGraph => undo.previous = NoGraph
  /\ undo.current # NoGraph =>
       \/ /\ SameShape(undo.current, active)
          /\ undo.previous # NoGraph => SameShape(before, undo.previous)
       \/ /\ render \in EarlyInFrame /\ SameShape(before, undo.current)
          /\ ~SameToUndo(undo.current, active)

\* Whether an id is in a graph, what an op makes of that, and what a queue of ops
\* does: its last op about the id decides, and without one nothing changes.
Presence(g, i) == IF g[i] = Absent THEN "out" ELSE "in"
Decides(e, i) == e.op \in {"add_node", "remove_node"} /\ e.id = i
Made(e) == IF e.op = "add_node" THEN "in" ELSE "out"
After(e, i, p) == IF Decides(e, i) THEN Made(e) ELSE p

Silent(s, i) == \A n \in DOMAIN s : ~Decides(s[n], i)
Settled(s, i, p) ==
  \E n \in DOMAIN s :
    Decides(s[n], i) /\ Made(s[n]) = p /\ \A m \in DOMAIN s : m > n => ~Decides(s[m], i)
Leaves(s, i, old, new) == Settled(s, i, new) \/ (Silent(s, i) /\ old = new)

\* The graph the next op composes on, taken through the ops on their way, has
\* the nodes of the editor's document.
Latest == IF render = "install" THEN composed ELSE Base
OnlyOps(s) == \A n \in DOMAIN s : s[n].op # "graph"
Agrees(i) ==
  \E p \in {"in", "out"} :
    Leaves(batch, i, Presence(Latest, i), p) /\ Leaves(edits, i, p, Presence(doc, i))
Composing ==
  doc # NoGraph => OnlyOps(edits) /\ OnlyOps(batch) /\ \A i \in Id : Agrees(i)

-----------------------------------------------------------------------------
(* Natural numbers                                                         *)

\* A set of naturals that is not empty has a least element.
LEMMA LeastNatural ==
  ASSUME NEW S, S \subseteq Nat, S # {}
  PROVE  \E m \in S : \A k \in S : m <= k
  <1> DEFINE R == OpToRel(<, Nat)
  <1>1. IsWellFoundedOn(R, Nat)
    BY NatLessThanWellFounded
  <1>2. \A x, y \in Nat : x < y => <<x, y>> \in R
    BY DEF OpToRel
  <1> HIDE DEF R
  <1>3. PICK m \in S : \A k \in S : <<k, m>> \notin R
    BY <1>1, WFMin
  <1>4. \A k \in S : k \in Nat /\ m \in Nat /\ ~(k < m)
    BY <1>2, <1>3
  <1>5. \A k \in S : m <= k
    BY <1>4
  <1> QED BY <1>5

\* So a set of positions of a sequence has a last one.
LEMMA LastPosition ==
  ASSUME NEW n \in Nat, NEW S, S \subseteq 1..n, S # {}
  PROVE  \E m \in S : \A k \in S : k <= m
  <1> DEFINE T == {n - k : k \in S}
  <1>1. \A k \in S : n - k \in Nat
    OBVIOUS
  <1> HIDE DEF T
  <1>2. PICK t \in T : \A k \in T : t <= k
    <2>1. T \subseteq Nat /\ T # {}
      BY <1>1 DEF T
    <2> QED BY <2>1, LeastNatural
  <1>3. PICK m \in S : t = n - m
    BY DEF T
  <1>4. \A k \in S : n - m <= n - k
    BY <1>2, <1>3 DEF T
  <1>5. \A k \in S : k <= m
    BY <1>4
  <1> QED BY <1>5

-----------------------------------------------------------------------------
(* Edits and params                                                        *)

\* An edit makes a graph of a graph.
LEMMA ApplyEditType ==
  ASSUME NEW e \in Edit, NEW g \in Graph
  PROVE  ApplyEdit(e, g) \in Graph
  <1> USE PeerNames DEF Graph, Absent, Default
  <1>1. CASE e \in {WholeGraph(h) : h \in Graph}
    BY <1>1 DEF ApplyEdit, WholeGraph
  <1>2. CASE e \in [op : {"add_node", "remove_node"}, id : Id]
    BY <1>2 DEF ApplyEdit
  <1>3. CASE e \in [op : {"set_param"}, id : Id, value : 1..MaxValue]
    <2>1. NewValue(g[e.id], e.value) \in 0..MaxValue
      BY <1>3 DEF NewValue
    <2> QED BY <1>3, <2>1 DEF ApplyEdit
  <1> QED BY <1>1, <1>2, <1>3 DEF Edit

\* Params move values and never make or remove a node.
LEMMA SetParamsKeepsStructure ==
  ASSUME NEW g \in Graph, NEW events \in Seq(Event)
  PROVE  /\ SetParams(g, events) \in Graph
         /\ Structure(SetParams(g, events)) = Structure(g)
  <1> DEFINE given(i) == {n \in DOMAIN events : events[n].id = i}
             last(i) == CHOOSE n \in given(i) : \A m \in given(i) : m <= n
             h == SetParams(g, events)
  <1>1. h = [i \in Id |-> IF given(i) = {} THEN g[i] ELSE NewValue(g[i], events[last(i)].value)]
    BY DEF SetParams
  <1>2. \A i \in Id : given(i) # {} => last(i) \in given(i)
    <2> SUFFICES ASSUME NEW i \in Id, given(i) # {} PROVE last(i) \in given(i)
      OBVIOUS
    <2>1. \E n \in given(i) : \A m \in given(i) : m <= n
      <3>1. Len(events) \in Nat /\ given(i) \subseteq 1..Len(events)
        OBVIOUS
      <3> HIDE DEF given
      <3> QED BY <3>1, LastPosition
    <2> QED BY <2>1
  <1>3. \A i \in Id : given(i) # {} => events[last(i)].value \in 1..MaxValue
    <2>1. \A n \in DOMAIN events : events[n].value \in 1..MaxValue
      <3>1. \A n \in DOMAIN events : events[n] \in Event
        OBVIOUS
      <3> QED BY <3>1 DEF Event
    <2>2. \A i \in Id : given(i) \subseteq DOMAIN events
      OBVIOUS
    <2> HIDE DEF given, last
    <2> QED BY <1>2, <2>1, <2>2
  <1> HIDE DEF given, last, h
  <1>4. \A i \in Id : h[i] \in 0..MaxValue /\ (h[i] # Absent <=> g[i] # Absent)
    BY <1>1, <1>3, PeerNames DEF NewValue, Absent, Graph
  <1>5. h \in Graph
    BY <1>1, <1>4 DEF Graph
  <1>6. Structure(h) = Structure(g)
    BY <1>4 DEF Structure
  <1> QED BY <1>5, <1>6 DEF h

-----------------------------------------------------------------------------
(* Types                                                                   *)

\* NoGraph is told from every graph.
LEMMA BaseIsGraph ==
  ASSUME TypeOK PROVE Base \in Graph
  BY NoGraphAssumption DEF TypeOK, MaybeGraph, Base

\* The first state is typed.
LEMMA InitTyped == ASSUME Init PROVE Typed
  <1> USE PeerBounds, PeerNames DEF Init
  <1>1. active \in Graph
    <2>1. InitialGraph \in Graph
      BY DEF InitialGraph, Graph, Absent, Default
    <2>2. 0 \in 0..MaxValue
      OBVIOUS
    <2> QED BY <2>1, <2>2 DEF Graph, Absent
  <1>2. TypeOK
    BY <1>1 DEF TypeOK, MaybeGraph, NotGone
  <1>3. Shape
    BY DEF Shape, HttpState
  <1>4. Clock
    BY DEF Clock, EarlyInFrame
  <1> QED BY <1>2, <1>3, <1>4 DEF Typed

\* The render thread's steps that change graphs.
LEMMA GraphStepsTyped ==
  ASSUME Typed, BeginFrame \/ ApplyParams \/ ApplyRemoteSets \/ Compose \/ Install
  PROVE  Typed'
  <1> USE PeerBounds, NoGraphAssumption DEF Typed
  <1>1. CASE BeginFrame
    <2> USE <1>1 DEF BeginFrame, Render, graphs, queues, collecting
    <2>1. TypeOK'
      BY DEF TypeOK, MaybeGraph
    <2>2. Shape'
      BY DEF Shape, EarlyInFrame, Collecting
    <2>3. Clock'
      BY DEF Clock, TypeOK, EarlyInFrame
    <2> QED BY <2>1, <2>2, <2>3
  <1>2. CASE ApplyParams \/ ApplyRemoteSets
    <2> USE <1>2 DEF ApplyParams, ApplyRemoteSets, Render, collecting, counters, aux
    <2>1. active' \in Graph
      BY SetParamsKeepsStructure DEF TypeOK, Shape
    <2>2. TypeOK'
      BY <2>1 DEF TypeOK
    <2>3. Shape'
      BY DEF Shape, EarlyInFrame, Collecting
    <2>4. Clock'
      BY DEF Clock, EarlyInFrame
    <2> QED BY <2>2, <2>3, <2>4
  <1>3. CASE Compose
    <2> USE <1>3 DEF Compose, Render, graphs, queues, counters, aux
    <2>1. Head(batch) \in Edit /\ Tail(batch) \in Seq(Edit)
      BY DEF Shape
    <2>2. composed' \in Graph
      BY <2>1, BaseIsGraph, ApplyEditType
    <2>3. TypeOK'
      BY <2>2 DEF TypeOK, MaybeGraph
    <2>4. Shape'
      BY <2>1, <2>2 DEF Shape, EarlyInFrame, Collecting
    <2>5. Clock'
      BY DEF Clock, EarlyInFrame
    <2> QED BY <2>3, <2>4, <2>5
  <1>4. CASE Install
    <2> USE <1>4 DEF Install, Render, queues, counters, aux
    <2>1. TypeOK'
      BY DEF TypeOK, MaybeGraph
    <2>2. Shape'
      BY DEF Shape, EarlyInFrame, Collecting
    <2>3. Clock'
      BY DEF Clock, EarlyInFrame
    <2> QED BY <2>1, <2>2, <2>3
  <1> QED BY <1>1, <1>2, <1>3, <1>4

\* The steps that queue an edit.
LEMMA EditStepsTyped ==
  ASSUME Typed, Gesture \/ UndoFlicks \/ PostPlugin \/ SpawnQueues \/ DespawnQueues \/ DrainEdits
  PROVE  Typed'
  <1> USE PeerBounds, PeerNames, NoGraphAssumption DEF Typed
  <1>1. CASE Gesture
    <2>1. PICK e \in Edit : edits' = Append(edits, e)
                           /\ doc' = IF doc = NoGraph THEN doc ELSE ApplyEdit(e, doc)
      <3>1. \A i \in Structure(active) : i \in Id
        BY DEF Structure
      <3> QED BY <1>1, <3>1 DEF Gesture, Edit, Id
    <2>2. doc' \in MaybeGraph
      BY <2>1, ApplyEditType DEF TypeOK, MaybeGraph
    <2> USE <1>1 DEF Gesture, graphs, collecting
    <2>3. TypeOK'
      BY <2>2 DEF TypeOK
    <2>4. Shape'
      BY <2>1 DEF Shape
    <2>5. Clock'
      BY DEF Clock
    <2> QED BY <2>3, <2>4, <2>5
  <1>2. CASE UndoFlicks
    <2> USE <1>2 DEF UndoFlicks, Render, graphs, collecting, counters
    <2>1. WholeGraph(Observe.previous) \in Edit
      BY DEF Observe, TypeOK, MaybeGraph, Edit
    <2>2. TypeOK'
      BY DEF TypeOK, MaybeGraph
    <2>3. Shape'
      BY <2>1 DEF Shape, EarlyInFrame, Collecting
    <2>4. Clock'
      BY DEF Clock, EarlyInFrame
    <2> QED BY <2>2, <2>3, <2>4
  <1>3. CASE PostPlugin \/ SpawnQueues \/ DespawnQueues
    <2> USE <1>3 DEF PostPlugin, SpawnQueues, DespawnQueues, Request, graphs, collecting, counters
    <2>1. PICK g \in Graph : edits' = Append(edits, WholeGraph(g))
      <3>1. \A u \in Uid, v \in {Absent, Default} : [active EXCEPT ![u] = v] \in Graph
        <4>1. {Absent, Default} \subseteq 0..MaxValue /\ active \in [Id -> 0..MaxValue]
          BY DEF TypeOK, Graph, Absent, Default
        <4> QED BY <4>1 DEF Graph
      <3>2. http.op \in {"spawn", "despawn"} => http.uid \in Uid
        BY DEF Shape, HttpState, Idle
      <3> QED BY <3>1, <3>2 DEF TypeOK
    <2>2. WholeGraph(g) \in Edit /\ http' \in HttpState
      BY DEF Edit, Shape, HttpState
    <2>3. TypeOK'
      BY DEF TypeOK, MaybeGraph
    <2>4. Shape'
      BY <2>1, <2>2 DEF Shape
    <2>5. Clock'
      BY DEF Clock
    <2> QED BY <2>3, <2>4, <2>5
  <1>4. CASE DrainEdits
    <2> USE <1>4 DEF DrainEdits, Render, graphs, counters, aux
    <2>1. TypeOK'
      BY DEF TypeOK
    <2>2. Shape'
      BY DEF Shape, EarlyInFrame, Collecting
    <2>3. Clock'
      BY DEF Clock, EarlyInFrame
    <2> QED BY <2>1, <2>2, <2>3
  <1> QED BY <1>1, <1>2, <1>3, <1>4

\* What a screenshot leaves in the box, taken or failed.
Shot == [wanted : BOOLEAN, done : BOOLEAN, ok : BOOLEAN, file : 0..MaxFrames]

\* A screenshot leaves the box typed, and its file from this frame or from before.
LEMMA CaptureType ==
  ASSUME NEW now \in 0..MaxFrames, NEW old \in Shot, NEW new,
         \/ new = old
         \/ \E ok \in BOOLEAN :
              new = [old EXCEPT !.done = TRUE, !.ok = ok, !.file = IF ok THEN now ELSE @]
  PROVE  new \in Shot /\ new.file \in {old.file, now}
  <1> USE PeerBounds
  <1>1. CASE new = old
    BY <1>1
  <1>2. CASE new = [old EXCEPT !.done = TRUE, !.ok = TRUE, !.file = now]
    BY <1>2 DEF Shot
  <1>3. CASE new = [old EXCEPT !.done = TRUE, !.ok = FALSE]
    BY <1>3 DEF Shot
  <1>4. [old EXCEPT !.file = old.file] = old
    BY DEF Shot
  <1>5. \/ new = [old EXCEPT !.done = TRUE, !.ok = TRUE, !.file = now]
        \/ new = [old EXCEPT !.done = TRUE, !.ok = FALSE]
        \/ new = old
    BY <1>4 DEF Shot
  <1> QED BY <1>1, <1>2, <1>3, <1>5

\* What is left of the two threads' steps.
LEMMA RestTyped ==
  ASSUME Typed,
         \/ UndoWatches \/ Publish \/ PushRemoteOuts \/ FulfilScreenshot
         \/ PostGraph \/ PostParam \/ Spawn \/ Despawn \/ SetInput
         \/ Probe \/ ProbeAnswers \/ RequestShot \/ ShotAnswers \/ TimesOut \/ Reply
  PROVE  Typed'
  <1> USE PeerBounds, NoGraphAssumption DEF Typed
  <1>0. frame <= frame
    BY DEF TypeOK
  <1>1. CASE UndoWatches \/ Publish \/ PushRemoteOuts \/ FulfilScreenshot
    <2> USE DEF UndoWatches, Publish, PushRemoteOuts, FulfilScreenshot, Render,
                graphs, queues, collecting, counters, aux
    <2>1. Shape'
      BY <1>1 DEF Shape, EarlyInFrame, Collecting
    <2>2. CASE UndoWatches
      <3>1. TypeOK'
        BY <2>2 DEF Observe, TypeOK, MaybeGraph
      <3>2. Clock'
        BY <2>2 DEF Clock, EarlyInFrame
      <3> QED BY <2>1, <3>1, <3>2
    <2>3. CASE Publish
      <3>1. values.gen \in Nat /\ values.gen < frame /\ frame \in 0..MaxFrames
        BY <2>3 DEF TypeOK, Clock, EarlyInFrame
      <3>2. TypeOK'
        <4>1. values' \in [requested : BOOLEAN, gen : 0..MaxFrames, frame : 0..MaxFrames]
          BY <2>3, <3>1 DEF TypeOK
        <4> QED BY <2>3, <4>1 DEF TypeOK
      <3>3. Clock'
        <4>1. values'.gen <= frame /\ values'.frame <= frame
          BY <2>3, <3>1 DEF TypeOK, Clock
        <4> QED BY <2>3, <4>1 DEF Clock, EarlyInFrame
      <3> QED BY <2>1, <3>2, <3>3
    <2>4. CASE PushRemoteOuts
      <3>1. sent' \in [Uid -> NotGone..MaxFrames] /\ \A u \in Uid : sent'[u] <= frame
        BY <2>4 DEF TypeOK, NotGone, Clock
      <3>2. TypeOK'
        BY <2>4, <3>1 DEF TypeOK
      <3>3. Clock'
        BY <2>4, <3>1 DEF Clock, EarlyInFrame
      <3> QED BY <2>1, <3>2, <3>3
    <2>5. CASE FulfilScreenshot
      <3>1. /\ shot' \in Shot /\ shot'.file <= frame
        <4>1. shot \in Shot /\ frame \in 0..MaxFrames
          BY DEF TypeOK, Shot
        <4>2. shot' \in Shot /\ shot'.file \in {shot.file, frame}
          BY <2>5, <4>1, CaptureType
        <4>3. shot.file <= frame
          BY DEF Clock
        <4> QED BY <1>0, <4>2, <4>3
      <3>2. TypeOK'
        BY <2>5, <3>1 DEF TypeOK, Shot
      <3>3. Clock'
        BY <2>5, <3>1 DEF Clock, EarlyInFrame
      <3> QED BY <2>1, <3>2, <3>3
    <2> QED BY <1>1, <2>2, <2>3, <2>4, <2>5
  <1>2. CASE PostGraph
    <2>1. pending' \in Graph
      <3>1. PICK kept \in SUBSET Local :
              pending' = [i \in Id |-> IF i \in kept THEN Default ELSE Absent]
        BY <1>2 DEF PostGraph
      <3>2. {Absent, Default} \subseteq 0..MaxValue
        BY PeerNames DEF Absent, Default
      <3> QED BY <3>1, <3>2 DEF Graph
    <2> USE <1>2 DEF PostGraph, Request, queues, collecting
    <2>2. TypeOK'
      BY <2>1 DEF TypeOK, MaybeGraph
    <2>3. Shape' /\ Clock'
      BY DEF Shape, Clock
    <2> QED BY <2>2, <2>3
  <1>3. CASE PostParam \/ SetInput
    <2>1. \A i \in Id : [id |-> i, value |-> MaxValue] \in Event
      BY PeerNames DEF Event
    <2>2. \/ \E e \in Event : params' = Append(params, e) /\ remote_sets' = remote_sets
          \/ \E e \in Event : remote_sets' = Append(remote_sets, e) /\ params' = params
      <3>1. CASE PostParam
        BY <2>1, <3>1 DEF PostParam, Id
      <3>2. CASE SetInput
        <4>1. PICK u \in hosted : remote_sets' = Append(remote_sets, [id |-> u, value |-> MaxValue])
          BY <3>2 DEF SetInput
        <4>2. u \in Id
          BY DEF TypeOK, Id
        <4> QED BY <2>1, <3>2, <4>1, <4>2 DEF SetInput
      <3> QED BY <1>3, <3>1, <3>2
    <2>3. params' \in Seq(Event) /\ remote_sets' \in Seq(Event)
      <3>1. params \in Seq(Event) /\ remote_sets \in Seq(Event)
        BY DEF Shape
      <3> HIDE DEF Event
      <3>2. \A s \in Seq(Event), e \in Event : Append(s, e) \in Seq(Event)
        OBVIOUS
      <3> QED BY <2>2, <3>1, <3>2
    <2> USE <1>3 DEF PostParam, SetInput, Request, graphs, collecting, aux
    <2>4. TypeOK' /\ Clock'
      BY DEF TypeOK, Clock
    <2>5. Shape'
      BY <2>3 DEF Shape
    <2> QED BY <2>4, <2>5
  <1>4. CASE Spawn \/ Despawn
    <2> USE <1>4 DEF Spawn, Despawn, Unhost, Request, graphs, queues, collecting, aux
    <2>1. http' \in HttpState
      BY DEF HttpState, TypeOK
    <2>2. hosted' \subseteq Uid /\ gone' \in [Uid -> NotGone..MaxFrames]
      BY DEF TypeOK, NotGone
    <2>3. TypeOK'
      BY <2>2 DEF TypeOK
    <2>4. Shape' /\ Clock'
      BY <2>1 DEF Shape, Clock
    <2> QED BY <2>3, <2>4
  <1>5. CASE Probe \/ ProbeAnswers \/ RequestShot \/ ShotAnswers \/ TimesOut \/ Reply
    <2> USE <1>5 DEF Probe, ProbeAnswers, RequestShot, ShotAnswers, TimesOut, Reply, WantNext,
                     Request, graphs, queues, collecting, counters, aux
    <2>1. http' \in HttpState
      BY DEF HttpState, TypeOK, Shape, Idle
    <2>2. /\ values' \in [requested : BOOLEAN, gen : 0..MaxFrames, frame : 0..MaxFrames]
          /\ values'.gen = values.gen /\ values'.frame = values.frame
      BY DEF TypeOK
    <2>3. /\ shot' \in [wanted : BOOLEAN, done : BOOLEAN, ok : BOOLEAN, file : 0..MaxFrames]
          /\ shot'.file = shot.file
      BY DEF TypeOK
    <2>4. requests' \in 0..MaxRequests
      BY DEF TypeOK
    <2>5. TypeOK'
      BY <2>2, <2>3, <2>4 DEF TypeOK
    <2>6. Shape' /\ Clock'
      BY <2>1, <2>2, <2>3 DEF Shape, Clock, TypeOK
    <2> QED BY <2>5, <2>6
  <1> QED BY <1>1, <1>2, <1>3, <1>4, <1>5

\* Every step keeps the types.
LEMMA TypedInductive == Typed /\ [Next]_vars => Typed'
  <1> SUFFICES ASSUME Typed, [Next]_vars PROVE Typed'
    OBVIOUS
  <1>1. CASE UNCHANGED vars
    BY <1>1 DEF vars, Typed, TypeOK, Shape, Clock, graphs, queues, collecting, counters, aux
  <1>2. CASE Next
    BY <1>2, GraphStepsTyped, EditStepsTyped, RestTyped
       DEF Next, RenderThread, HttpThread, CollectEdits
  <1> QED BY <1>1, <1>2

\* The variables have their types, the queues hold edits of graphs, and no frame
\* number anywhere is ahead of the frame counter.
THEOREM TypesHold == Spec => []Typed
  <1>1. Init => Typed
    BY InitTyped
  <1> QED BY <1>1, TypedInductive, PTL DEF Spec

-----------------------------------------------------------------------------
(* Mirroring                                                               *)

\* Every step but two requests and the mirror itself leaves the hosted nodes alone.
LEMMA HostedOrNot ==
  ASSUME Next
  PROVE  Spawn \/ Despawn \/ PushRemoteOuts \/ UNCHANGED <<hosted, gone, sent>>
  <1>1. CASE RenderThread
    <2>1. CASE CollectEdits
      BY <2>1 DEF CollectEdits, DrainEdits, Compose, Install, aux
    <2>2. CASE FulfilScreenshot
      <3>1. UNCHANGED <<hosted, aux>>
        BY <2>2, Zenon DEF FulfilScreenshot
      <3> QED BY <3>1 DEF aux
    <2>3. CASE UndoWatches \/ UndoFlicks \/ Gesture
      BY <2>3 DEF UndoWatches, UndoFlicks, Gesture, aux
    <2> QED BY <1>1, <2>1, <2>2, <2>3
            DEF RenderThread, BeginFrame, ApplyParams, ApplyRemoteSets, Publish, aux
  <1>2. CASE HttpThread
    <2>1. CASE RequestShot \/ ShotAnswers \/ TimesOut \/ Probe \/ ProbeAnswers \/ Reply
      BY <2>1 DEF RequestShot, ShotAnswers, TimesOut, Probe, ProbeAnswers, Reply, aux
    <2>2. CASE PostGraph \/ PostParam \/ PostPlugin \/ SpawnQueues \/ DespawnQueues \/ SetInput
      BY <2>2 DEF PostGraph, PostParam, PostPlugin, SpawnQueues, DespawnQueues, SetInput, aux
    <2> QED BY <1>2, <2>1, <2>2 DEF HttpThread
  <1> QED BY <1>1, <1>2 DEF Next

\* What was despawned is not hosted again, and so never mirrored again.
LEMMA MirrorsInductive ==
  ASSUME Typed, Mirrors, [Next]_vars
  PROVE  Mirrors'
  <1>1. CASE UNCHANGED <<hosted, gone, sent>>
    BY <1>1 DEF Mirrors
  <1>2. CASE Spawn
    BY <1>2 DEF Spawn, Known, Mirrors, aux
  <1>3. CASE Despawn
    <2>1. PICK u \in hosted : Unhost(u) /\ gone' = [gone EXCEPT ![u] = frame] /\ sent' = sent
      BY <1>3 DEF Despawn
    <2>2. gone \in [Uid -> NotGone..MaxFrames] /\ \A v \in Uid : sent[v] <= frame
      BY DEF Typed, TypeOK, Clock
    <2> QED BY <2>1, <2>2 DEF Unhost, Mirrors
  <1>4. CASE PushRemoteOuts
    BY <1>4 DEF PushRemoteOuts, Mirrors, counters
  <1>5. CASE UNCHANGED vars
    BY <1>1, <1>5 DEF vars, aux
  <1> QED BY <1>1, <1>2, <1>3, <1>4, <1>5, HostedOrNot

\* A node whose despawn was handled in some frame is mirrored in no later one,
\* however the http thread's requests interleave with the frames.
THEOREM DespawnStopsMirroring == Spec => []MirrorStops
  <1>1. Init => Typed /\ Mirrors
    BY InitTyped DEF Init, Mirrors
  <1>2. Typed /\ Mirrors /\ [Next]_vars => (Typed /\ Mirrors)'
    BY TypedInductive, MirrorsInductive
  <1>3. Typed /\ Mirrors => MirrorStops
    BY DEF Typed, Mirrors, MirrorStops
  <1> QED BY <1>1, <1>2, <1>3, PTL DEF Spec

-----------------------------------------------------------------------------
(* Answers                                                                 *)

\* The steps that answer a request, or make what answers it.
LEMMA AnswersInductive ==
  ASSUME Typed, Answers, [Next]_vars
  PROVE  Answers'
  <1> USE DEF Answers, AnswersAreFresh
  <1>0. frame \in Nat /\ frame <= frame /\ values.gen \in Nat
    BY PeerBounds DEF Typed, TypeOK
  <1>1. CASE UNCHANGED <<http, values, shot, frame>>
    BY <1>1
  <1>2. CASE BeginFrame
    <2>1. frame' = frame + 1 /\ UNCHANGED <<http, values, shot>>
      BY <1>2 DEF BeginFrame
    <2>2. http.op \in {"probe", "shot", "answer"} => http.since \in Nat
      BY DEF Typed, Shape, HttpState, Idle
    <2>3. http.op \in {"probe", "shot", "answer"} => http.since <= frame'
      BY <1>0, <2>1, <2>2
    <2> QED BY <2>1, <2>3
  <1>3. CASE Publish
    <2>1. frame > 0
      BY <1>3 DEF Publish, Render, Typed, Clock
    <2>2. CASE values' = values
      BY <1>3, <2>2 DEF Publish, counters
    <2>3. CASE values' = [requested |-> FALSE, gen |-> values.gen + 1, frame |-> frame]
      BY <1>3, <2>1, <2>3 DEF Publish, counters
    <2> QED BY <1>3, <2>2, <2>3 DEF Publish
  <1>4. CASE FulfilScreenshot
    <2>1. frame > 0 /\ UNCHANGED <<http, values, frame>>
      BY <1>4, Zenon DEF FulfilScreenshot, Render, Typed, Clock, counters
    <2>2. shot'.done /\ shot'.ok => (shot.done /\ shot.ok /\ shot'.file = shot.file) \/ shot'.file = frame
      BY <1>4 DEF FulfilScreenshot, Typed, TypeOK
    <2> QED BY <2>1, <2>2
  <1>5. CASE PostGraph \/ PostParam \/ PostPlugin \/ Spawn \/ SpawnQueues \/ Despawn \/ DespawnQueues
               \/ SetInput \/ Reply
    <2>1. UNCHANGED <<values, shot, frame>> /\ (http' = http \/ http'.op \in {"idle", "spawn", "despawn"})
      BY <1>5 DEF PostGraph, PostParam, PostPlugin, Spawn, SpawnQueues, Despawn, DespawnQueues,
                  SetInput, Reply, Request, counters, Idle
    <2> QED BY <2>1
  <1>6. CASE Probe
    <2>1. http' = [op |-> "probe", want |-> values.gen + 1, since |-> frame]
          /\ values'.gen = values.gen /\ frame' = frame
      BY <1>6 DEF Probe, WantNext, Typed, TypeOK
    <2> QED BY <1>0, <2>1
  <1>7. CASE ProbeAnswers
    BY <1>7 DEF ProbeAnswers, counters
  <1>8. CASE RequestShot
    <2>1. http' = [op |-> "shot", since |-> frame] /\ shot'.done = FALSE /\ frame' = frame
      BY <1>8 DEF RequestShot, Typed, TypeOK
    <2> QED BY <1>0, <2>1
  <1>9. CASE ShotAnswers
    BY <1>9 DEF ShotAnswers, counters, Idle
  <1>10. CASE TimesOut
    BY <1>10 DEF TimesOut, Idle
  <1>11. CASE ApplyParams \/ ApplyRemoteSets \/ Gesture \/ UndoWatches \/ UndoFlicks
                \/ PushRemoteOuts \/ CollectEdits \/ UNCHANGED vars
    <2>1. UNCHANGED <<http, values, shot, frame>>
      BY <1>11 DEF ApplyParams, ApplyRemoteSets, Gesture, UndoWatches, UndoFlicks, PushRemoteOuts,
                   CollectEdits, DrainEdits, Compose, Install, vars, counters
    <2> QED BY <1>1, <2>1
  <1> QED BY <1>2, <1>3, <1>4, <1>5, <1>6, <1>7, <1>8, <1>9, <1>10, <1>11
          DEF Next, RenderThread, HttpThread

\* A probe or a screenshot that is answered shows a frame that ended after the
\* question was asked, whatever earlier requests timed out.
THEOREM AnswersStayFresh == Spec => []AnswersAreFresh
  <1>1. Init => Typed /\ Answers
    <2>1. Init => http.op = "idle"
      BY DEF Init, Idle
    <2>2. Init => Answers
      BY <2>1 DEF Answers, AnswersAreFresh
    <2> QED BY <2>2, InitTyped
  <1>2. Typed /\ Answers /\ [Next]_vars => (Typed /\ Answers)'
    BY TypedInductive, AnswersInductive
  <1>3. Answers => AnswersAreFresh
    BY DEF Answers
  <1> QED BY <1>1, <1>2, <1>3, PTL DEF Spec

-----------------------------------------------------------------------------
(* The undo target                                                         *)

\* The undo node looks once in every frame, after the swap and the params.
LEMMA WatchingInductive ==
  ASSUME Typed, Watching, [Next]_vars
  PROVE  Watching'
  <1> USE NoGraphAssumption
  <1>0. active \in Graph /\ active # NoGraph
    BY DEF Typed, TypeOK
  <1>1. CASE UNCHANGED <<undo, active, before>> /\ (render \in EarlyInFrame => render' = render)
    BY <1>1 DEF Watching, SameShape, SameToUndo, Structure
  <1>2. CASE BeginFrame
    <2>1. undo' = undo /\ render = "swap" /\ render' = "params"
      BY <1>2 DEF BeginFrame, Render
    <2>2. undo.current # NoGraph => /\ SameShape(undo.current, active)
                                    /\ undo.previous # NoGraph => SameShape(before, undo.previous)
      BY <2>1 DEF Watching, EarlyInFrame
    <2>3. CASE UNCHANGED before /\ Structure(active') = Structure(active)
      BY <2>1, <2>2, <2>3 DEF Watching, SameShape
    <2>4. CASE before' = active /\ Structure(active') # Structure(active)
      BY <1>0, <2>1, <2>2, <2>4 DEF Watching, SameShape, SameToUndo, EarlyInFrame
    <2> QED BY <1>2, <2>3, <2>4 DEF BeginFrame, graphs
  <1>3. CASE ApplyParams \/ ApplyRemoteSets
    <2>1. Structure(active') = Structure(active)
      BY <1>3, SetParamsKeepsStructure DEF ApplyParams, ApplyRemoteSets, Typed, TypeOK, Shape
    <2>2. UNCHANGED <<undo, before>> /\ render' \in EarlyInFrame
      BY <1>3 DEF ApplyParams, ApplyRemoteSets, Render, EarlyInFrame, aux
    <2>3. render \in EarlyInFrame
      BY <1>3 DEF ApplyParams, ApplyRemoteSets, Render, EarlyInFrame
    <2> QED BY <2>1, <2>2, <2>3 DEF Watching, SameShape, SameToUndo
  <1>4. CASE UndoWatches
    <2>1. undo' = Observe /\ UNCHANGED <<active, before>>
      BY <1>4 DEF UndoWatches, graphs, aux
    <2>2. CASE undo.current = NoGraph
      BY <1>0, <2>1, <2>2 DEF Watching, Observe, SameShape
    <2>3. CASE undo.current # NoGraph /\ Structure(undo.current) = Structure(active)
      BY <1>0, <2>1, <2>3 DEF Watching, Observe, SameShape, SameToUndo
    <2>4. CASE undo.current # NoGraph /\ Structure(undo.current) # Structure(active)
      BY <1>0, <2>1, <2>4 DEF Watching, Observe, SameShape, SameToUndo
    <2> QED BY <2>2, <2>3, <2>4
  <1>5. CASE UndoFlicks
    BY <1>5 DEF UndoFlicks, Watching
  <1>6. CASE \/ Gesture \/ Publish \/ PushRemoteOuts \/ CollectEdits \/ FulfilScreenshot
             \/ UNCHANGED vars
    <2>1. CASE FulfilScreenshot
      <3>1. UNCHANGED <<undo, graphs, aux>> /\ render = "collect"
        BY <2>1, Zenon DEF FulfilScreenshot, Render
      <3> QED BY <1>1, <3>1 DEF graphs, aux, EarlyInFrame
    <2>2. CASE \/ Gesture \/ Publish \/ PushRemoteOuts \/ CollectEdits \/ UNCHANGED vars
      <3>1. UNCHANGED <<undo, active, before>> /\ (render \in EarlyInFrame => render' = render)
        BY <2>2 DEF Gesture, Publish, PushRemoteOuts, CollectEdits, DrainEdits, Compose, Install,
                    Render, EarlyInFrame, vars, graphs, aux
      <3> QED BY <1>1, <3>1
    <2> QED BY <1>6, <2>1, <2>2
  <1>7. CASE HttpThread
    <2>1. UNCHANGED <<undo, active, before, render>>
      BY <1>7 DEF HttpThread, PostGraph, PostParam, PostPlugin, Spawn, SpawnQueues, Despawn,
                  DespawnQueues, SetInput, Probe, ProbeAnswers, RequestShot, ShotAnswers, TimesOut,
                  Reply, graphs, aux
    <2> QED BY <1>1, <2>1
  <1> QED BY <1>2, <1>3, <1>4, <1>5, <1>6, <1>7 DEF Next, RenderThread

\* The undo target has the structure of the graph that the last structural swap
\* replaced, and no param event displaces it.
THEOREM UndoAimsAtLastStructure == Spec => []UndoTargetIsLastStructure
  <1>1. Init => Typed /\ Watching
    <2>1. Init => undo = [current |-> NoGraph, previous |-> NoGraph]
      BY DEF Init
    <2>2. Init => Watching
      BY <2>1 DEF Watching
    <2> QED BY <2>2, InitTyped
  <1>2. Typed /\ Watching /\ [Next]_vars => (Typed /\ Watching)'
    BY TypedInductive, WatchingInductive
  <1>3. Watching => UndoTargetIsLastStructure
    BY DEF Watching, UndoTargetIsLastStructure, SameShape, EarlyInFrame
  <1> QED BY <1>1, <1>2, <1>3, PTL DEF Spec

-----------------------------------------------------------------------------
(* Bursts of edits                                                         *)

\* What one op does to each id.
LEMMA ApplyEditPresence ==
  ASSUME NEW e \in Edit, e.op # "graph", NEW g \in Graph, NEW i \in Id
  PROVE  Presence(ApplyEdit(e, g), i) = After(e, i, Presence(g, i))
  <1> USE PeerNames DEF Graph, Absent, Default, Presence, After, Decides, Made
  <1>1. CASE e \in {WholeGraph(h) : h \in Graph}
    BY <1>1 DEF WholeGraph
  <1>2. CASE e \in [op : {"add_node", "remove_node"}, id : Id]
    BY <1>2 DEF ApplyEdit
  <1>3. CASE e \in [op : {"set_param"}, id : Id, value : 1..MaxValue]
    BY <1>3 DEF ApplyEdit, NewValue
  <1> QED BY <1>1, <1>2, <1>3 DEF Edit

\* One more op at the end of a queue.
LEMMA LeavesAppend ==
  ASSUME NEW S, NEW s \in Seq(S), NEW e \in S, NEW i, NEW old, NEW new, Leaves(s, i, old, new)
  PROVE  Leaves(Append(s, e), i, old, After(e, i, new))
  <1> DEFINE t == Append(s, e)
  <1>1. /\ Len(s) \in Nat /\ DOMAIN s = 1..Len(s) /\ DOMAIN t = 1..(Len(s) + 1)
        /\ \A n \in 1..Len(s) : t[n] = s[n]
        /\ t[Len(s) + 1] = e
    OBVIOUS
  <1> HIDE DEF t
  <1>2. CASE Decides(e, i)
    <2>1. Settled(t, i, Made(e))
      BY <1>1, <1>2 DEF Settled
    <2> QED BY <1>2, <2>1 DEF Leaves, After, t
  <1>3. CASE ~Decides(e, i)
    <2>1. \A m \in DOMAIN t : m \in DOMAIN s \/ ~Decides(t[m], i)
      BY <1>1, <1>3
    <2>2. Settled(s, i, new) => Settled(t, i, new)
      BY <1>1, <2>1 DEF Settled
    <2>3. Silent(s, i) => Silent(t, i)
      BY <1>1, <2>1 DEF Silent
    <2> QED BY <1>3, <2>2, <2>3 DEF Leaves, After, t
  <1> QED BY <1>2, <1>3

\* The first op of a queue taken off and applied.
LEMMA LeavesTail ==
  ASSUME NEW S, NEW s \in Seq(S), s # << >>, NEW i, NEW old, NEW new, Leaves(s, i, old, new)
  PROVE  Leaves(Tail(s), i, After(Head(s), i, old), new)
  <1> DEFINE t == Tail(s)
  <1>1. /\ Len(s) \in Nat \ {0} /\ DOMAIN s = 1..Len(s) /\ DOMAIN t = 1..(Len(s) - 1)
        /\ \A n \in 1..(Len(s) - 1) : t[n] = s[n + 1]
        /\ Head(s) = s[1]
    OBVIOUS
  <1> HIDE DEF t
  <1>2. CASE Silent(s, i) /\ old = new
    <2>1. Silent(t, i) /\ ~Decides(Head(s), i)
      BY <1>1, <1>2 DEF Silent
    <2> QED BY <1>2, <2>1 DEF Leaves, After, t
  <1>3. CASE Settled(s, i, new)
    <2>1. PICK n \in DOMAIN s :
            Decides(s[n], i) /\ Made(s[n]) = new /\ \A m \in DOMAIN s : m > n => ~Decides(s[m], i)
      BY <1>3 DEF Settled
    <2>2. CASE n = 1
      <3>1. Silent(t, i)
        BY <1>1, <2>1, <2>2 DEF Silent
      <3>2. After(Head(s), i, old) = new
        BY <1>1, <2>1, <2>2 DEF After
      <3> QED BY <3>1, <3>2 DEF Leaves, t
    <2>3. CASE n # 1
      <3>1. n - 1 \in DOMAIN t /\ t[n - 1] = s[n]
        BY <1>1, <2>3
      <3>2. \A m \in DOMAIN t : m > n - 1 => ~Decides(t[m], i)
        BY <1>1, <2>1
      <3>3. Settled(t, i, new)
        BY <2>1, <3>1, <3>2 DEF Settled
      <3> QED BY <3>3 DEF Leaves, t
    <2> QED BY <2>2, <2>3
  <1> QED BY <1>2, <1>3 DEF Leaves

\* An empty queue leaves everything.
LEMMA LeavesEmpty ==
  ASSUME NEW i, NEW old, NEW new
  PROVE  Leaves(<< >>, i, old, new) <=> old = new
  BY DEF Leaves, Settled, Silent

\* The same ops on a graph with the same nodes.
LEMMA ComposingKept ==
  ASSUME Composing, UNCHANGED <<doc, edits, batch>>,
         \A i \in Id : Presence(Latest, i)' = Presence(Latest, i)
  PROVE  Composing'
  <1> SUFFICES ASSUME doc # NoGraph, NEW i \in Id
               PROVE  Agrees(i)'
    BY DEF Composing, OnlyOps
  <1>1. PICK p \in {"in", "out"} :
          Leaves(batch, i, Presence(Latest, i), p) /\ Leaves(edits, i, p, Presence(doc, i))
    BY DEF Composing, Agrees
  <1>2. Presence(doc, i)' = Presence(doc, i)
    BY DEF Presence
  <1>3. /\ Leaves(batch, i, Presence(Latest, i), p)' <=> Leaves(batch, i, Presence(Latest, i), p)
        /\ Leaves(edits, i, p, Presence(doc, i))' <=> Leaves(edits, i, p, Presence(doc, i))
    BY <1>2 DEF Leaves, Settled, Silent
  <1> QED BY <1>1, <1>3 DEF Agrees

\* Every step takes the latest graph and the ops on their way along.
LEMMA ComposingInductive ==
  ASSUME Typed, Composing, [Next]_vars
  PROVE  Composing'
  <1> USE NoGraphAssumption
  <1>0. /\ active \in Graph /\ active # NoGraph /\ Base \in Graph
        /\ edits \in Seq(Edit) /\ batch \in Seq(Edit)
        /\ composed # NoGraph <=> render = "install"
        /\ batch # << >> => render \in Collecting
    BY BaseIsGraph DEF Typed, TypeOK, Shape
  <1>1. CASE UNCHANGED <<doc, edits, batch, composed, active, pending>>
               /\ (render = "install" <=> render' = "install")
    <2>1. Latest' = Latest
      BY <1>1 DEF Latest, Base
    <2> QED BY <1>1, <2>1, ComposingKept DEF Presence
  <1>2. CASE BeginFrame
    <2>1. Base' = Base /\ UNCHANGED <<doc, edits, batch>>
      BY <1>2 DEF BeginFrame, Base, graphs, queues, collecting
    <2>2. Latest' = Latest
      BY <1>2, <2>1 DEF BeginFrame, Render, Latest
    <2> QED BY <2>1, <2>2, ComposingKept DEF Presence
  <1>3. CASE ApplyParams \/ ApplyRemoteSets
    <2>1. /\ Structure(active') = Structure(active)
          /\ pending' = pending /\ render # "install" /\ render' # "install"
          /\ UNCHANGED <<doc, edits, batch>>
      BY <1>3, SetParamsKeepsStructure
         DEF ApplyParams, ApplyRemoteSets, Render, Typed, TypeOK, Shape, collecting, aux
    <2>2. \A i \in Id : active'[i] = Absent <=> active[i] = Absent
      BY <2>1 DEF Structure
    <2>3. \A i \in Id : Presence(Latest, i)' = Presence(Latest, i)
      BY <2>1, <2>2 DEF Latest, Base, Presence
    <2> QED BY <2>1, <2>3, ComposingKept
  <1>4. CASE Gesture
    <2>1. PICK e \in Edit : /\ e.op # "graph"
                            /\ edits' = Append(edits, e)
                            /\ doc' = IF doc = NoGraph THEN doc ELSE ApplyEdit(e, doc)
      <3>1. \A i \in Structure(active) : i \in Id
        BY DEF Structure
      <3> QED BY <1>4, <3>1, PeerNames DEF Gesture, Edit, Id
    <2>2. UNCHANGED <<render, active, pending, batch, composed>>
      BY <1>4 DEF Gesture, graphs, collecting
    <2>3. SUFFICES ASSUME doc' # NoGraph
                   PROVE  OnlyOps(edits') /\ OnlyOps(batch') /\ \A i \in Id : Agrees(i)'
      BY DEF Composing, OnlyOps
    <2>4. doc # NoGraph /\ doc \in Graph /\ doc' = ApplyEdit(e, doc)
      BY <2>1, <2>3 DEF Typed, TypeOK, MaybeGraph
    <2>5. OnlyOps(edits') /\ OnlyOps(batch')
      <3>1. OnlyOps(edits) /\ OnlyOps(batch)
        BY <2>4 DEF Composing
      <3>2. \A n \in DOMAIN edits' : edits'[n] = e \/ (n \in DOMAIN edits /\ edits'[n] = edits[n])
        BY <1>0, <2>1
      <3> QED BY <2>1, <2>2, <3>1, <3>2 DEF OnlyOps
    <2>6. ASSUME NEW i \in Id PROVE Agrees(i)'
      <3>1. PICK p \in {"in", "out"} :
              Leaves(batch, i, Presence(Latest, i), p) /\ Leaves(edits, i, p, Presence(doc, i))
        BY <2>4 DEF Composing, Agrees
      <3>2. Leaves(edits', i, p, After(e, i, Presence(doc, i)))
        BY <1>0, <2>1, <3>1, LeavesAppend
      <3>3. Presence(doc, i)' = After(e, i, Presence(doc, i))
        <4>1. Presence(ApplyEdit(e, doc), i) = After(e, i, Presence(doc, i))
          BY <2>1, <2>4, ApplyEditPresence
        <4> QED BY <2>4, <4>1 DEF Presence
      <3>4. Leaves(edits, i, p, Presence(doc, i))'
        BY <3>2, <3>3 DEF Leaves, Settled, Silent
      <3>5. Leaves(batch, i, Presence(Latest, i), p)'
        BY <2>2, <3>1 DEF Leaves, Settled, Silent, Latest, Base, Presence
      <3> QED BY <3>4, <3>5 DEF Agrees
    <2> QED BY <2>5, <2>6
  <1>5. CASE Compose
    <2>1. /\ batch # << >> /\ batch' = Tail(batch) /\ composed' = ApplyEdit(Head(batch), Base)
          /\ render # "install" /\ render' = "install" /\ UNCHANGED <<doc, edits>>
      BY <1>5 DEF Compose, Render, queues, aux
    <2>2. SUFFICES ASSUME doc # NoGraph
                   PROVE  OnlyOps(edits') /\ OnlyOps(batch') /\ \A i \in Id : Agrees(i)'
      BY <2>1 DEF Composing, OnlyOps
    <2>3. OnlyOps(edits') /\ OnlyOps(batch') /\ Head(batch) \in Edit /\ Head(batch).op # "graph"
      <3>1. OnlyOps(edits) /\ OnlyOps(batch)
        BY <2>2 DEF Composing
      <3>2. Head(batch) = batch[1] /\ 1 \in DOMAIN batch
        BY <1>0, <2>1
      <3>3. \A n \in DOMAIN batch' : n + 1 \in DOMAIN batch /\ batch'[n] = batch[n + 1]
        BY <1>0, <2>1
      <3> QED BY <1>0, <2>1, <3>1, <3>2, <3>3 DEF OnlyOps
    <2>4. ASSUME NEW i \in Id PROVE Agrees(i)'
      <3>1. PICK p \in {"in", "out"} :
              Leaves(batch, i, Presence(Latest, i), p) /\ Leaves(edits, i, p, Presence(doc, i))
        BY <2>2 DEF Composing, Agrees
      <3>2. Leaves(batch', i, After(Head(batch), i, Presence(Base, i)), p)
        BY <1>0, <2>1, <3>1, LeavesTail DEF Latest
      <3>3. Presence(Latest, i)' = After(Head(batch), i, Presence(Base, i))
        <4>1. Presence(ApplyEdit(Head(batch), Base), i) = After(Head(batch), i, Presence(Base, i))
          BY <1>0, <2>3, ApplyEditPresence
        <4> QED BY <2>1, <4>1 DEF Presence, Latest
      <3>4. Leaves(batch, i, Presence(Latest, i), p)'
        BY <3>2, <3>3 DEF Leaves, Settled, Silent
      <3>5. Leaves(edits, i, p, Presence(doc, i))'
        BY <2>1, <3>1 DEF Leaves, Settled, Silent, Presence
      <3> QED BY <3>4, <3>5 DEF Agrees
    <2> QED BY <2>3, <2>4
  <1>6. CASE Install
    <2>1. /\ render = "install" /\ render' # "install" /\ pending' = composed
          /\ UNCHANGED <<doc, edits, batch>>
      BY <1>6 DEF Install, Render, queues, aux
    <2>2. Latest' = Latest
      BY <1>0, <2>1 DEF Latest, Base
    <2> QED BY <2>1, <2>2, ComposingKept DEF Presence
  <1>7. CASE DrainEdits
    <2>1. /\ batch = << >> /\ batch' = edits /\ edits' = << >> /\ doc' = doc
          /\ UNCHANGED <<active, pending, composed>> /\ render # "install" /\ render' # "install"
      BY <1>0, <1>7 DEF DrainEdits, Render, Collecting, graphs, aux
    <2>2. SUFFICES ASSUME doc # NoGraph
                   PROVE  OnlyOps(edits') /\ OnlyOps(batch') /\ \A i \in Id : Agrees(i)'
      BY <2>1 DEF Composing, OnlyOps
    <2>3. OnlyOps(edits') /\ OnlyOps(batch')
      BY <2>1, <2>2 DEF Composing, OnlyOps
    <2>4. ASSUME NEW i \in Id PROVE Agrees(i)'
      <3>1. PICK p \in {"in", "out"} :
              Leaves(batch, i, Presence(Latest, i), p) /\ Leaves(edits, i, p, Presence(doc, i))
        BY <2>2 DEF Composing, Agrees
      <3>2. p = Presence(Latest, i)
        BY <2>1, <3>1, LeavesEmpty
      <3>3. Presence(Latest, i)' = Presence(Latest, i) /\ Presence(doc, i)' = Presence(doc, i)
        BY <2>1 DEF Latest, Base, Presence
      <3>4. Leaves(batch, i, Presence(Latest, i), Presence(doc, i))'
        BY <2>1, <3>1, <3>2, <3>3 DEF Leaves, Settled, Silent
      <3>5. Leaves(edits, i, Presence(doc, i), Presence(doc, i))'
        BY <2>1 DEF Leaves, Silent
      <3>6. Presence(doc, i)' \in {"in", "out"}
        BY DEF Presence
      <3> QED BY <3>4, <3>5, <3>6 DEF Agrees
    <2> QED BY <2>3, <2>4
  <1>8. CASE UndoFlicks \/ PostGraph \/ PostPlugin \/ SpawnQueues \/ DespawnQueues
    <2>1. doc' = NoGraph
      BY <1>8 DEF UndoFlicks, PostGraph, PostPlugin, SpawnQueues, DespawnQueues
    <2> QED BY <2>1 DEF Composing
  <1>9. CASE FulfilScreenshot
    <2>1. UNCHANGED <<graphs, queues, collecting, aux>> /\ render = "collect" /\ render' = "swap"
      BY <1>9, Zenon DEF FulfilScreenshot, Render
    <2> QED BY <1>1, <2>1 DEF graphs, queues, collecting, aux
  <1>10. CASE UndoWatches \/ Publish \/ PushRemoteOuts \/ UNCHANGED vars
    <2>1. UNCHANGED <<doc, edits, batch, composed, active, pending>>
            /\ (render = "install" <=> render' = "install")
      BY <1>10 DEF UndoWatches, Publish, PushRemoteOuts, Render, vars, graphs, queues, collecting, aux
    <2> QED BY <1>1, <2>1
  <1>11. CASE \/ PostParam \/ Spawn \/ Despawn \/ SetInput \/ Probe \/ ProbeAnswers
              \/ RequestShot \/ ShotAnswers \/ TimesOut \/ Reply
    <2>1. UNCHANGED <<doc, edits, batch, composed, active, pending, render>>
      BY <1>11 DEF PostParam, Spawn, Despawn, SetInput, Probe, ProbeAnswers, RequestShot,
                   ShotAnswers, TimesOut, Reply, graphs, queues, collecting, aux
    <2> QED BY <1>1, <2>1
  <1> QED BY <1>2, <1>3, <1>4, <1>5, <1>6, <1>7, <1>8, <1>9, <1>10, <1>11
          DEF Next, RenderThread, HttpThread, CollectEdits

\* A burst of ops composes: once the editor's queue, the drained batch and the
\* pending graph are empty, and unless somebody put a whole graph in between, the
\* live graph has the nodes that all ops in the order of their pushes make.
THEOREM BurstsAlwaysCompose == Spec => []BurstsCompose
  <1>1. Init => Typed /\ Composing
    <2>1. Init => /\ doc = active /\ pending = NoGraph /\ render # "install"
                  /\ edits = << >> /\ batch = << >>
      BY DEF Init
    <2>2. Init => Latest = doc
      BY <2>1 DEF Latest, Base
    <2>3. \A i : Presence(doc, i) \in {"in", "out"}
      BY DEF Presence
    <2>4. ASSUME Init, NEW i \in Id PROVE Agrees(i)
      <3>1. Leaves(<< >>, i, Presence(doc, i), Presence(doc, i))
        BY LeavesEmpty
      <3> QED BY <2>1, <2>2, <2>3, <2>4, <3>1 DEF Agrees
    <2> QED BY <2>1, <2>4, InitTyped DEF Composing, OnlyOps
  <1>2. Typed /\ Composing /\ [Next]_vars => (Typed /\ Composing)'
    BY TypedInductive, ComposingInductive
  <1>3. Typed /\ Composing => BurstsCompose
    <2> SUFFICES ASSUME Typed, Composing, Quiet, doc # NoGraph
                 PROVE  Structure(active) = Structure(doc)
      BY DEF BurstsCompose
    <2>1. edits = << >> /\ batch = << >> /\ Latest = active
      BY DEF Quiet, Typed, Shape, Latest, Base
    <2>2. \A i \in Id : Presence(active, i) = Presence(doc, i)
      BY <2>1, LeavesEmpty DEF Composing, Agrees
    <2> QED BY <2>2 DEF Presence, Structure
  <1> QED BY <1>1, <1>2, <1>3, PTL DEF Spec

=================================================================================
