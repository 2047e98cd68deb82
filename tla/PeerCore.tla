-------------------------------- MODULE PeerCore --------------------------------
(***************************************************************************)
(* The running peer of probe1 (components/peer_core): a render thread that *)
(* swaps, ticks and edits the graph frame by frame, and one http thread    *)
(* that serves one request after another: graphs, params, probes,          *)
(* screenshots, and the nodes that other peers spawn here.  The editor's   *)
(* gesture nodes and the undo node run inside the tick.                    *)
(*                                                                         *)
(* Abstractions.  A graph gives every id a param value, or Absent; edges   *)
(* travel with their nodes and are left out, every type is registered, an  *)
(* id is added once.  A snapshot is the number of its frame.  The action   *)
(* of a handler is split wherever it takes a lock anew.                    *)
(***************************************************************************)
EXTENDS Integers, Sequences, SequencesExt

CONSTANTS
  Local,         \* ids of the editor's nodes
  Uid,           \* ids of the nodes other peers ask for
  MaxValue,      \* params are 1..MaxValue
  MaxFrames,     \* bound on frames
  MaxOps,        \* bound on the editor's ops
  MaxRequests,   \* bound on http requests
  ClientsPost,   \* whether clients post whole graphs
  NoGraph        \* a null graph pointer

ASSUME PeerBounds == {MaxFrames, MaxOps, MaxRequests} \subseteq Nat
ASSUME PeerNames == Local \cap Uid = {} /\ MaxValue \in Nat \ {0} /\ ClientsPost \in BOOLEAN

Absent == 0
Default == 1
Id == Local \cup Uid
Graph == [Id -> 0..MaxValue]
ASSUME NoGraphAssumption == NoGraph \notin Graph

VARIABLES
  render,        \* what the render thread does next
  http,          \* what the http thread is doing
  active, pending,             \* the live graph, the one to swap in
  edits, params, remote_sets,  \* the three event queues
  batch,         \* edits drained by collect_edits
  composed,      \* the graph collect_edits is about to install
  hosted,        \* uids mirrored to a consumer
  values,        \* requested, gen and the frame of the snapshot
  shot,          \* path (or not), done, ok, and the frame of the file
  undo,          \* UndoNode: current_ and previous_
  frame, requests, ops,        \* counters behind the bounds
  doc,           \* auxiliary: the editor's ops applied in order
  before,        \* auxiliary: the graph the last structural swap replaced
  sent, gone     \* auxiliary: frame of the last mirror and of the despawn

graphs == <<active, pending>>
queues == <<edits, params, remote_sets>>
collecting == <<batch, composed>>
counters == <<frame, requests, ops>>
aux == <<doc, before, sent, gone>>
vars == <<render, http, graphs, queues, collecting, hosted, values, shot, undo, counters, aux>>

Structure(g) == {i \in Id : g[i] # Absent}

NotGone == -1
Idle == [op |-> "idle"]
InitialGraph == [i \in Id |-> IF i \in Local THEN Default ELSE Absent]

Init ==
  /\ render = "swap" /\ http = Idle
  /\ \E empty \in Local : active = [InitialGraph EXCEPT ![empty] = Absent]
  /\ pending = NoGraph
  /\ edits = << >> /\ params = << >> /\ remote_sets = << >>
  /\ batch = << >> /\ composed = NoGraph
  /\ hosted = {}
  /\ values = [requested |-> FALSE, gen |-> 0, frame |-> 0]
  /\ shot = [wanted |-> FALSE, done |-> FALSE, ok |-> FALSE, file |-> 0]
  /\ undo = [current |-> NoGraph, previous |-> NoGraph]
  /\ frame = 0 /\ requests = 0 /\ ops = 0
  /\ doc = active /\ before = NoGraph
  /\ sent = [u \in Uid |-> 0] /\ gone = [u \in Uid |-> NotGone]

-----------------------------------------------------------------------------
(* Edits                                                                   *)

WholeGraph(g) == [op |-> "graph", graph |-> g]

\* What a param event makes of a param: nothing if no node has it.
NewValue(old, value) == IF old = Absent THEN Absent ELSE value

\* apply_edit_op and parse_graph.
ApplyEdit(e, g) ==
  CASE e.op = "graph" -> e.graph
    [] e.op = "add_node" -> [g EXCEPT ![e.id] = Default]
    [] e.op = "remove_node" -> [g EXCEPT ![e.id] = Absent]
    [] e.op = "set_param" -> [g EXCEPT ![e.id] = NewValue(@, e.value)]

\* deserialize on the nodes that exist, event after event: the last one for an id
\* stands; what names no node is dropped.
SetParams(g, events) ==
  LET given(i) == {n \in DOMAIN events : events[n].id = i}
      last(i) == CHOOSE n \in given(i) : \A m \in given(i) : m <= n
  IN  [i \in Id |-> IF given(i) = {} THEN g[i] ELSE NewValue(g[i], events[last(i)].value)]

-----------------------------------------------------------------------------
(* The render thread                                                       *)

Render(from, to) == render = from /\ render' = to

\* begin_frame.  A migrated node takes the fresh graph's params.
BeginFrame ==
  /\ Render("swap", "params")
  /\ frame < MaxFrames /\ frame' = frame + 1
  /\ IF pending = NoGraph
     THEN UNCHANGED <<graphs, before>>
     ELSE /\ active' = pending /\ pending' = NoGraph
          /\ before' = IF Structure(pending) = Structure(active) THEN before ELSE active
  /\ UNCHANGED <<http, queues, collecting, hosted, values, shot, undo, requests, ops,
                 doc, sent, gone>>

ApplyParams ==
  /\ Render("params", "sets")
  /\ active' = SetParams(active, params) /\ params' = << >>
  /\ UNCHANGED <<http, pending, edits, remote_sets, collecting, hosted, values, shot, undo,
                 counters, aux>>

ApplyRemoteSets ==
  /\ Render("sets", "tick")
  /\ active' = SetParams(active, remote_sets) /\ remote_sets' = << >>
  /\ UNCHANGED <<http, pending, edits, params, collecting, hosted, values, shot, undo,
                 counters, aux>>

\* A gesture node pushes an op in its tick.
Gesture ==
  /\ render = "tick"
  /\ ops < MaxOps /\ ops' = ops + 1
  /\ \E e \in
       {[op |-> "add_node", id |-> i] : i \in {j \in Local : active[j] = Absent}}
         \cup {[op |-> "remove_node", id |-> i] : i \in Structure(active)}
         \cup {[op |-> "set_param", id |-> i, value |-> MaxValue] : i \in Structure(active)} :
       /\ e.op = "add_node" => ~Contains(edits, e)
       /\ edits' = Append(edits, e)
       /\ doc' = IF doc = NoGraph THEN doc ELSE ApplyEdit(e, doc)
  /\ UNCHANGED <<render, http, graphs, params, remote_sets, collecting, hosted, values, shot,
                 undo, frame, requests, before, sent, gone>>

\* Whether the undo node takes a graph for a new one: by structure.
SameToUndoByValue(g, h) == g = h
SameToUndo(g, h) == Structure(g) = Structure(h)

\* UndoNode: keep the graph before the last structural change.
Observe ==
  LET changed == undo.current # NoGraph /\ ~SameToUndo(undo.current, active)
  IN  [current |-> active,
       previous |-> IF changed THEN undo.current ELSE undo.previous]

UndoWatches ==
  /\ Render("tick", "publish")
  /\ undo' = Observe
  /\ UNCHANGED <<http, graphs, queues, collecting, hosted, values, shot, counters, aux>>

\* A flick of the thumbstick posts the previous graph and starts afresh.
UndoFlicks ==
  /\ Render("tick", "publish")
  /\ Observe.previous # NoGraph
  /\ edits' = Append(edits, WholeGraph(Observe.previous))
  /\ undo' = [current |-> NoGraph, previous |-> NoGraph]
  /\ doc' = NoGraph
  /\ UNCHANGED <<http, graphs, params, remote_sets, collecting, hosted, values, shot,
                 counters, before, sent, gone>>

\* A snapshot is taken when somebody waits for one or a node is hosted.
Publish ==
  /\ Render("publish", "mirror")
  /\ values' = IF values.requested \/ hosted # {}
               THEN [requested |-> FALSE, gen |-> values.gen + 1, frame |-> frame]
               ELSE values
  /\ UNCHANGED <<http, graphs, queues, collecting, hosted, shot, undo, counters, aux>>

\* push_remote_outs: what is hosted now is mirrored.
PushRemoteOuts ==
  /\ Render("mirror", "drain")
  /\ sent' = [u \in Uid |-> IF u \in hosted THEN frame ELSE sent[u]]
  /\ UNCHANGED <<http, graphs, queues, collecting, hosted, values, shot, undo, counters,
                 doc, before, gone>>

DrainEdits ==
  /\ Render("drain", "collect")
  /\ batch' = edits /\ edits' = << >>
  /\ UNCHANGED <<http, graphs, params, remote_sets, composed, hosted, values, shot, undo,
                 counters, aux>>

\* The graph an op composes on; not simply the live one.
BaseIsActive == active
Base == IF pending = NoGraph THEN active ELSE pending

\* The base is chosen and serialized without graph_mutex_.
Compose ==
  /\ Render("collect", "install")
  /\ batch # << >>
  /\ composed' = ApplyEdit(Head(batch), Base) /\ batch' = Tail(batch)
  /\ UNCHANGED <<http, graphs, queues, hosted, values, shot, undo, counters, aux>>

Install ==
  /\ Render("install", "collect")
  /\ pending' = composed /\ composed' = NoGraph
  /\ UNCHANGED <<http, active, queues, batch, hosted, values, shot, undo, counters, aux>>

\* fulfil_screenshot, after the last edit.
FulfilScreenshot ==
  /\ Render("collect", "swap")
  /\ batch = << >>
  /\ IF shot.wanted /\ ~shot.done
     THEN \E ok \in BOOLEAN :
            shot' = [shot EXCEPT !.done = TRUE, !.ok = ok, !.file = IF ok THEN frame ELSE @]
     ELSE UNCHANGED shot
  /\ UNCHANGED <<http, graphs, queues, collecting, hosted, values, undo, counters, aux>>

CollectEdits == DrainEdits \/ Compose \/ Install

RenderThread ==
  BeginFrame \/ ApplyParams \/ ApplyRemoteSets \/ Gesture \/ UndoWatches \/ UndoFlicks
    \/ Publish \/ PushRemoteOuts \/ CollectEdits \/ FulfilScreenshot

-----------------------------------------------------------------------------
(* The http thread                                                         *)

Request == http = Idle /\ requests < MaxRequests /\ requests' = requests + 1

\* POST /graph puts its graph in place at once.
PostGraph ==
  /\ ClientsPost /\ Request
  /\ \E kept \in SUBSET Local :
       pending' = [i \in Id |-> IF i \in kept THEN Default ELSE Absent]
  /\ doc' = NoGraph
  /\ UNCHANGED <<render, http, active, queues, collecting, hosted, values, shot, undo, frame,
                 ops, before, sent, gone>>

PostParam ==
  /\ Request
  /\ \E i \in Local : params' = Append(params, [id |-> i, value |-> MaxValue])
  /\ UNCHANGED <<render, http, graphs, edits, remote_sets, collecting, hosted, values, shot,
                 undo, frame, ops, aux>>

\* POST /plugins: the running graph once more, through the new registry.
PostPlugin ==
  /\ Request
  /\ edits' = Append(edits, WholeGraph(active)) /\ doc' = NoGraph
  /\ UNCHANGED <<render, http, graphs, params, remote_sets, collecting, hosted, values, shot,
                 undo, frame, ops, before, sent, gone>>

Known == {u \in Uid : u \in hosted \/ gone[u] # NotGone}

\* spawn: the uid is hosted first, then the whole graph with it is queued.
Spawn ==
  /\ Request
  /\ \E u \in Uid \ Known : http' = [op |-> "spawn", uid |-> u] /\ hosted' = hosted \cup {u}
  /\ UNCHANGED <<render, graphs, queues, collecting, values, shot, undo, frame, ops, aux>>

SpawnQueues ==
  /\ http.op = "spawn" /\ http' = Idle
  /\ edits' = Append(edits, WholeGraph([active EXCEPT ![http.uid] = Default]))
  /\ doc' = NoGraph
  /\ UNCHANGED <<render, graphs, params, remote_sets, collecting, hosted, values, shot, undo,
                 counters, before, sent, gone>>

\* hosted_.erase, and a despawn that forgets it.
UnhostNothing(u) == UNCHANGED hosted
Unhost(u) == hosted' = hosted \ {u}

\* despawn: the uid is unhosted first.
Despawn ==
  /\ Request
  /\ \E u \in hosted :
       /\ http' = [op |-> "despawn", uid |-> u]
       /\ Unhost(u)
       /\ gone' = [gone EXCEPT ![u] = frame]
  /\ UNCHANGED <<render, graphs, queues, collecting, values, shot, undo, frame, ops, doc,
                 before, sent>>

DespawnQueues ==
  /\ http.op = "despawn" /\ http' = Idle
  /\ edits' = Append(edits, WholeGraph([active EXCEPT ![http.uid] = Absent]))
  /\ doc' = NoGraph
  /\ UNCHANGED <<render, graphs, params, remote_sets, collecting, hosted, values, shot, undo,
                 counters, before, sent, gone>>

\* set: an input a consumer forwards.
SetInput ==
  /\ Request
  /\ \E u \in hosted : remote_sets' = Append(remote_sets, [id |-> u, value |-> MaxValue])
  /\ UNCHANGED <<render, http, graphs, edits, params, collecting, hosted, values, shot, undo,
                 frame, ops, aux>>

\* The generation a probe waits for.
WantThis == values.gen
WantNext == values.gen + 1

\* probe: ask, then wait for the next snapshot or 250 ms.
Probe ==
  /\ Request
  /\ values' = [values EXCEPT !.requested = TRUE]
  /\ http' = [op |-> "probe", want |-> WantNext, since |-> frame]
  /\ UNCHANGED <<render, graphs, queues, collecting, hosted, shot, undo, frame, ops, aux>>

\* The wait ends with an answer; it stays in http until it has been sent.
ProbeAnswers ==
  /\ http.op = "probe" /\ values.gen >= http.want
  /\ http' = [op |-> "answer", frame |-> values.frame, since |-> http.since]
  /\ UNCHANGED <<render, graphs, queues, collecting, hosted, values, shot, undo, counters, aux>>

\* request_shot: ask, then wait for the capture or 2 s.
RequestShot ==
  /\ Request
  /\ http' = [op |-> "shot", since |-> frame]
  /\ shot' = [shot EXCEPT !.wanted = TRUE, !.done = FALSE]
  /\ UNCHANGED <<render, graphs, queues, collecting, hosted, values, undo, frame, ops, aux>>

ShotAnswers ==
  /\ http.op = "shot" /\ shot.done
  /\ http' = IF shot.ok THEN [op |-> "answer", frame |-> shot.file, since |-> http.since]
                        ELSE Idle
  /\ shot' = [shot EXCEPT !.wanted = FALSE]
  /\ UNCHANGED <<render, graphs, queues, collecting, hosted, values, undo, counters, aux>>

\* A probe that times out answers with the snapshot there is; a shot fails.
TimesOut ==
  /\ http.op \in {"probe", "shot"} /\ http' = Idle
  /\ http.op = "probe" => values.gen < http.want
  /\ http.op = "shot" => ~shot.done
  /\ shot' = [shot EXCEPT !.wanted = @ /\ http.op # "shot"]
  /\ UNCHANGED <<render, graphs, queues, collecting, hosted, values, undo, counters, aux>>

Reply ==
  /\ http.op = "answer" /\ http' = Idle
  /\ UNCHANGED <<render, graphs, queues, collecting, hosted, values, shot, undo, counters, aux>>

HttpThread ==
  PostGraph \/ PostParam \/ PostPlugin \/ Spawn \/ SpawnQueues \/ Despawn \/ DespawnQueues
    \/ SetInput \/ Probe \/ ProbeAnswers \/ RequestShot \/ ShotAnswers \/ TimesOut \/ Reply

-----------------------------------------------------------------------------
Next == RenderThread \/ HttpThread

Spec == Init /\ [][Next]_vars

-----------------------------------------------------------------------------
(* Properties                                                              *)

MaybeGraph == Graph \cup {NoGraph}

TypeOK ==
  /\ active \in Graph /\ pending \in MaybeGraph /\ composed \in MaybeGraph
  /\ undo \in [current : MaybeGraph, previous : MaybeGraph]
  /\ hosted \subseteq Uid
  /\ values \in [requested : BOOLEAN, gen : 0..MaxFrames, frame : 0..MaxFrames]
  /\ shot \in [wanted : BOOLEAN, done : BOOLEAN, ok : BOOLEAN, file : 0..MaxFrames]
  /\ doc \in MaybeGraph /\ before \in MaybeGraph
  /\ {sent, gone} \subseteq [Uid -> NotGone..MaxFrames]
  /\ frame \in 0..MaxFrames /\ requests \in 0..MaxRequests /\ ops \in 0..MaxOps

Quiet == edits = << >> /\ batch = << >> /\ composed = NoGraph /\ pending = NoGraph

\* "Each op sees the latest pending graph so a burst of ops composes"
\* (collect_edits): while nobody posts a whole graph, the live graph ends up
\* with what all ops in the order of their pushes make of it.
BurstsCompose ==
  Quiet /\ doc # NoGraph => Structure(active) = Structure(doc)

\* A probe that was answered reports a frame that ended after the question,
\* and a screenshot that was taken shows one, whatever timed out before.
AnswersAreFresh == http.op = "answer" => http.frame >= http.since /\ http.frame > 0

\* The undo target is the graph that the last structural swap replaced, and
\* nothing that moves a param displaces it (undo_node: "captured before each
\* edit").
UndoTargetIsLastStructure ==
  undo.previous # NoGraph /\ render \notin {"params", "sets", "tick"} =>
    before # NoGraph /\ Structure(undo.previous) = Structure(before)

\* A node whose despawn was handled in some frame is mirrored in no later one.  All
\* variables are typed.
MirrorStops == TypeOK /\ \A u \in Uid : gone[u] # NotGone => sent[u] <= gone[u]

-----------------------------------------------------------------------------
(* What comments say, and this code does not do                            *)

\* peer_core_bridge.cpp: "spawn consumer-requested nodes into the LIVE local
\* graph".
SpawnedNodesLive == Quiet /\ http = Idle => \A u \in hosted : active[u] # Absent

=================================================================================
