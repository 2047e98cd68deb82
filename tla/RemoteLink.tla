------------------------------- MODULE RemoteLink -------------------------------
(***************************************************************************)
(* A node that lives on another peer (probe1: remote_node, ws_link, and    *)
(* the provider's half in peer_core_bridge).  The consumer's proxy asks    *)
(* for the real node, forwards its inputs and shows the outputs that the   *)
(* provider mirrors; the messages wait in an outbox while the link's       *)
(* thread dials, and a link that breaks is dialed again.                   *)
(*                                                                         *)
(* One proxy is modelled.  Its node copies its one input to its output, so *)
(* that a value can be followed there and back; inputs rise.  PeerCore has *)
(* the provider's frames and queues in full: here they matter only in that *)
(* a spawned node is not in the graph before the frame after the next      *)
(* collect_edits.  Packets of one connection arrive in order, and what is  *)
(* left of a broken one is handled before what a later one brings.         *)
(***************************************************************************)
EXTENDS Integers, Sequences, SequencesExt

CONSTANTS
  MaxInput,   \* inputs are 1..MaxInput
  MaxLinks,   \* bound on attempts; the last one holds
  MaxOuts     \* bound on mirrored values on their way

ASSUME LinkBounds == {MaxInput, MaxLinks, MaxOuts} \subseteq Nat \ {0}

VARIABLES
  proxy,      \* the proxy: "none", "live" or "gone"
  input,      \* RemoteNode.pending_: its input, or NotSet
  dirty,      \* RemoteNode.dirty_
  latest,     \* RemotePeer.latest_[uid], or None
  outbox,     \* WsLink.outbox_
  links,      \* every attempt: its state and the messages on their way
  connected,  \* WsLink.connected_
  hosted,     \* provider: the connection the node is mirrored to, or 0
  ws_outbox,  \* provider: mirrored values the http thread has not sent
  sets,       \* provider: remote_sets_
  edit,       \* provider: the graph last queued, what it holds of the node
  pending,    \* provider: the same of the graph to swap in
  node,       \* provider: the node's value in the live graph, or Absent
  in_frame,   \* provider: whether the render thread is inside a frame
  asked       \* auxiliary: the last request that nothing has taken away

consumer == <<proxy, input, dirty, latest>>
network == <<links, connected>>
queued == <<sets, edit>>
graph == <<pending, node, in_frame>>
provider == <<hosted, ws_outbox, queued, graph>>
vars == <<consumer, outbox, network, provider, asked>>

NotSet == 0
None == -1
Absent == -1
Default == 0
NoGraph == -2

SpawnMsg == [op |-> "spawn"]
SetMsg(v) == [op |-> "set", value |-> v]
DespawnMsg == [op |-> "despawn"]
Nothing == [op |-> "nothing"]

conn == Len(links)   \* the link thread keeps only its latest attempt
Changed(k, link) == links' = [links EXCEPT ![k] = link]

Init ==
  /\ proxy = "none" /\ input = NotSet /\ dirty = FALSE /\ latest = None
  /\ outbox = << >> /\ links = << >> /\ connected = FALSE
  /\ hosted = 0 /\ ws_outbox = << >> /\ sets = << >>
  /\ edit = NoGraph /\ pending = NoGraph /\ node = Absent /\ in_frame = FALSE
  /\ asked = Nothing

-----------------------------------------------------------------------------
(* The consumer's proxy                                                    *)

Create ==
  /\ proxy = "none" /\ proxy' = "live"
  /\ outbox' = Append(outbox, SpawnMsg)
  /\ asked' = SpawnMsg
  /\ UNCHANGED <<input, dirty, latest, network, provider>>

\* set_in: the same value twice is forwarded once.  What is asked of a node
\* whose output has never been seen may come too early for it.
SetIn ==
  /\ proxy = "live"
  /\ \E v \in 1..MaxInput :
       /\ v > input /\ input' = v /\ dirty' = TRUE
       /\ asked' = IF latest # None THEN SetMsg(v) ELSE asked
  /\ UNCHANGED <<proxy, latest, outbox, network, provider>>

Process ==
  /\ proxy = "live" /\ dirty
  /\ dirty' = FALSE
  /\ outbox' = Append(outbox, SetMsg(input))
  /\ UNCHANGED <<proxy, input, latest, network, provider, asked>>

Destroy ==
  /\ proxy = "live" /\ proxy' = "gone"
  /\ outbox' = Append(outbox, DespawnMsg)
  /\ latest' = None
  /\ asked' = DespawnMsg
  /\ UNCHANGED <<input, dirty, network, provider>>

-----------------------------------------------------------------------------
(* The link's thread and the network                                       *)

\* An attempt ends, one way or the other, before the next one starts.
Attempt ==
  /\ ~connected /\ conn < MaxLinks
  /\ conn > 0 => links[conn].state = "closed"
  /\ links' = Append(links, [state |-> "dialing", up |-> << >>, down |-> << >>])
  /\ UNCHANGED <<consumer, outbox, connected, provider, asked>>

Open ==
  /\ conn > 0 /\ links[conn].state = "dialing"
  /\ Changed(conn, [links[conn] EXCEPT !.state = "open"])
  /\ connected' = TRUE
  /\ UNCHANGED <<consumer, outbox, provider, asked>>

Fail ==
  /\ conn \in 1..(MaxLinks - 1) /\ links[conn].state = "dialing"
  /\ Changed(conn, [links[conn] EXCEPT !.state = "closed"])
  /\ UNCHANGED <<consumer, outbox, connected, provider, asked>>

\* Everything in the outbox is sent in one go, in the order of the sends.
Flush ==
  /\ connected /\ outbox # << >>
  /\ Changed(conn, [links[conn] EXCEPT !.up = @ \o outbox])
  /\ outbox' = << >>
  /\ UNCHANGED <<consumer, connected, provider, asked>>

\* Whether that takes what was asked: the message, or a mirror over this link.
TakenAway(kept) ==
  \/ \E n \in (kept + 1)..Len(links[conn].up) : links[conn].up[n] = asked
  \/ asked = SpawnMsg /\ ~Contains(outbox, SpawnMsg)

\* A link breaks: the end of what was on its way is lost.
Break ==
  /\ conn < MaxLinks /\ connected
  /\ \E kept \in 0..Len(links[conn].up) :
       /\ Changed(conn, [state |-> "closed", up |-> SubSeq(links[conn].up, 1, kept),
                         down |-> << >>])
       /\ asked' = IF TakenAway(kept) THEN Nothing ELSE asked
  /\ connected' = FALSE
  /\ UNCHANGED <<consumer, outbox, provider>>

\* handle: an "out" replaces what the proxy shows.
Receive ==
  /\ \E k \in 1..conn :
       /\ links[k].down # << >>
       /\ latest' = Head(links[k].down)
       /\ Changed(k, [links[k] EXCEPT !.down = Tail(@)])
  /\ UNCHANGED <<proxy, input, dirty, outbox, connected, provider, asked>>

-----------------------------------------------------------------------------
(* The provider's http thread                                              *)

\* What each message does: to the mirror, to the queued edit, to the sets.
\* Both graphs are the live one, with the node and without it.
Handled(m, k) ==
  CASE m.op = "spawn" -> hosted' = k /\ edit' = Default /\ UNCHANGED sets
    [] m.op = "set" -> sets' = Append(sets, m.value) /\ UNCHANGED <<hosted, edit>>
    [] m.op = "despawn" -> hosted' = 0 /\ edit' = Absent /\ UNCHANGED sets

\* Which message comes next, of those on their way.
Newest(up) == Len(up)
Oldest(up) == 1

HandleWs ==
  /\ \E k \in 1..conn :
       /\ links[k].up # << >>
       /\ \A j \in 1..(k - 1) : links[j].up = << >>
       /\ LET n == Oldest(links[k].up) IN
            /\ Handled(links[k].up[n], k)
            /\ Changed(k, [links[k] EXCEPT !.up = RemoveAt(@, n)])
  /\ UNCHANGED <<consumer, outbox, connected, ws_outbox, graph, asked>>

\* Values for a connection that is gone go nowhere.
SendOuts ==
  /\ ws_outbox # << >>
  /\ LET to == Head(ws_outbox).conn IN
       links' = IF links[to].state = "open"
                THEN [links EXCEPT ![to].down = Append(@, Head(ws_outbox).value)]
                ELSE links
  /\ ws_outbox' = Tail(ws_outbox)
  /\ UNCHANGED <<consumer, outbox, connected, hosted, queued, graph, asked>>

-----------------------------------------------------------------------------
(* The provider's render thread                                            *)

\* What the sets make of the node: the last one counts, if there is a node.
FirstSet(old) == IF old = Absent \/ sets = << >> THEN old ELSE Head(sets)
LastSet(old) == IF old = Absent \/ sets = << >> THEN old ELSE Last(sets)

FrameBegins ==
  /\ ~in_frame /\ in_frame' = TRUE
  /\ node' = LastSet(IF pending = NoGraph THEN node ELSE pending)
  /\ pending' = NoGraph /\ sets' = << >>
  /\ UNCHANGED <<consumer, outbox, network, hosted, ws_outbox, edit, asked>>

OnTheirWay == Len(ws_outbox) + FoldLeft(LAMBDA n, l : n + Len(l.down), 0, links)

\* push_remote_outs: a node that is both hosted and there is mirrored.
Mirrored == hosted # 0 /\ node # Absent

FrameEnds ==
  /\ in_frame /\ in_frame' = FALSE
  /\ Mirrored => OnTheirWay < MaxOuts
  /\ ws_outbox' = IF Mirrored THEN Append(ws_outbox, [conn |-> hosted, value |-> node])
                              ELSE ws_outbox
  /\ pending' = IF edit = NoGraph THEN pending ELSE edit
  /\ edit' = NoGraph
  /\ UNCHANGED <<consumer, outbox, network, hosted, sets, node, asked>>

-----------------------------------------------------------------------------
Proxy == Create \/ SetIn \/ Process \/ Destroy
LinkThread == Attempt \/ Flush
Network == Open \/ Fail \/ Break \/ Receive
HttpThread == HandleWs \/ SendOuts
RenderThread == FrameBegins \/ FrameEnds

Next == Proxy \/ LinkThread \/ Network \/ HttpThread \/ RenderThread

Spec == Init /\ [][Next]_vars

\* Both peers keep drawing frames and polling their sockets, and an attempt
\* that does not fail succeeds.
FairSpec ==
  /\ Spec
  /\ WF_vars(Process)
  /\ WF_vars(Attempt) /\ WF_vars(Flush) /\ WF_vars(Open) /\ WF_vars(Receive)
  /\ WF_vars(HandleWs) /\ WF_vars(SendOuts)
  /\ WF_vars(FrameBegins) /\ WF_vars(FrameEnds)

-----------------------------------------------------------------------------
(* Properties                                                              *)

Message == {SpawnMsg, DespawnMsg} \cup {SetMsg(v) : v \in 1..MaxInput}

\* What the consumer asked for comes about, unless a broken link took it or
\* it asks for something else: a new proxy is mirrored, a value given to a
\* proxy that is mirrored reaches the node, also over a link dialed anew, and
\* a proxy that is gone leaves no node behind.
ComesAbout(m) ==
  CASE m.op = "spawn" -> latest # None
    [] m.op = "set" -> node = m.value
    [] m.op = "despawn" -> node = Absent /\ hosted = 0

OpsLand == \A m \in Message : asked = m ~> asked # m \/ ComesAbout(m)

\* Values go there and back in order: neither the node's input nor what the
\* proxy shows of it ever falls back to an older value, whatever breaks.
NeverBackwards ==
  /\ [][node # Absent /\ node' # Absent => node' >= node]_node
  /\ [][latest # None /\ latest' # None => latest' >= latest]_latest

=================================================================================
