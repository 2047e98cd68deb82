--------------------------------- MODULE Mesh ---------------------------------
(***************************************************************************)
(* A mesh session: peers with a loopback listener and one serving thread    *)
(* each (mesh_session.cpp), the handshake and the framed channel between    *)
(* them (link.cpp), and the main thread, which runs the script's ops one    *)
(* after another and is the client of every request.                        *)
(*                                                                          *)
(* A connection is two FIFO byte streams, here of frames.  Cryptography is  *)
(* perfect: a hello is its sender's, a channel's frames arrive as they were *)
(* sent.  An object stands for its CID, and what re-hashes to a CID is that *)
(* object.                                                                  *)
(***************************************************************************)
EXTENDS Integers, FiniteSets, Sequences, SequencesExt

CONSTANTS
  Peer,
  Type,         \* node types and capabilities a run list names
  Obj,          \* objects
  Large,        \* those whose reply exceeds kMaxFrame
  EditOp,
  Take,         \* the object a derivation of a graph yields
  Sessions,     \* where the script's local ops have led: [accepted, run, stores]
  Locals,       \* further local ops of the script: [op, on, arg]
  Requests,     \* ops that go over the wire
  Probes,       \* what a raw connection sends: sequences of frames
  Order,        \* the peers in the order the household is taken down
  MaxOps,       \* bound: the length of the script
  MaxConns      \* bound on connections that are open at either end

ASSUME MeshAssumption ==
  /\ Large \subseteq Obj /\ DOMAIN Take \subseteq Obj /\ \A g \in DOMAIN Take : Take[g] \in Obj
  /\ Sessions \subseteq [accepted : [Peer -> SUBSET Peer], run : [Peer -> SUBSET Type],
                         stores : [Peer -> Seq([share : SUBSET Peer, held : SUBSET Obj])]]
  /\ \A s \in Sessions : \A p \in Peer : s.stores[p] # << >> /\ s.stores[p][1].share = Peer
  /\ MaxOps \in Nat /\ MaxConns \in Nat
  /\ Order \in Seq(Peer) /\ Order # << >> /\ ToSet(Order) = Peer

\* What a script holds: its ops name peers, objects and types, a request has a
\* candidate, and what a raw connection sends is nothing a peer has signed.
ASSUME ScriptAssumption ==
  /\ \A r \in Requests :
       /\ r.op \in {"fetch", "ops", "place", "derive", "net-pair"}
       /\ r.from \in Peer /\ r.to \in Seq(Peer) /\ r.to # << >>
       /\ r.op = "fetch" => r.arg \in Obj
       /\ r.op = "ops" => r.arg \in EditOp
       /\ r.op = "place" => r.arg \in Type
       /\ r.op = "derive" => r.arg[2] \in DOMAIN Take
       /\ r.op = "net-pair" => r.arg \in [blocks : Int, kill : Int, back : Int, events : Int]
  /\ \A l \in Locals :
       /\ l.on \in Peer
       /\ l.op \in {"pair", "revoke"} => l.arg \in Peer
       /\ l.op = "advertise" => l.arg \subseteq Type
       /\ l.op = "share-store" => l.arg \subseteq Peer
       /\ l.op = "put" => l.arg \in Obj
  /\ Probes \subseteq Seq({[type |-> "garbage"]})

VARIABLES
  accepted, run, stores,  \* peer: pairing table, run list, stores with their sharing policy
  log,                    \* arbiters: a ref's attributed op log
  instantiated,           \* the registry audit log
  memo,                   \* graphs whose derivation the peer's store remembers
  up,                     \* running, and its listener accepts
  backlog,                \* connections not yet accepted
  srv,                    \* the serving thread: where it is, and in which connection
  conns,                  \* open connections: [from, c2s, s2c, cOpen, sOpen]
  main,                   \* the main thread and the op it is in
  acked,                  \* history: the ops and the placements each peer said it took, in order
  done,                   \* ops of the script so far
  aborted                 \* an exception left a serving thread

peers == <<accepted, run, stores, log, instantiated, memo>>
vars == <<accepted, run, stores, log, instantiated, memo, up, backlog, srv, conns, main, acked, done, aborted>>

Frames == {"hello", "header", "request", "reply", "oversize", "garbage"}
Frame(type) == [type |-> type]
Request(kind, arg) == [type |-> "request", kind |-> kind, arg |-> arg]
Reply(ok, data) == [type |-> "reply", ok |-> ok, data |-> data]
None == "none"
Idle == [pc |-> "idle"]

TypeOK ==
  /\ accepted \in [Peer -> SUBSET Peer] /\ run \in [Peer -> SUBSET Type]
  /\ \A p \in Peer : stores[p] \in Seq([share : SUBSET Peer, held : SUBSET Obj])
  /\ \A p \in Peer : log[p] \in Seq([op : EditOp, author : Peer]) /\ instantiated[p] \in Seq(Type)
  /\ memo \in [Peer -> SUBSET DOMAIN Take]
  /\ up \in [Peer -> BOOLEAN]
  /\ \A p \in Peer : ToSet(backlog[p]) \subseteq DOMAIN conns
  /\ \A p \in Peer : srv[p].pc \in {"accept", "hello", "header", "serve", "blocked", "exited"}
  /\ \A p \in Peer : srv[p].pc \in {"hello", "header", "serve", "blocked"} => srv[p].conn \in DOMAIN conns
  /\ \A c \in DOMAIN conns : \A f \in ToSet(conns[c].c2s) \cup ToSet(conns[c].s2c) : f.type \in Frames
  /\ main.pc \in {"idle", "dial", "hello", "header", "reply", "probe", "stop", "join", "over"}
  /\ done \in 0..MaxOps /\ aborted \in BOOLEAN

Init ==
  /\ \E s \in Sessions : accepted = s.accepted /\ run = s.run /\ stores = s.stores
  /\ log = [p \in Peer |-> << >>] /\ instantiated = [p \in Peer |-> << >>]
  /\ memo = [p \in Peer |-> {}]
  /\ up = [p \in Peer |-> TRUE]
  /\ backlog = [p \in Peer |-> << >>]
  /\ srv = [p \in Peer |-> [pc |-> "accept", conn |-> 0]]
  /\ conns = << >>
  /\ acked = [ops |-> [p \in Peer |-> << >>], place |-> [p \in Peer |-> << >>]]
  /\ main = Idle /\ done = 0 /\ aborted = FALSE

-----------------------------------------------------------------------------
(* Streams                                                                 *)

Unused == CHOOSE c \in 1..(Cardinality(DOMAIN conns) + 1) : c \notin DOMAIN conns

Conn(from, c2s, s2c, cOpen, sOpen) ==
  [from |-> from, c2s |-> c2s, s2c |-> s2c, cOpen |-> cOpen, sOpen |-> sOpen]

\* A connection is forgotten once both ends are closed.
Updated(c, conn) ==
  IF conn.cOpen \/ conn.sOpen THEN [conns EXCEPT ![c] = conn]
  ELSE [d \in DOMAIN conns \ {c} |-> conns[d]]

FromClient(p) == conns[srv[p].conn].c2s
Arrived(p, type) == FromClient(p) # << >> /\ Head(FromClient(p)).type = type
ClientGone(p) == FromClient(p) = << >> /\ ~conns[srv[p].conn].cOpen

\* What the server of p does to its connection and then does next.
ServerTakes(p, answer, pc) ==
  /\ conns' = [conns EXCEPT ![srv[p].conn] =
                 Conn(@.from, Tail(@.c2s), @.s2c \o answer, @.cOpen, @.sOpen)]
  /\ srv' = [srv EXCEPT ![p].pc = pc]
ServerCloses(p, answer) ==
  /\ LET k == conns[srv[p].conn]
     IN  conns' = Updated(srv[p].conn, Conn(k.from, << >>, k.s2c \o answer, k.cOpen, FALSE))
  /\ srv' = [srv EXCEPT ![p] = [pc |-> IF up[p] THEN "accept" ELSE "exited", conn |-> 0]]

FromServer == conns[main.conn].s2c
Answered(type) == FromServer # << >> /\ Head(FromServer).type = type
ServerGone == FromServer = << >> /\ ~conns[main.conn].sOpen
ClientSends(frame) ==
  conns' = [conns EXCEPT ![main.conn] =
              Conn(@.from, Append(@.c2s, frame), Tail(@.s2c), @.cOpen, @.sOpen)]
ClientCloses ==
  LET k == conns[main.conn]
  IN  conns' = Updated(main.conn, Conn(k.from, k.c2s, << >>, FALSE, k.sOpen))

-----------------------------------------------------------------------------
(* The serving thread                                                      *)

Accept(p) ==
  /\ srv[p].pc = "accept"
  /\ \/ /\ up[p] /\ backlog[p] # << >>
        /\ srv' = [srv EXCEPT ![p] = [pc |-> "hello", conn |-> Head(backlog[p])]]
        /\ backlog' = [backlog EXCEPT ![p] = Tail(@)]
     \/ /\ ~up[p]               \* stop() fails the accept, and running is false
        /\ srv' = [srv EXCEPT ![p].pc = "exited"]
        /\ UNCHANGED backlog
  /\ UNCHANGED <<peers, up, conns, main, acked, aborted>>

AdmittedUnchecked(me, them) == TRUE
Admitted(me, them) == them \in accepted[me]
Admits(p) == Admitted(p, conns[srv[p].conn].from)

Greeting == <<Frame("hello")>>
Rejection == << >>

\* handshake, responder: hello after hello, then admission.
RespondHello(p) ==
  /\ srv[p].pc = "hello"
  /\ IF Arrived(p, "hello")
     THEN IF Admits(p) THEN ServerTakes(p, Greeting, "header")
          ELSE ServerCloses(p, Greeting)
     ELSE (Arrived(p, "garbage") \/ ClientGone(p)) /\ ServerCloses(p, Rejection)
  /\ UNCHANGED <<peers, up, backlog, main, acked, aborted>>

RespondHeader(p) ==
  /\ srv[p].pc = "header"
  /\ \/ Arrived(p, "header") /\ ServerTakes(p, <<Frame("header")>>, "serve")
     \/ ClientGone(p) /\ ServerCloses(p, << >>)
  /\ UNCHANGED <<peers, up, backlog, main, acked, aborted>>

Hangup(p) ==
  /\ srv[p].pc = "serve" /\ ClientGone(p)
  /\ ServerCloses(p, << >>)
  /\ UNCHANGED <<peers, up, backlog, main, acked, aborted>>

Serving(p, kind) ==
  srv[p].pc = "serve" /\ Arrived(p, "request") /\ Head(FromClient(p)).kind = kind
Asked(p) == Head(FromClient(p)).arg
Asker(p) == conns[srv[p].conn].from

HoldersAnywhere(p, key, obj) == {i \in DOMAIN stores[p] : obj \in stores[p][i].held}
Holders(p, key, obj) == {i \in DOMAIN stores[p] : key \in stores[p][i].share /\ obj \in stores[p][i].held}
Serves(p, key, obj) == Holders(p, key, obj) # {}

\* Objects enter a store, the default one first in a peer's list.
Gaining(p, i, objs) == [stores EXCEPT ![p][i].held = @ \cup objs]

\* handle FETCH.  A reply that exceeds the frame is written all the same: it is
\* buffered whole, or the thread blocks in the write.
ServeFetch(p) ==
  /\ Serving(p, "FETCH")
  /\ IF Serves(p, Asker(p), Asked(p))
     THEN IF Asked(p) \in Large
          THEN \E pc \in {"serve", "blocked"} : ServerTakes(p, <<Frame("oversize")>>, pc)
          ELSE ServerTakes(p, <<Reply(TRUE, Asked(p))>>, "serve")
     ELSE ServerTakes(p, <<Reply(FALSE, None)>>, "serve")
  /\ UNCHANGED <<peers, up, backlog, main, acked, aborted>>

\* The client reads the length, closes, and the write throws out of serve_loop.
Abort(p) ==
  /\ srv[p].pc = "blocked" /\ ~conns[srv[p].conn].cOpen
  /\ aborted' = TRUE
  /\ UNCHANGED <<peers, up, backlog, srv, conns, main, acked>>

AuthorIsHost(p) == p
Author(p) == Asker(p)
Attributed(p) == [op |-> Asked(p), author |-> Author(p)]

ServeOps(p) ==
  /\ Serving(p, "OPS")
  /\ log' = [log EXCEPT ![p] = Append(@, Attributed(p))]
  /\ ServerTakes(p, <<Reply(TRUE, None)>>, "serve")
  /\ UNCHANGED <<accepted, run, stores, instantiated, memo, up, backlog, main, acked, aborted>>

ServeHello(p) ==
  /\ Serving(p, "HELLO")
  /\ ServerTakes(p, <<Reply(TRUE, run[p])>>, "serve")
  /\ UNCHANGED <<peers, up, backlog, main, acked, aborted>>

ServePlace(p) ==
  /\ Serving(p, "PLACE")
  /\ IF Asked(p) \in run[p]
     THEN /\ instantiated' = [instantiated EXCEPT ![p] = Append(@, Asked(p))]
          /\ ServerTakes(p, <<Reply(TRUE, None)>>, "serve")
     ELSE /\ ServerTakes(p, <<Reply(FALSE, None)>>, "serve")
          /\ UNCHANGED instantiated
  /\ UNCHANGED <<accepted, run, stores, log, memo, up, backlog, main, acked, aborted>>

\* QUERY: the derivation's graph and take enter the default store; a memo hit
\* stores the graph only.
ServeQuery(p) ==
  /\ Serving(p, "QUERY")
  /\ LET type == Asked(p)[1]
         g == Asked(p)[2]
     IN  IF type \in run[p]
         THEN /\ stores' = Gaining(p, 1, {g} \cup (IF g \in memo[p] THEN {} ELSE {Take[g]}))
              /\ memo' = [memo EXCEPT ![p] = @ \cup {g}]
              /\ ServerTakes(p, <<Reply(TRUE, Take[g])>>, "serve")
         ELSE /\ ServerTakes(p, <<Reply(FALSE, None)>>, "serve")
              /\ UNCHANGED <<stores, memo>>
  /\ UNCHANGED <<accepted, run, log, instantiated, up, backlog, main, acked, aborted>>

\* OPS with net_replay: a plan of its own plays the log.  If what it reads off is not
\* a number the reply has no encoding, outside the try.
ServeReplay(p) ==
  /\ Serving(p, "REPLAY")
  /\ \/ ServerTakes(p, <<Reply(TRUE, None)>>, "serve") /\ UNCHANGED aborted
     \/ aborted' = TRUE /\ UNCHANGED <<conns, srv>>
  /\ UNCHANGED <<peers, up, backlog, main, acked>>

Serve(p) ==
  \/ Accept(p) \/ RespondHello(p) \/ RespondHeader(p) \/ Hangup(p)
  \/ ServeFetch(p) \/ ServeOps(p) \/ ServeHello(p) \/ ServePlace(p) \/ ServeQuery(p) \/ ServeReplay(p) \/ Abort(p)

-----------------------------------------------------------------------------
(* The main thread                                                         *)

\* Local ops, each under the peers' locks.
Paired(a, b) == [accepted EXCEPT ![a] = @ \cup {b}, ![b] = @ \cup {a}]
Pair(a, b) ==
  /\ main = Idle /\ a # b
  /\ accepted' = Paired(a, b)
  /\ UNCHANGED <<run, stores, log, instantiated, memo, up, backlog, srv, conns, main, acked, aborted>>

Revoke(p, of) ==
  /\ main = Idle
  /\ accepted' = [accepted EXCEPT ![p] = @ \ {of}]
  /\ UNCHANGED <<run, stores, log, instantiated, memo, up, backlog, srv, conns, main, acked, aborted>>

Advertise(p, types) ==
  /\ main = Idle
  /\ run' = [run EXCEPT ![p] = types]
  /\ UNCHANGED <<accepted, stores, log, instantiated, memo, up, backlog, srv, conns, main, acked, aborted>>

ShareStore(p, keys) ==
  /\ main = Idle /\ Len(stores[p]) = 1       \* bound: one restricted store
  /\ stores' = [stores EXCEPT ![p] = Append(@, [share |-> keys, held |-> {}])]
  /\ UNCHANGED <<accepted, run, log, instantiated, memo, up, backlog, srv, conns, main, acked, aborted>>

Put(p, i, obj) ==
  /\ main = Idle
  /\ stores' = Gaining(p, i, {obj})
  /\ UNCHANGED <<accepted, run, log, instantiated, memo, up, backlog, srv, conns, main, acked, aborted>>

\* net-pair's delivery log.  Each block posts the next event, if any is left, and
\* the latest value; while the link is down both wait.
Dropped(due) == << >>
Waiting(due) == due
Posting(n, s, i) ==
  LET linked == IF i = n.back THEN TRUE ELSE IF i = n.kill THEN FALSE ELSE s.linked
      more == IF s.posted < n.events THEN <<s.posted + 1>> ELSE << >>
      due == s.queue \o more
  IN  [linked |-> linked, posted |-> s.posted + Len(more),
       queue |-> IF linked THEN << >> ELSE Waiting(due),
       sent |-> [events |-> IF linked THEN due ELSE << >>, value |-> IF linked THEN <<i>> ELSE << >>]]
Blocks(n) ==
  LET after[k \in 0..n.blocks] ==
        IF k = 0 THEN [linked |-> TRUE, posted |-> 0, queue |-> << >>, sent |-> None]
        ELSE Posting(n, after[k - 1], k - 1)
  IN  after
DeliveryLog(n) == [k \in 1..n.blocks |-> Blocks(n)[k].sent]

\* An op over the wire: its candidates are tried in order.
Requesting(pc, op, left, conn, ask) ==
  [pc |-> pc, op |-> op, left |-> left, conn |-> conn, ask |-> ask]
StartRequest(r) ==
  /\ main = Idle
  /\ main' = Requesting("dial", r, r.to, 0,
                        CASE r.op = "fetch" -> Request("FETCH", r.arg)
                          [] r.op = "ops" -> Request("OPS", r.arg)
                          [] r.op = "place" -> Request("PLACE", r.arg)
                          [] r.op = "derive" -> Request("HELLO", None)
                          [] r.op = "net-pair" -> Request("REPLAY", DeliveryLog(r.arg)))
  /\ UNCHANGED <<peers, up, backlog, srv, conns, acked, aborted>>

To == Head(main.left)
From == main.op.from
Connects(p, from, sends) ==
  /\ Cardinality(DOMAIN conns) < MaxConns
  /\ conns' = [c \in DOMAIN conns \cup {Unused} |->
                IF c \in DOMAIN conns THEN conns[c]
                ELSE Conn(from, sends, << >>, TRUE, TRUE)]
  /\ backlog' = [backlog EXCEPT ![p] = Append(@, Unused)]

\* request: dial, handshake as initiator, one frame out, one back.
Dial ==
  /\ main.pc = "dial"
  /\ Connects(To, From, <<Frame("hello")>>)
  /\ main' = Requesting("hello", main.op, main.left, Unused, main.ask)
  /\ UNCHANGED <<peers, up, srv, acked, aborted>>

InitiateHello ==
  /\ main.pc = "hello" /\ Answered("hello") /\ Admitted(From, To)
  /\ ClientSends(Frame("header"))
  /\ main' = [main EXCEPT !.pc = "header"]
  /\ UNCHANGED <<peers, up, backlog, srv, acked, aborted>>

InitiateHeader ==
  /\ main.pc = "header" /\ Answered("header")
  /\ ClientSends(main.ask)
  /\ main' = [main EXCEPT !.pc = "reply"]
  /\ UNCHANGED <<peers, up, backlog, srv, acked, aborted>>

\* A handshake that failed on either side, and a reply that cannot be read.
NotAnswered ==
  \/ main.pc \in {"hello", "header", "reply"} /\ ServerGone
  \/ main.pc = "hello" /\ Answered("hello") /\ ~Admitted(From, To)
  \/ main.pc = "reply" /\ Answered("oversize")

Concludes(ok) ==
  /\ main' = Idle
  /\ acked' = [ops |-> IF ok /\ main.op.op = "ops"
                       THEN [acked.ops EXCEPT ![To] = Append(@, [op |-> main.op.arg, author |-> From])]
                       ELSE acked.ops,
               place |-> IF ok /\ main.op.op = "place"
                         THEN [acked.place EXCEPT ![To] = Append(@, main.op.arg)] ELSE acked.place]
TriesNext ==
  /\ main' = Requesting("dial", main.op, Tail(main.left), 0, main.ask)
  /\ UNCHANGED acked
Unwinds ==
  /\ main' = [pc |-> "stop", left |-> Order]
  /\ UNCHANGED acked
LastCandidate == Tail(main.left) = << >>

\* fetch: what re-hashes to the CID asked for is stored, not provided.
Fetched(ok, data) ==
  /\ main.op.op = "fetch"
  /\ Concludes(ok /\ data = main.op.arg)
  /\ stores' = IF ok /\ data = main.op.arg THEN Gaining(From, 1, {data}) ELSE stores
  /\ UNCHANGED <<accepted, run, log, instantiated, memo>>

Sent(ok, data) ==
  /\ main.op.op \in {"ops", "net-pair"}
  /\ Concludes(ok)
  /\ UNCHANGED peers

\* place, place-fallthrough: on to the next candidate until one accepts.
Stops(ok) == ok
Placed(ok, data) ==
  /\ main.op.op = "place"
  /\ IF Stops(ok) \/ LastCandidate THEN Concludes(ok) ELSE TriesNext
  /\ UNCHANGED peers

\* place-derivation: the first candidate that advertises the capability is asked;
\* without one the session ends in an exception.
Derived(ok, data) ==
  /\ main.op.op = "derive"
  /\ IF main.ask.kind = "QUERY" THEN Concludes(ok)
     ELSE IF ok /\ main.op.arg[1] \in data
     THEN /\ main' = Requesting("dial", main.op, <<To>>, 0, Request("QUERY", main.op.arg))
          /\ UNCHANGED acked
     ELSE IF LastCandidate THEN Unwinds ELSE TriesNext
  /\ UNCHANGED peers

Resolves(ok, data) == Fetched(ok, data) \/ Sent(ok, data) \/ Placed(ok, data) \/ Derived(ok, data)

TakeReply ==
  /\ main.pc = "reply" /\ Answered("reply")
  /\ Resolves(Head(FromServer).ok, Head(FromServer).data)
  /\ ClientCloses
  /\ UNCHANGED <<up, backlog, srv, aborted>>

Fail ==
  /\ NotAnswered
  /\ Resolves(FALSE, None)
  /\ ClientCloses
  /\ UNCHANGED <<up, backlog, srv, aborted>>

\* probe: a raw connection that sends its payload, reads once for a second at most
\* and closes.
Probe(p, payload) ==
  /\ main = Idle
  /\ Connects(p, None, payload)
  /\ main' = [pc |-> "probe", conn |-> Unused]
  /\ UNCHANGED <<peers, up, srv, acked, aborted>>

ProbeEnds ==
  /\ main.pc = "probe"
  /\ ClientCloses
  /\ main' = Idle
  /\ UNCHANGED <<peers, up, backlog, srv, acked, aborted>>

\* The end of the script, or of the stack: each listener is shut down, which
\* drops what waits there, and its thread joined.
EndScript ==
  /\ main = Idle
  /\ main' = [pc |-> "stop", left |-> Order]
  /\ UNCHANGED <<peers, up, backlog, srv, conns, acked, aborted>>

StillUp(p) == up
Down(p) == [up EXCEPT ![p] = FALSE]

Stop ==
  /\ main.pc = "stop"
  /\ up' = Down(To)
  /\ conns' = [c \in DOMAIN conns \ ToSet(backlog[To]) |-> conns[c]]
  /\ backlog' = [backlog EXCEPT ![To] = << >>]
  /\ main' = [main EXCEPT !.pc = "join"]
  /\ UNCHANGED <<peers, srv, acked, aborted>>

Join ==
  /\ main.pc = "join" /\ srv[To].pc = "exited"
  /\ main' = [pc |-> IF LastCandidate THEN "over" ELSE "stop", left |-> Tail(main.left)]
  /\ UNCHANGED <<peers, up, backlog, srv, conns, acked, aborted>>

Proceed ==
  \/ Dial \/ InitiateHello \/ InitiateHeader \/ TakeReply \/ Fail \/ ProbeEnds \/ Stop \/ Join

Op ==
  \/ \E l \in Locals :
       \/ l.op = "pair" /\ Pair(l.on, l.arg)
       \/ l.op = "revoke" /\ Revoke(l.on, l.arg)
       \/ l.op = "advertise" /\ Advertise(l.on, l.arg)
       \/ l.op = "share-store" /\ ShareStore(l.on, l.arg)
       \/ l.op = "put" /\ Put(l.on, Len(stores[l.on]), l.arg)
  \/ \E r \in Requests : StartRequest(r)
  \/ \E p \in Peer, payload \in Probes : Probe(p, payload)

Script ==
  \/ done < MaxOps /\ done' = done + 1 /\ Op
  \/ EndScript /\ UNCHANGED done

Next ==
  /\ ~aborted
  /\ \/ Script
     \/ (Proceed \/ \E p \in Peer : Serve(p)) /\ UNCHANGED done

Spec == Init /\ [][Next]_vars

\* Every thread is scheduled; the script may take its time.
FairSpec ==
  /\ Spec
  /\ WF_vars(~aborted /\ Proceed /\ UNCHANGED done)
  /\ \A p \in Peer : WF_vars(~aborted /\ Serve(p) /\ UNCHANGED done)

-----------------------------------------------------------------------------
(* Properties                                                              *)

\* mesh.design.md: a peer admits the other by its live pairing table.  Whatever is
\* handled comes from a peer that accepts its server and that its server accepts
\* at that moment, whichever side revoked in between, and however many
\* connections the server has still to hang up.
OnlyMutuallyAccepted ==
  [][\A p \in Peer : srv[p].pc = "serve" /\ Arrived(p, "request") /\ srv'[p] = srv[p] /\ conns' # conns
       => Asker(p) \in accepted[p] /\ p \in accepted[Asker(p)]]_vars

\* What a session reports is what its peers did: the op log of a peer holds the
\* acknowledged ops, in order and under their authors, and its audit log the
\* placements it accepted, and at most the one whose answer is on its way.
\* All variables are typed.
Accepting(p, op) ==
  main.pc = "reply" /\ To = p /\ main.op.op = op /\ Answered("reply") /\ Head(FromServer).ok
ReportsAreTrue ==
  TypeOK /\ \A p \in Peer :
    /\ log[p] = IF Accepting(p, "ops") THEN Append(acked.ops[p], [op |-> main.op.arg, author |-> From])
                ELSE acked.ops[p]
    /\ instantiated[p] = IF Accepting(p, "place") THEN Append(acked.place[p], main.op.arg)
                         ELSE acked.place[p]

\* MSH-8: what a request brings into a peer's default store is the object it asked
\* for, from a store of the other side that is shared with it.
FetchesAreShared ==
  [][TakeReply /\ stores' # stores =>
       LET gained == stores'[From][1].held \ stores[From][1].held
       IN  gained = {main.op.arg}
           /\ \E i \in DOMAIN stores[To] : From \in stores[To][i].share /\ gained \subseteq stores[To][i].held]_vars

\* mesh_session.cpp:417-421: across an outage no event is lost, repeated or
\* reordered, each is delivered in the first block with the link up, and every
\* such block brings its own value.
Linked(n, i) == n.kill \in 0..i => n.back \in n.kill..i
Ascending(v) == \A k, l \in 1..Len(v) : k < l => v[k] < v[l]
LogIsReliable(n, sent) ==
  LET chances(e) == {i \in (e - 1)..(n.blocks - 1) : Linked(n, i)}
      due(i) == {e \in 1..n.events : i \in chances(e) /\ \A j \in chances(e) : i <= j}
  IN  \A i \in 0..(n.blocks - 1) :
        /\ ToSet(sent[i + 1].events) = due(i) /\ Ascending(sent[i + 1].events)
        /\ sent[i + 1].value = (IF Linked(n, i) THEN <<i>> ELSE << >>)
OutageLosesNothing ==
  main.pc = "reply" /\ main.op.op = "net-pair" => LogIsReliable(main.op.arg, main.ask.arg)

\* Every op of the script ends, and so does the session: peers whose handshake
\* fails, silent probes and connections still open notwithstanding.  Only a reply
\* that cannot be sent takes the whole process down.
ScriptMovesOn == main.pc # "idle" ~> (main.pc \in {"idle", "over"} \/ aborted)
===============================================================================
