------------------------------ MODULE MeshProofs ------------------------------
(***************************************************************************)
(* What a mesh session keeps for every household, script and number of      *)
(* connections.  Only the main thread opens connections, one request at a   *)
(* time, so every request frame is in its connection: the invariant follows *)
(* that connection from the dial to the reply, step by step at both ends,   *)
(* and says of all the others that nothing a peer signed is in them.        *)
(***************************************************************************)
EXTENDS Mesh, FiniteSetTheorems, SequenceTheorems, NaturalsInduction, TLAPS

Link(k) == k.cOpen \in BOOLEAN /\ k.sOpen \in BOOLEAN

Server == [pc : {"accept", "hello", "header", "serve", "blocked", "exited"}, conn : Nat]
Busy(p) == srv[p].pc \in {"hello", "header", "serve", "blocked"}
StoreOf == [share : SUBSET Peer, held : SUBSET Obj]
Entry == [op : EditOp, author : Peer]

Shape ==
  /\ srv \in [Peer -> Server] /\ backlog \in [Peer -> Seq(Nat)]
  /\ DOMAIN conns \subseteq Nat /\ IsFiniteSet(DOMAIN conns)
  /\ \A c \in DOMAIN conns : Link(conns[c])

Kept ==
  /\ accepted \in [Peer -> SUBSET Peer] /\ run \in [Peer -> SUBSET Type]
  /\ stores \in [Peer -> Seq(StoreOf)] /\ \A p \in Peer : stores[p] # << >>
  /\ log \in [Peer -> Seq(Entry)] /\ instantiated \in [Peer -> Seq(Type)]
  /\ memo \in [Peer -> SUBSET DOMAIN Take] /\ up \in [Peer -> BOOLEAN]

\* What the server of p still has to serve: a connection has its place in one of
\* them, once, for as long as its end is open.
Holds(p) == ToSet(backlog[p]) \cup (IF Busy(p) THEN {srv[p].conn} ELSE {})
Distinct(s) == \A i, j \in 1..Len(s) : s[i] = s[j] => i = j
Wired ==
  /\ \A p \in Peer : \A c \in Holds(p) : c \in DOMAIN conns /\ conns[c].sOpen
  /\ \A p, q \in Peer : p # q => Holds(p) \cap Holds(q) = {}
  /\ \A p \in Peer : Distinct(backlog[p]) /\ (Busy(p) => srv[p].conn \notin ToSet(backlog[p]))

AskOf(op) ==
  CASE op.op = "fetch" -> {Request("FETCH", op.arg)}
    [] op.op = "ops" -> {Request("OPS", op.arg)}
    [] op.op = "place" -> {Request("PLACE", op.arg)}
    [] op.op = "derive" -> {Request("HELLO", None), Request("QUERY", op.arg)}
    [] op.op = "net-pair" -> {Request("REPLAY", DeliveryLog(op.arg))}

InRequest == main.pc \in {"dial", "hello", "header", "reply"}
Asking == main.pc \in {"hello", "header", "reply"}
Leaving == main.pc \in {"stop", "join"}
MainOK ==
  /\ main.pc \in {"idle", "dial", "hello", "header", "reply", "probe", "stop", "join", "over"}
  /\ main.pc = "idle" => main = Idle
  /\ InRequest =>
       /\ main = [pc |-> main.pc, op |-> main.op, left |-> main.left, conn |-> main.conn, ask |-> main.ask]
       /\ main.op \in Requests /\ main.left \in Seq(Peer) /\ main.left # << >>
       /\ main.ask \in AskOf(main.op)
  /\ Leaving =>
       main = [pc |-> main.pc, left |-> main.left] /\ main.left \in Seq(Peer) /\ main.left # << >>
  /\ main.pc = "probe" => main.conn \in DOMAIN conns /\ conns[main.conn].cOpen

\* No connection but the request's carries a frame of a peer.
Noise(k) == k.c2s \in Seq({Frame("garbage")}) /\ k.s2c = << >>
Quiet == \A c \in DOMAIN conns : (Asking /\ c = main.conn) \/ Noise(conns[c])

\* The request's connection, in the order of the handshake.
Carries(c2s, s2c) == conns[main.conn].c2s = c2s /\ conns[main.conn].s2c = s2c
At(pc) == srv[To] = [pc |-> pc, conn |-> main.conn]
Mutual == From \in accepted[To] /\ To \in accepted[From]
SharedWith(p, key, obj) == \E i \in DOMAIN stores[p] : key \in stores[p][i].share /\ obj \in stores[p][i].held

Calling ==
  /\ main.pc = "hello" /\ Carries(<<Frame("hello")>>, << >>)
  /\ main.conn \in ToSet(backlog[To]) \/ At("hello")
Welcomed ==
  main.pc = "hello" /\ Carries(<< >>, <<Frame("hello")>>) /\ At("header") /\ From \in accepted[To]
Refused == main.pc = "hello" /\ Carries(<< >>, <<Frame("hello")>>) /\ ~conns[main.conn].sOpen
Offering == main.pc = "header" /\ Carries(<<Frame("header")>>, << >>) /\ At("header") /\ Mutual
Unheard == main.pc = "header" /\ Carries(<<Frame("header")>>, << >>) /\ ~conns[main.conn].sOpen
Opened == main.pc = "header" /\ Carries(<< >>, <<Frame("header")>>) /\ At("serve") /\ Mutual
Requested == main.pc = "reply" /\ Carries(<<main.ask>>, << >>) /\ At("serve") /\ Mutual
Tells(f) ==
  \/ f = Frame("oversize") /\ main.op.op = "fetch"
  \/ /\ f = Reply(f.ok, f.data) /\ f.ok \in BOOLEAN
     /\ main.op.op = "fetch" /\ f.ok => SharedWith(To, From, main.op.arg)
     /\ main.op.op = "ops" => f.ok
Replied ==
  /\ main.pc = "reply" /\ Carries(<< >>, <<conns[main.conn].s2c[1]>>)
  /\ At("serve") \/ At("blocked")
  /\ Mutual /\ Tells(conns[main.conn].s2c[1])

Stage ==
  Asking =>
    /\ main.conn \in DOMAIN conns /\ conns[main.conn].from = From /\ conns[main.conn].cOpen
    /\ \/ Calling \/ Welcomed \/ Refused \/ Offering \/ Unheard \/ Opened \/ Requested \/ Replied

Books ==
  /\ acked = [ops |-> acked.ops, place |-> acked.place]
  /\ acked.ops \in [Peer -> Seq(Entry)] /\ acked.place \in [Peer -> Seq(Type)]
  /\ \A p \in Peer :
       /\ log[p] = IF Accepting(p, "ops") THEN Append(acked.ops[p], [op |-> main.op.arg, author |-> From])
                   ELSE acked.ops[p]
       /\ instantiated[p] = IF Accepting(p, "place") THEN Append(acked.place[p], main.op.arg)
                            ELSE acked.place[p]

IInv == Shape /\ Kept /\ Wired /\ MainOK /\ Quiet /\ Stage /\ Books

-----------------------------------------------------------------------------
(* Sequences without repetition, and the next connection number            *)

\* The elements of a sequence are its head and those of its tail.
LEMMA SetOfTail ==
  ASSUME NEW S, NEW s \in Seq(S), s # << >>, Distinct(s)
  PROVE  /\ Head(s) \in S /\ Tail(s) \in Seq(S)
         /\ Head(s) \in ToSet(s) /\ Head(s) \notin ToSet(Tail(s))
         /\ ToSet(s) = ToSet(Tail(s)) \cup {Head(s)}
         /\ Distinct(Tail(s))
<1>1. /\ Head(s) \in S /\ Tail(s) \in Seq(S) /\ Len(s) \in Nat /\ Len(s) > 0
      /\ Len(Tail(s)) = Len(s) - 1 /\ Head(s) = s[1]
  BY HeadTailProperties, EmptySeq, LenProperties
<1>2. \A i \in 1..Len(Tail(s)) : Tail(s)[i] = s[i + 1] /\ i + 1 \in 1..Len(s)
  BY <1>1, HeadTailProperties
<1>3. DOMAIN s = 1..Len(s) /\ DOMAIN Tail(s) = 1..Len(Tail(s))
  BY <1>1, LenProperties
<1>4. ASSUME NEW x \in ToSet(Tail(s))
      PROVE  x \in ToSet(s) /\ x # Head(s)
  <2>1. PICK i \in 1..Len(Tail(s)) : x = Tail(s)[i]
    BY <1>3 DEF ToSet
  <2>2. x = s[i + 1] /\ i + 1 \in 1..Len(s) /\ i + 1 # 1 /\ 1 \in 1..Len(s)
    BY <1>1, <1>2, <2>1
  <2> QED  BY <1>1, <1>3, <2>2 DEF ToSet, Distinct
<1>5. ASSUME NEW x \in ToSet(s), x # Head(s)
      PROVE  x \in ToSet(Tail(s))
  <2>1. PICK i \in 1..Len(s) : x = s[i]
    BY <1>3 DEF ToSet
  <2>2. i - 1 \in 1..Len(Tail(s)) /\ (i - 1) + 1 = i
    BY <1>1, <1>5, <2>1
  <2>3. x = Tail(s)[i - 1]
    BY <1>2, <2>1, <2>2
  <2> QED  BY <1>3, <2>2, <2>3 DEF ToSet
<1>6. Head(s) \in ToSet(s)
  BY <1>1, <1>3 DEF ToSet
<1>7. Distinct(Tail(s))
  <2> SUFFICES ASSUME NEW i \in 1..Len(Tail(s)), NEW j \in 1..Len(Tail(s)), Tail(s)[i] = Tail(s)[j]
               PROVE  i = j
    BY DEF Distinct
  <2>1. i + 1 = j + 1
    BY <1>2 DEF Distinct
  <2> QED  BY <1>1, <2>1
<1> QED  BY <1>1, <1>4, <1>5, <1>6, <1>7

\* A new element is appended to a sequence without repetition.
LEMMA SetOfAppend ==
  ASSUME NEW S, NEW s \in Seq(S), NEW x \in S, x \notin ToSet(s), Distinct(s)
  PROVE  /\ Append(s, x) \in Seq(S) /\ ToSet(Append(s, x)) = ToSet(s) \cup {x}
         /\ Distinct(Append(s, x))
<1> DEFINE t == Append(s, x)
<1>1. /\ t \in Seq(S) /\ Len(s) \in Nat /\ Len(t) = Len(s) + 1 /\ t[Len(s) + 1] = x
      /\ \A i \in 1..Len(s) : t[i] = s[i]
  BY AppendProperties, LenProperties
<1>2. DOMAIN s = 1..Len(s) /\ DOMAIN t = 1..Len(t)
  BY <1>1, LenProperties
<1> HIDE DEF t
<1>3. 1..Len(t) = 1..Len(s) \cup {Len(s) + 1}
  BY <1>1
<1>4. ToSet(t) = ToSet(s) \cup {x}
  BY <1>1, <1>2, <1>3 DEF ToSet
<1>5. \A i \in 1..Len(s) : s[i] # x
  BY <1>2 DEF ToSet
<1>6. Distinct(t)
  BY <1>1, <1>3, <1>5 DEF Distinct
<1> QED  BY <1>1, <1>4, <1>6 DEF t

\* There is a connection number to use.
LEMMA UnusedFresh ==
  ASSUME DOMAIN conns \subseteq Nat, IsFiniteSet(DOMAIN conns)
  PROVE  Unused \in Nat /\ Unused \notin DOMAIN conns
<1> DEFINE D == DOMAIN conns
           n == Cardinality(D)
<1>1. n \in Nat
  BY FS_CardinalityType
<1>2. IsFiniteSet(1..(n + 1)) /\ Cardinality(1..(n + 1)) = n + 1
  BY <1>1, FS_Interval
<1>3. ASSUME 1..(n + 1) \subseteq D  PROVE FALSE
  <2>1. Cardinality(1..(n + 1)) <= n
    BY <1>3, FS_Subset
  <2> QED  BY <1>1, <1>2, <2>1
<1>4. \E c \in 1..(n + 1) : c \notin DOMAIN conns
  BY <1>3
<1>5. Unused \in 1..(n + 1) /\ Unused \notin DOMAIN conns
  BY <1>4 DEF Unused
<1> QED  BY <1>1, <1>5

-----------------------------------------------------------------------------
(* What a server and the client do to their connection                     *)

\* What changing a field of a record does.
LEMMA PcOf ==
  ASSUME NEW r, NEW a, NEW b, r = [pc |-> a, conn |-> b], NEW x
  PROVE  [r EXCEPT !.pc = x] = [pc |-> x, conn |-> b]
OBVIOUS

\* The server of p answers: only its connection changes, and it stays in it.
LEMMA TakesOne ==
  ASSUME Shape, Wired, NEW p \in Peer, Busy(p), NEW answer,
         NEW pc \in {"hello", "header", "serve", "blocked"}, ServerTakes(p, answer, pc)
  PROVE  LET k == srv[p].conn
         IN  /\ k \in DOMAIN conns /\ DOMAIN conns' = DOMAIN conns
             /\ \A c \in DOMAIN conns : c # k => conns'[c] = conns[c]
             /\ conns'[k] = Conn(conns[k].from, Tail(conns[k].c2s), conns[k].s2c \o answer,
                             conns[k].cOpen, conns[k].sOpen)
             /\ srv' \in [Peer -> Server] /\ srv'[p] = [pc |-> pc, conn |-> k]
             /\ \A q \in Peer : q # p => srv'[q] = srv[q]
<1> DEFINE k == srv[p].conn
<1>1. k \in DOMAIN conns /\ Link(conns[k])
  BY DEF Wired, Holds, Shape
<1>2. srv \in [Peer -> Server] /\ srv[p] \in Server
  BY DEF Shape
<1>3. srv[p] = [pc |-> srv[p].pc, conn |-> k] /\ k \in Nat
  BY <1>2 DEF Server
<1>4. /\ srv' \in [Peer -> Server] /\ srv'[p] = [pc |-> pc, conn |-> k]
      /\ \A q \in Peer : q # p => srv'[q] = srv[q]
  <2>1. srv' = [srv EXCEPT ![p] = [pc |-> pc, conn |-> k]]
    <3>1. [srv[p] EXCEPT !.pc = pc] = [pc |-> pc, conn |-> k]
      BY <1>3, PcOf
    <3>2. srv' = [srv EXCEPT ![p] = [srv[p] EXCEPT !.pc = pc]]
      BY DEF ServerTakes
    <3> QED  BY <3>1, <3>2
  <2>2. [pc |-> pc, conn |-> k] \in Server
    BY <1>3 DEF Server
  <2> QED  BY <1>2, <2>1, <2>2
<1>5. conns' = [conns EXCEPT ![k] = Conn(conns[k].from, Tail(conns[k].c2s), conns[k].s2c \o answer,
                                     conns[k].cOpen, conns[k].sOpen)]
  BY DEF ServerTakes
<1> QED  BY <1>1, <1>4, <1>5

\* A connection is replaced, or forgotten once both its ends are closed.
LEMMA UpdatedIs ==
  ASSUME NEW k \in DOMAIN conns, NEW conn, NEW open \in BOOLEAN, open <=> (conn.cOpen \/ conn.sOpen)
  PROVE  LET u == Updated(k, conn)
         IN  /\ DOMAIN u = IF open THEN DOMAIN conns ELSE DOMAIN conns \ {k}
             /\ \A c \in DOMAIN conns : c # k => u[c] = conns[c]
             /\ k \in DOMAIN u => u[k] = conn
  BY DEF Updated

\* The server of p closes its end and is free, or gone.
LEMMA ClosesOne ==
  ASSUME Shape, Wired, NEW p \in Peer, Busy(p), NEW answer, ServerCloses(p, answer)
  PROVE  LET k == srv[p].conn
         IN  /\ k \in DOMAIN conns
             /\ DOMAIN conns' = IF conns[k].cOpen THEN DOMAIN conns ELSE DOMAIN conns \ {k}
             /\ \A c \in DOMAIN conns : c # k => conns'[c] = conns[c]
             /\ k \in DOMAIN conns' =>
                  conns'[k] = Conn(conns[k].from, << >>, conns[k].s2c \o answer, conns[k].cOpen, FALSE)
             /\ srv' \in [Peer -> Server] /\ srv'[p].pc \in {"accept", "exited"}
             /\ \A q \in Peer : q # p => srv'[q] = srv[q]
<1> DEFINE k == srv[p].conn
           l == Conn(conns[k].from, << >>, conns[k].s2c \o answer, conns[k].cOpen, FALSE)
<1>1. k \in DOMAIN conns
  BY DEF Wired, Holds
<1>2. conns[k].cOpen \in BOOLEAN /\ (conns[k].cOpen <=> (l.cOpen \/ l.sOpen))
  BY <1>1 DEF Conn, Shape, Link
<1>3. conns' = Updated(k, l)
  BY DEF ServerCloses
<1> HIDE DEF l
<1>4. /\ DOMAIN conns' = IF conns[k].cOpen THEN DOMAIN conns ELSE DOMAIN conns \ {k}
      /\ \A c \in DOMAIN conns : c # k => conns'[c] = conns[c]
      /\ k \in DOMAIN conns' => conns'[k] = l
  BY <1>1, <1>2, <1>3, UpdatedIs
<1>5. [pc |-> IF up[p] THEN "accept" ELSE "exited", conn |-> 0] \in Server
  BY DEF Server
<1>6. srv' = [srv EXCEPT ![p] = [pc |-> IF up[p] THEN "accept" ELSE "exited", conn |-> 0]]
  BY DEF ServerCloses
<1>7. /\ srv' \in [Peer -> Server] /\ srv'[p].pc \in {"accept", "exited"}
      /\ \A q \in Peer : q # p => srv'[q] = srv[q]
  BY <1>5, <1>6 DEF Shape
<1> QED  BY <1>1, <1>4, <1>7 DEF l

\* The client sends a frame.
LEMMA SendsOne ==
  ASSUME main.conn \in DOMAIN conns, NEW frame, ClientSends(frame)
  PROVE  LET k == main.conn
         IN  /\ DOMAIN conns' = DOMAIN conns
             /\ \A c \in DOMAIN conns : c # k => conns'[c] = conns[c]
             /\ conns'[k] = Conn(conns[k].from, Append(conns[k].c2s, frame), Tail(conns[k].s2c),
                                 conns[k].cOpen, conns[k].sOpen)
  BY DEF ClientSends

\* The client closes its end.
LEMMA HangsUp ==
  ASSUME Shape, main.conn \in DOMAIN conns, ClientCloses
  PROVE  LET k == main.conn
         IN  /\ DOMAIN conns' = IF conns[k].sOpen THEN DOMAIN conns ELSE DOMAIN conns \ {k}
             /\ \A c \in DOMAIN conns : c # k => conns'[c] = conns[c]
             /\ k \in DOMAIN conns' =>
                  conns'[k] = Conn(conns[k].from, conns[k].c2s, << >>, FALSE, conns[k].sOpen)
<1> DEFINE k == main.conn
           l == Conn(conns[k].from, conns[k].c2s, << >>, FALSE, conns[k].sOpen)
<1>1. conns[k].sOpen \in BOOLEAN /\ (conns[k].sOpen <=> (l.cOpen \/ l.sOpen))
  BY DEF Conn, Shape, Link
<1>2. conns' = Updated(k, l) /\ k \in DOMAIN conns
  BY DEF ClientCloses
<1> HIDE DEF l, k
<1>3. /\ DOMAIN conns' = IF conns[k].sOpen THEN DOMAIN conns ELSE DOMAIN conns \ {k}
      /\ \A c \in DOMAIN conns : c # k => conns'[c] = conns[c]
      /\ k \in DOMAIN conns' => conns'[k] = l
  <2> DEFINE open == conns[k].sOpen
  <2>1. open \in BOOLEAN /\ (open <=> (l.cOpen \/ l.sOpen))
    BY <1>1
  <2> HIDE DEF open
  <2>2. LET u == Updated(k, l)
        IN  /\ DOMAIN u = IF open THEN DOMAIN conns ELSE DOMAIN conns \ {k}
            /\ \A c \in DOMAIN conns : c # k => u[c] = conns[c]
            /\ k \in DOMAIN u => u[k] = l
    BY <1>2, <2>1, UpdatedIs
  <2> QED  BY <1>2, <2>2 DEF open
<1> QED  BY <1>3 DEF l, k

\* The shape is kept when a connection changes or goes.
LEMMA ShapeKept ==
  ASSUME Shape, NEW k \in DOMAIN conns,
         DOMAIN conns' = DOMAIN conns \/ DOMAIN conns' = DOMAIN conns \ {k},
         \A c \in DOMAIN conns : c # k => conns'[c] = conns[c],
         k \in DOMAIN conns' => Link(conns'[k]),
         srv' \in [Peer -> Server], backlog' \in [Peer -> Seq(Nat)]
  PROVE  Shape'
<1>1. IsFiniteSet(DOMAIN conns')
  BY FS_RemoveElement DEF Shape
<1> QED  BY <1>1 DEF Shape, Link

\* Places are kept when the server of p stays in its connection or leaves it ...
LEMMA WiredByServer ==
  ASSUME Wired, NEW p \in Peer, Busy(p), backlog' = backlog,
         Busy(p)' => srv'[p].conn = srv[p].conn /\ srv[p].conn \in DOMAIN conns' /\ conns'[srv[p].conn].sOpen,
         \A q \in Peer : q # p => srv'[q] = srv[q],
         \A c \in DOMAIN conns : c # srv[p].conn => c \in DOMAIN conns' /\ conns'[c] = conns[c]
  PROVE  Wired'
<1>1. \A q \in Peer : Holds(q)' \subseteq Holds(q)
  BY DEF Holds, Busy
<1>2. \A q \in Peer : Busy(q)' => Busy(q) /\ srv'[q].conn = srv[q].conn
  BY DEF Busy
<1>3. ASSUME NEW q \in Peer, NEW c \in Holds(q)'
      PROVE  c \in DOMAIN conns' /\ conns'[c].sOpen
  <2>1. c \in DOMAIN conns /\ conns[c].sOpen /\ c \in Holds(q)
    BY <1>1, <1>3 DEF Wired
  <2>2. CASE c = srv[p].conn
    <3>1. srv[p].conn \in Holds(p)
      BY DEF Holds
    <3>2. q = p
      BY <2>1, <2>2, <3>1 DEF Wired
    <3>3. c \notin ToSet(backlog[p])
      BY <2>2 DEF Wired
    <3>4. Busy(p)'
      BY <1>3, <3>2, <3>3 DEF Holds
    <3> QED  BY <2>2, <3>4
  <2> QED  BY <2>1, <2>2
<1>4. \A q \in Peer : Distinct(backlog'[q]) /\ (Busy(q)' => srv'[q].conn \notin ToSet(backlog'[q]))
  BY <1>2 DEF Wired
<1>5. \A q, r \in Peer : q # r => Holds(q)' \cap Holds(r)' = {}
  BY <1>1 DEF Wired
<1> QED  BY <1>3, <1>4, <1>5 DEF Wired

\* ... and when the client sends, or closes its end.
LEMMA WiredByClient ==
  ASSUME Wired, NEW k \in DOMAIN conns, backlog' = backlog, srv' = srv,
         \A c \in DOMAIN conns : c # k => c \in DOMAIN conns' /\ conns'[c] = conns[c],
         conns[k].sOpen => k \in DOMAIN conns' /\ conns'[k].sOpen
  PROVE  Wired'
<1>1. \A q \in Peer : Holds(q)' = Holds(q) /\ (Busy(q)' <=> Busy(q))
  BY DEF Holds, Busy
<1>2. \A q \in Peer : \A c \in Holds(q)' : c \in DOMAIN conns' /\ conns'[c].sOpen
  BY <1>1 DEF Wired
<1> QED  BY <1>1, <1>2 DEF Wired

-----------------------------------------------------------------------------
(* Where a step finds the request's connection                             *)

\* The peer a request or the end of the stack is at.
LEMMA ToIsPeer ==
  ASSUME MainOK, InRequest \/ Leaving
  PROVE  To \in Peer
<1>1. main.left \in Seq(Peer) /\ main.left # << >>
  BY DEF MainOK
<1> QED  BY <1>1, HeadTailProperties DEF To

\* The server in the request's connection is the one that was dialled.
LEMMA MainServer ==
  ASSUME Shape, Wired, MainOK, Stage, Asking, NEW p \in Peer, Busy(p), srv[p].conn = main.conn
  PROVE  /\ p = To /\ conns[main.conn].sOpen /\ conns[main.conn].cOpen
         /\ \/ Calling /\ At("hello")
            \/ Welcomed \/ Offering \/ Opened \/ Requested \/ Replied
<1>1. To \in Peer
  BY ToIsPeer DEF InRequest, Asking
<1>2. main.conn \in Holds(p)
  BY DEF Holds
<1>3. conns[main.conn].sOpen /\ conns[main.conn].cOpen
  BY <1>2 DEF Wired, Stage
<1>4. Calling \/ Welcomed \/ Offering \/ Opened \/ Requested \/ Replied
  BY <1>3 DEF Stage, Refused, Unheard
<1>5. main.conn \in Holds(To)
  BY <1>1, <1>4 DEF Calling, Welcomed, Offering, Opened, Requested, Replied, Holds, At, Busy
<1>6. p = To
  BY <1>1, <1>2, <1>5 DEF Wired
<1>7. Calling => At("hello")
  BY <1>6 DEF Wired, Calling
<1> QED  BY <1>3, <1>4, <1>6, <1>7

\* In any other connection a server finds noise, or nothing.
LEMMA Elsewhere ==
  ASSUME Wired, Quiet, NEW p \in Peer, Busy(p), ~(Asking /\ srv[p].conn = main.conn)
  PROVE  /\ srv[p].conn \in DOMAIN conns /\ Noise(conns[srv[p].conn])
         /\ \A type : Arrived(p, type) => type = "garbage"
<1>1. srv[p].conn \in DOMAIN conns
  BY DEF Wired, Holds
<1>2. Noise(conns[srv[p].conn])
  BY <1>1 DEF Quiet
<1>3. FromClient(p) \in Seq({Frame("garbage")})
  BY <1>2 DEF Noise, FromClient
<1>4. FromClient(p) # << >> => Head(FromClient(p)) = Frame("garbage")
  BY <1>3, HeadTailProperties
<1> QED  BY <1>1, <1>2, <1>4 DEF Arrived, Frame

\* A step elsewhere leaves the request where it is ...
LEMMA StageElsewhere ==
  ASSUME Stage, UNCHANGED <<main, accepted, stores>>,
         Asking => /\ main.conn \in DOMAIN conns' /\ conns'[main.conn] = conns[main.conn]
                   /\ main.conn \in ToSet(backlog[To]) => main.conn \in ToSet(backlog'[To]) \/ At("hello")'
                   /\ \A pc \in {"hello", "header", "serve", "blocked"} : At(pc) => At(pc)'
  PROVE  Stage'
<1> SUFFICES ASSUME Asking  PROVE Stage'
  BY DEF Stage, Asking
<1>1. /\ main.conn \in DOMAIN conns' /\ conns'[main.conn] = conns[main.conn] /\ main' = main
      /\ From' = From /\ To' = To /\ Mutual' = Mutual /\ accepted' = accepted
  BY DEF From, To, Mutual
<1>2. \A x, y : Carries(x, y) => Carries(x, y)'
  BY <1>1 DEF Carries
<1>3. Tells(conns[main.conn].s2c[1]) => Tells(conns[main.conn].s2c[1])'
  BY <1>1 DEF Tells, SharedWith
<1>4. Calling => Calling'
  BY <1>1, <1>2 DEF Calling
<1>5. (Welcomed => Welcomed') /\ (Refused => Refused')
  BY <1>1, <1>2 DEF Welcomed, Refused
<1>6. (Offering => Offering') /\ (Unheard => Unheard') /\ (Opened => Opened')
  BY <1>1, <1>2 DEF Offering, Unheard, Opened
<1>7. Requested => Requested'
  BY <1>1, <1>2 DEF Requested
<1>8. Replied => Replied'
  <2> SUFFICES ASSUME Replied  PROVE Replied'
    OBVIOUS
  <2>1. Carries(<< >>, <<conns[main.conn].s2c[1]>>)'
    BY <1>1 DEF Carries, Replied
  <2>2. Tells(conns[main.conn].s2c[1])'
    BY <1>3 DEF Replied
  <2> QED  BY <1>1, <2>1, <2>2 DEF Replied
<1> QED  BY <1>1, <1>4, <1>5, <1>6, <1>7, <1>8 DEF Stage

\* ... and the books as they are.
LEMMA BooksElsewhere ==
  ASSUME Books, UNCHANGED <<main, acked, log, instantiated>>,
         main.pc = "reply" => conns'[main.conn] = conns[main.conn]
  PROVE  Books'
<1>1. \A p, op : Accepting(p, op)' <=> Accepting(p, op)
  BY DEF Accepting, To, Answered, FromServer
<1>2. From' = From
  BY DEF From
<1> QED  BY <1>1, <1>2 DEF Books

-----------------------------------------------------------------------------
(* The steps of a server                                                   *)

\* Accepting takes the next connection from the backlog; nothing moves in one.
LEMMA AcceptKeeps ==
  ASSUME IInv, NEW p \in Peer, Accept(p)
  PROVE  IInv'
<1>1. /\ srv[p].pc = "accept" /\ UNCHANGED <<peers, up, conns, main, acked>>
      /\ Shape /\ Kept /\ Wired /\ MainOK /\ Quiet /\ Stage /\ Books
  BY DEF Accept, IInv
<1>2. Kept' /\ MainOK' /\ Quiet'
  BY <1>1 DEF Kept, MainOK, Quiet, InRequest, Leaving, Asking, peers
<1>3. Books'
  BY <1>1, BooksElsewhere DEF peers
<1>4. srv[p] \in Server /\ ~Busy(p) /\ \A pc \in {"hello", "header", "serve", "blocked"} : srv[p].pc # pc
  BY <1>1 DEF Shape, Busy
<1>5. CASE up[p] /\ backlog[p] # << >> /\ srv' = [srv EXCEPT ![p] = [pc |-> "hello", conn |-> Head(backlog[p])]]
           /\ backlog' = [backlog EXCEPT ![p] = Tail(@)]
  <2> DEFINE k == Head(backlog[p])
  <2>1. /\ k \in Nat /\ Tail(backlog[p]) \in Seq(Nat) /\ k \in ToSet(backlog[p]) /\ k \notin ToSet(Tail(backlog[p]))
        /\ ToSet(backlog[p]) = ToSet(Tail(backlog[p])) \cup {k} /\ Distinct(Tail(backlog[p]))
    BY <1>1, <1>5, SetOfTail DEF Shape, Wired
  <2> HIDE DEF k
  <2>2. srv' = [srv EXCEPT ![p] = [pc |-> "hello", conn |-> k]]
    BY <1>5 DEF k
  <2>3. [pc |-> "hello", conn |-> k] \in Server
    BY <2>1 DEF Server
  <2>4. /\ srv' \in [Peer -> Server] /\ srv'[p] = [pc |-> "hello", conn |-> k]
        /\ \A q \in Peer : q # p => srv'[q] = srv[q]
    BY <1>1, <2>2, <2>3 DEF Shape
  <2>5. /\ backlog' \in [Peer -> Seq(Nat)] /\ backlog'[p] = Tail(backlog[p])
        /\ \A q \in Peer : q # p => backlog'[q] = backlog[q]
    BY <1>1, <1>5, <2>1 DEF Shape
  <2>6. Shape'
    BY <1>1, <2>4, <2>5 DEF Shape
  <2>7. Holds(p)' = Holds(p)
    BY <1>4, <2>1, <2>4, <2>5 DEF Holds, Busy
  <2>8. \A q \in Peer : q # p => Holds(q)' = Holds(q) /\ Busy(q)' = Busy(q)
    BY <2>4, <2>5 DEF Holds, Busy
  <2>9. Wired'
    <3>1. \A q \in Peer : Holds(q)' = Holds(q)
      BY <2>7, <2>8
    <3>2. \A q \in Peer : Distinct(backlog'[q]) /\ (Busy(q)' => srv'[q].conn \notin ToSet(backlog'[q]))
      <4>1. Distinct(backlog'[p]) /\ srv'[p].conn \notin ToSet(backlog'[p])
        BY <2>1, <2>4, <2>5
      <4>2. \A q \in Peer : q # p => Distinct(backlog'[q]) /\ (Busy(q)' => srv'[q].conn \notin ToSet(backlog'[q]))
        BY <1>1, <2>4, <2>5, <2>8 DEF Wired
      <4> QED  BY <4>1, <4>2
    <3> QED  BY <1>1, <3>1, <3>2 DEF Wired
  <2>10. Stage'
    <3>1. ASSUME Asking
          PROVE  /\ main.conn \in ToSet(backlog[To]) => main.conn \in ToSet(backlog'[To]) \/ At("hello")'
                 /\ \A pc \in {"hello", "header", "serve", "blocked"} : At(pc) => At(pc)'
      <4>1. To \in Peer /\ To' = To /\ main' = main
        BY <1>1, <3>1, ToIsPeer DEF InRequest, Asking, To
      <4>2. CASE To = p
        <5>1. \A pc \in {"hello", "header", "serve", "blocked"} : ~At(pc)
          BY <1>4, <4>2 DEF At
        <5>2. main.conn \in ToSet(backlog[To]) /\ main.conn \notin ToSet(Tail(backlog[p])) => main.conn = k
          BY <2>1, <4>2
        <5>3. main.conn = k => At("hello")'
          BY <2>4, <4>1, <4>2 DEF At
        <5> QED  BY <2>5, <4>2, <5>1, <5>2, <5>3
      <4>3. CASE To # p
        BY <2>4, <2>5, <4>1, <4>3 DEF At
      <4> QED  BY <4>2, <4>3
    <3>2. UNCHANGED <<main, accepted, stores>>
      BY <1>1 DEF peers
    <3>3. Asking => main.conn \in DOMAIN conns' /\ conns'[main.conn] = conns[main.conn]
      BY <1>1 DEF Stage
    <3> QED  BY <1>1, <3>1, <3>2, <3>3, StageElsewhere
  <2> QED  BY <1>2, <1>3, <2>6, <2>9, <2>10 DEF IInv
<1>6. CASE srv' = [srv EXCEPT ![p].pc = "exited"] /\ backlog' = backlog
  <2>1. srv[p] = [pc |-> srv[p].pc, conn |-> srv[p].conn] /\ srv[p].conn \in Nat
    BY <1>4 DEF Server
  <2>2. srv' = [srv EXCEPT ![p] = [pc |-> "exited", conn |-> srv[p].conn]]
    <3>1. [srv[p] EXCEPT !.pc = "exited"] = [pc |-> "exited", conn |-> srv[p].conn]
      BY <2>1, PcOf
    <3> QED  BY <1>6, <3>1
  <2>3. [pc |-> "exited", conn |-> srv[p].conn] \in Server
    BY <2>1 DEF Server
  <2>4. /\ srv' \in [Peer -> Server] /\ srv'[p] = [pc |-> "exited", conn |-> srv[p].conn]
        /\ \A q \in Peer : q # p => srv'[q] = srv[q]
    BY <1>1, <2>2, <2>3 DEF Shape
  <2>5. Shape'
    BY <1>1, <1>6, <2>4 DEF Shape
  <2>6. \A q \in Peer : Holds(q)' = Holds(q) /\ (Busy(q)' <=> Busy(q)) /\ (Busy(q) => srv'[q] = srv[q])
    BY <1>4, <1>6, <2>4 DEF Holds, Busy
  <2>7. Wired'
    BY <1>1, <1>6, <2>6 DEF Wired
  <2>8. Stage'
    <3>1. Asking => \A pc \in {"hello", "header", "serve", "blocked"} : At(pc) => At(pc)'
      BY <1>1, <1>4, <2>4, ToIsPeer DEF InRequest, Asking, At, To
    <3>2. UNCHANGED <<main, accepted, stores>>
      BY <1>1 DEF peers
    <3>3. Asking => main.conn \in DOMAIN conns' /\ conns'[main.conn] = conns[main.conn]
      BY <1>1 DEF Stage
    <3> QED  BY <1>1, <1>6, <3>1, <3>2, <3>3, StageElsewhere
  <2> QED  BY <1>2, <1>3, <2>5, <2>7, <2>8 DEF IInv
<1> QED  BY <1>5, <1>6 DEF Accept

\* A server hangs up on a connection that is not the request's.
LEMMA CloseElsewhere ==
  ASSUME IInv, NEW p \in Peer, Busy(p), ~(Asking /\ srv[p].conn = main.conn), ServerCloses(p, << >>),
         UNCHANGED <<peers, up, backlog, main, acked>>
  PROVE  IInv'
<1> DEFINE k == srv[p].conn
<1>1. Shape /\ Kept /\ Wired /\ MainOK /\ Quiet /\ Stage /\ Books
  BY DEF IInv
<1>2. /\ k \in DOMAIN conns
      /\ DOMAIN conns' = IF conns[k].cOpen THEN DOMAIN conns ELSE DOMAIN conns \ {k}
      /\ \A c \in DOMAIN conns : c # k => conns'[c] = conns[c]
      /\ k \in DOMAIN conns' =>
           conns'[k] = Conn(conns[k].from, << >>, conns[k].s2c \o << >>, conns[k].cOpen, FALSE)
      /\ srv' \in [Peer -> Server] /\ srv'[p].pc \in {"accept", "exited"}
      /\ \A q \in Peer : q # p => srv'[q] = srv[q]
  BY <1>1, ClosesOne
<1>3. Noise(conns[k]) /\ Link(conns[k])
  BY <1>1, <1>2, Elsewhere DEF Shape
<1>4. k \in DOMAIN conns' => Noise(conns'[k]) /\ Link(conns'[k]) /\ conns'[k].cOpen = conns[k].cOpen
  <2>1. conns[k].s2c \o << >> = << >>
    BY <1>3 DEF Noise
  <2>2. << >> \in Seq({Frame("garbage")})
    OBVIOUS
  <2> DEFINE l == Conn(conns[k].from, << >>, << >>, conns[k].cOpen, FALSE)
  <2>3. k \in DOMAIN conns' => conns'[k] = l
    BY <1>2, <2>1
  <2>4. l.c2s = << >> /\ l.s2c = << >> /\ l.cOpen = conns[k].cOpen /\ l.sOpen = FALSE
    BY DEF Conn
  <2> HIDE DEF l
  <2>5. Noise(l) /\ Link(l)
    BY <1>3, <2>2, <2>4 DEF Noise, Link
  <2> QED  BY <2>3, <2>4, <2>5
<1>5. ~Busy(p)'
  BY <1>2 DEF Busy
<1> HIDE DEF k
<1>6. Shape'
  BY <1>1, <1>2, <1>4, ShapeKept DEF Shape
<1>7. Wired'
  BY <1>1, <1>2, <1>5, WiredByServer DEF k
<1>8. Kept'
  BY <1>1 DEF Kept, peers
<1>9. MainOK'
  <2>1. main.pc = "probe" => main.conn \in DOMAIN conns' /\ conns'[main.conn].cOpen
    BY <1>1, <1>2, <1>4 DEF MainOK
  <2> QED  BY <1>1, <2>1 DEF MainOK, InRequest, Leaving
<1>10. Quiet'
  BY <1>1, <1>2, <1>4 DEF Quiet, Asking
<1>11. Asking => main.conn \in DOMAIN conns' /\ conns'[main.conn] = conns[main.conn] /\ main.conn \in DOMAIN conns
  BY <1>1, <1>2 DEF Stage, k
<1>12. Stage'
  <2>1. Asking => \A pc \in {"hello", "header", "serve", "blocked"} : At(pc) => At(pc)'
    BY <1>1, <1>2, ToIsPeer DEF InRequest, Asking, At, To, k
  <2> QED  BY <1>1, <1>11, <2>1, StageElsewhere DEF peers
<1>13. Books'
  BY <1>1, <1>11, BooksElsewhere DEF peers, Asking
<1> QED  BY <1>6, <1>7, <1>8, <1>9, <1>10, <1>12, <1>13 DEF IInv

\* A server that answers in the request's connection is still in it.
LEMMA TakesMain ==
  ASSUME IInv, Asking, NEW p \in Peer, Busy(p), srv[p].conn = main.conn, NEW answer,
         NEW pc \in {"hello", "header", "serve", "blocked"}, ServerTakes(p, answer, pc),
         UNCHANGED <<backlog, main>>
  PROVE  /\ Shape' /\ Wired' /\ MainOK' /\ Quiet' /\ At(pc)' /\ Asking' /\ p = To /\ To' = To /\ From' = From
         /\ main'.conn = main.conn /\ main.conn \in DOMAIN conns'
         /\ conns'[main.conn].c2s = Tail(conns[main.conn].c2s)
         /\ conns'[main.conn].s2c = conns[main.conn].s2c \o answer
         /\ conns'[main.conn].from = From /\ conns'[main.conn].cOpen
<1> DEFINE k == main.conn
           l == Conn(conns[k].from, Tail(conns[k].c2s), conns[k].s2c \o answer, conns[k].cOpen, conns[k].sOpen)
<1>1. Shape /\ Wired /\ MainOK /\ Quiet /\ Stage
  BY DEF IInv
<1>2. /\ k \in DOMAIN conns /\ DOMAIN conns' = DOMAIN conns
      /\ \A c \in DOMAIN conns : c # k => conns'[c] = conns[c]
      /\ conns'[k] = l
      /\ srv' \in [Peer -> Server] /\ srv'[p] = [pc |-> pc, conn |-> k]
      /\ \A q \in Peer : q # p => srv'[q] = srv[q]
  <2> DEFINE j == srv[p].conn
  <2>1. /\ j \in DOMAIN conns /\ DOMAIN conns' = DOMAIN conns
        /\ \A c \in DOMAIN conns : c # j => conns'[c] = conns[c]
        /\ conns'[j] = Conn(conns[j].from, Tail(conns[j].c2s), conns[j].s2c \o answer,
                            conns[j].cOpen, conns[j].sOpen)
        /\ srv' \in [Peer -> Server] /\ srv'[p] = [pc |-> pc, conn |-> j]
        /\ \A q \in Peer : q # p => srv'[q] = srv[q]
    BY <1>1, TakesOne
  <2>2. j = k
    OBVIOUS
  <2> QED  BY <2>1, <2>2
<1>3. p = To /\ conns[k].sOpen /\ conns[k].cOpen /\ conns[k].from = From
  BY <1>1, MainServer DEF Stage
<1>4. /\ l.from = conns[k].from /\ l.c2s = Tail(conns[k].c2s) /\ l.s2c = conns[k].s2c \o answer
      /\ l.cOpen = conns[k].cOpen /\ l.sOpen = conns[k].sOpen
  BY DEF Conn
<1>5. Link(conns[k])
  BY <1>1, <1>2 DEF Shape
<1> HIDE DEF l
<1>6. Shape'
  BY <1>1, <1>2, <1>4, <1>5, ShapeKept DEF Link, Shape
<1>7. srv'[p].conn = srv[p].conn
  BY <1>2
<1>8. Wired'
  BY <1>1, <1>2, <1>3, <1>4, <1>7, WiredByServer
<1>9. MainOK'
  BY <1>1 DEF MainOK, InRequest, Leaving, Asking
<1>10. Quiet'
  BY <1>1, <1>2 DEF Quiet, Asking
<1>11. To' = To /\ From' = From /\ Asking' /\ At(pc)'
  BY <1>2, <1>3 DEF To, From, Asking, At
<1> QED  BY <1>2, <1>3, <1>4, <1>6, <1>8, <1>9, <1>10, <1>11

\* A connection that carries one frame.
LEMMA OneFrame ==
  ASSUME NEW f
  PROVE  /\ <<f>> # << >> /\ Head(<<f>>) = f /\ Tail(<<f>>) = << >> /\ <<f>>[1] = f
         /\ << >> \o <<f>> = <<f>> /\ Append(<< >>, f) = <<f>>
<1>1. << >> \o <<f>> = <<f>>
  <2>1. <<f>> \in Seq({f}) /\ << >> \in Seq({f})
    OBVIOUS
  <2> QED  BY <2>1, ConcatEmptySeq
<1> QED  BY <1>1

\* The hello of the request is answered; whether it is admitted depends on the
\* pairing table at that moment.
LEMMA HelloKeeps ==
  ASSUME IInv, NEW p \in Peer, RespondHello(p)
  PROVE  IInv'
<1>1. Shape /\ Kept /\ Wired /\ MainOK /\ Quiet /\ Stage /\ Books
  BY DEF IInv
<1>2. srv[p].pc = "hello" /\ Busy(p) /\ UNCHANGED <<peers, up, backlog, main, acked>>
  BY DEF RespondHello, Busy
<1>3. CASE ~(Asking /\ srv[p].conn = main.conn)
  <2>1. ~Arrived(p, "hello")
    BY <1>1, <1>2, <1>3, Elsewhere
  <2>2. ServerCloses(p, << >>)
    BY <2>1 DEF RespondHello, Rejection
  <2> QED  BY <1>2, <1>3, <2>2, CloseElsewhere
<1>4. CASE Asking /\ srv[p].conn = main.conn
  <2>1. p = To /\ conns[main.conn].sOpen /\ conns[main.conn].cOpen /\ conns[main.conn].from = From
        /\ main.conn \in DOMAIN conns
    BY <1>1, <1>2, <1>4, MainServer DEF Stage
  <2>2. Calling /\ At("hello")
    BY <1>1, <1>2, <1>4, <2>1, MainServer DEF Welcomed, Offering, Opened, Requested, Replied, At
  <2>3. main.pc = "hello" /\ conns[main.conn].c2s = <<Frame("hello")>> /\ conns[main.conn].s2c = << >>
    BY <2>2 DEF Calling, Carries
  <2>4. Frame("hello").type = "hello"
    BY DEF Frame
  <2>5. FromClient(p) # << >> /\ Head(FromClient(p)).type = "hello"
    BY <1>4, <2>3, <2>4, OneFrame DEF FromClient
  <2>6. ~Arrived(p, "garbage") /\ ~ClientGone(p)
    BY <2>5 DEF Arrived, ClientGone
  <2>7. Kept'
    BY <1>1, <1>2 DEF Kept, peers
  <2>8. Books'
    <3>1. \A q \in Peer, op \in {"ops", "place"} : ~Accepting(q, op) /\ ~Accepting(q, op)'
      BY <1>2, <2>3 DEF Accepting
    <3> QED  BY <1>1, <1>2, <3>1 DEF Books, peers
  <2>9. CASE Admits(p) /\ ServerTakes(p, Greeting, "header")
    <3>1. /\ Shape' /\ Wired' /\ MainOK' /\ Quiet' /\ At("header")' /\ Asking' /\ To' = To /\ From' = From
          /\ main'.conn = main.conn /\ main.conn \in DOMAIN conns'
          /\ conns'[main.conn].c2s = Tail(conns[main.conn].c2s)
          /\ conns'[main.conn].s2c = conns[main.conn].s2c \o Greeting
          /\ conns'[main.conn].from = From /\ conns'[main.conn].cOpen
      BY <1>2, <1>4, <2>9, TakesMain
    <3>2. conns'[main.conn].c2s = << >> /\ conns'[main.conn].s2c = <<Frame("hello")>>
      BY <2>3, <3>1, OneFrame DEF Greeting
    <3>3. From' \in accepted'[To']
      BY <1>2, <1>4, <2>1, <2>9, <3>1 DEF Admits, Admitted, peers
    <3>4. Welcomed'
      BY <1>2, <2>3, <3>1, <3>2, <3>3 DEF Welcomed, Carries
    <3>5. Stage'
      BY <3>1, <3>4 DEF Stage
    <3> QED  BY <2>7, <2>8, <3>1, <3>5 DEF IInv
  <2>10. CASE ServerCloses(p, Greeting)
    <3> DEFINE k == main.conn
               l == Conn(conns[k].from, << >>, conns[k].s2c \o Greeting, conns[k].cOpen, FALSE)
    <3>1. /\ DOMAIN conns' = DOMAIN conns
          /\ \A c \in DOMAIN conns : c # k => conns'[c] = conns[c]
          /\ conns'[k] = l
          /\ srv' \in [Peer -> Server] /\ srv'[p].pc \in {"accept", "exited"}
          /\ \A q \in Peer : q # p => srv'[q] = srv[q]
      <4> DEFINE j == srv[p].conn
      <4>1. /\ DOMAIN conns' = IF conns[j].cOpen THEN DOMAIN conns ELSE DOMAIN conns \ {j}
            /\ \A c \in DOMAIN conns : c # j => conns'[c] = conns[c]
            /\ j \in DOMAIN conns' =>
                 conns'[j] = Conn(conns[j].from, << >>, conns[j].s2c \o Greeting, conns[j].cOpen, FALSE)
            /\ srv' \in [Peer -> Server] /\ srv'[p].pc \in {"accept", "exited"}
            /\ \A q \in Peer : q # p => srv'[q] = srv[q]
        BY <1>1, <1>2, <2>10, ClosesOne
      <4>2. j = k
        BY <1>4
      <4> QED  BY <2>1, <4>1, <4>2
    <3>2. l.c2s = << >> /\ l.s2c = <<Frame("hello")>> /\ l.from = From /\ l.cOpen /\ l.sOpen = FALSE /\ Link(l)
      <4>1. Link(conns[k])
        BY <1>1, <2>1 DEF Shape
      <4>2. conns[k].s2c \o Greeting = <<Frame("hello")>>
        BY <2>3, OneFrame DEF Greeting
      <4> QED  BY <2>1, <4>1, <4>2 DEF Conn, Link
    <3> HIDE DEF l
    <3>3. Shape'
      BY <1>1, <1>2, <2>1, <3>1, <3>2, ShapeKept DEF Shape
    <3>4. ~Busy(p)'
      BY <3>1 DEF Busy
    <3>5. Wired'
      BY <1>1, <1>2, <1>4, <3>1, <3>4, WiredByServer
    <3>6. MainOK'
      BY <1>1, <1>2, <1>4 DEF MainOK, InRequest, Leaving, Asking
    <3>7. Quiet'
      BY <1>1, <1>2, <1>4, <3>1 DEF Quiet, Asking
    <3>8. Refused' /\ Asking'
      BY <1>2, <1>4, <2>3, <3>1, <3>2 DEF Refused, Carries, Asking
    <3>9. Stage'
      BY <1>2, <2>1, <3>1, <3>2, <3>8 DEF Stage, From
    <3> QED  BY <2>7, <2>8, <3>3, <3>5, <3>6, <3>7, <3>9 DEF IInv
  <2> QED  BY <2>5, <2>6, <2>9, <2>10 DEF RespondHello, Arrived
<1> QED  BY <1>3, <1>4

\* The header of the channel is answered.
LEMMA HeaderKeeps ==
  ASSUME IInv, NEW p \in Peer, RespondHeader(p)
  PROVE  IInv'
<1>1. Shape /\ Kept /\ Wired /\ MainOK /\ Quiet /\ Stage /\ Books
  BY DEF IInv
<1>2. srv[p].pc = "header" /\ Busy(p) /\ UNCHANGED <<peers, up, backlog, main, acked>>
  BY DEF RespondHeader, Busy
<1>3. CASE ~(Asking /\ srv[p].conn = main.conn)
  <2>1. ~Arrived(p, "header")
    BY <1>1, <1>2, <1>3, Elsewhere
  <2>2. ServerCloses(p, << >>)
    BY <2>1 DEF RespondHeader
  <2> QED  BY <1>2, <1>3, <2>2, CloseElsewhere
<1>4. CASE Asking /\ srv[p].conn = main.conn
  <2>1. p = To /\ conns[main.conn].cOpen
    BY <1>1, <1>2, <1>4, MainServer
  <2>2. ~ClientGone(p)
    BY <1>4, <2>1 DEF ClientGone
  <2>3. Arrived(p, "header") /\ ServerTakes(p, <<Frame("header")>>, "serve")
    BY <2>2 DEF RespondHeader
  <2>4. conns[main.conn].c2s # << >>
    BY <1>4, <2>3 DEF Arrived, FromClient
  <2>5. Offering
    BY <1>1, <1>2, <1>4, <2>1, <2>4, MainServer DEF Calling, Welcomed, Opened, Requested, Replied, At, Carries
  <2>6. main.pc = "header" /\ conns[main.conn].c2s = <<Frame("header")>> /\ conns[main.conn].s2c = << >> /\ Mutual
    BY <2>5 DEF Offering, Carries
  <2>7. /\ Shape' /\ Wired' /\ MainOK' /\ Quiet' /\ At("serve")' /\ Asking' /\ To' = To /\ From' = From
        /\ main'.conn = main.conn /\ main.conn \in DOMAIN conns'
        /\ conns'[main.conn].c2s = Tail(conns[main.conn].c2s)
        /\ conns'[main.conn].s2c = conns[main.conn].s2c \o <<Frame("header")>>
        /\ conns'[main.conn].from = From /\ conns'[main.conn].cOpen
    BY <1>2, <1>4, <2>3, TakesMain
  <2>8. conns'[main.conn].c2s = << >> /\ conns'[main.conn].s2c = <<Frame("header")>>
    BY <2>6, <2>7, OneFrame
  <2>9. Opened'
    BY <1>2, <2>6, <2>7, <2>8 DEF Opened, Carries, Mutual, peers
  <2>10. Stage'
    BY <2>7, <2>9 DEF Stage
  <2>11. Kept'
    BY <1>1, <1>2 DEF Kept, peers
  <2>12. Books'
    <3>1. \A q \in Peer, op \in {"ops", "place"} : ~Accepting(q, op) /\ ~Accepting(q, op)'
      BY <1>2, <2>6 DEF Accepting
    <3> QED  BY <1>1, <1>2, <3>1 DEF Books, peers
  <2> QED  BY <2>7, <2>10, <2>11, <2>12 DEF IInv
<1> QED  BY <1>3, <1>4

\* A thread that finds the client gone hangs up; that is never the request's.
LEMMA HangupKeeps ==
  ASSUME IInv, NEW p \in Peer, Hangup(p)
  PROVE  IInv'
<1>1. Shape /\ Wired /\ MainOK /\ Stage /\ Busy(p) /\ ServerCloses(p, << >>) /\ ClientGone(p)
      /\ UNCHANGED <<peers, up, backlog, main, acked>>
  BY DEF IInv, Hangup, Busy
<1>2. ~(Asking /\ srv[p].conn = main.conn)
  BY <1>1, MainServer DEF ClientGone
<1> QED  BY <1>1, <1>2, CloseElsewhere

-----------------------------------------------------------------------------
(* Requests                                                                *)

\* Each op asks its own kind of request.
LEMMA KindOfOp ==
  ASSUME MainOK, InRequest
  PROVE  /\ main.op \in Requests /\ main.ask.type = "request"
         /\ main.ask.kind = "FETCH" => main.op.op = "fetch" /\ main.ask.arg = main.op.arg
         /\ main.ask.kind = "OPS" => main.op.op = "ops" /\ main.ask.arg = main.op.arg
         /\ main.ask.kind = "PLACE" => main.op.op = "place" /\ main.ask.arg = main.op.arg
         /\ main.ask.kind = "HELLO" => main.op.op = "derive"
         /\ main.ask.kind = "QUERY" => main.op.op = "derive" /\ main.ask.arg = main.op.arg
         /\ main.ask.kind = "REPLAY" => main.op.op = "net-pair"
<1> DEFINE o == main.op
           a == main.ask
<1>1. o \in Requests /\ a \in AskOf(o)
  BY DEF MainOK
<1>2. o.op \in {"fetch", "ops", "place", "derive", "net-pair"}
  BY <1>1, ScriptAssumption
<1> HIDE DEF o, a
<1>3. \A kind, arg : /\ Request(kind, arg).type = "request"
                     /\ Request(kind, arg).kind = kind /\ Request(kind, arg).arg = arg
  BY DEF Request
<1>4. CASE o.op = "fetch"
  <2>1. a = Request("FETCH", o.arg)
    BY <1>1, <1>4 DEF AskOf
  <2>2. a.type = "request" /\ a.kind = "FETCH" /\ a.arg = o.arg
    BY <1>3, <2>1
  <2> QED  BY <1>1, <1>4, <2>2 DEF a, o
<1>5. CASE o.op = "ops"
  <2>1. a = Request("OPS", o.arg)
    BY <1>1, <1>5 DEF AskOf
  <2>2. a.type = "request" /\ a.kind = "OPS" /\ a.arg = o.arg
    BY <1>3, <2>1
  <2> QED  BY <1>1, <1>5, <2>2 DEF a, o
<1>6. CASE o.op = "place"
  <2>1. a = Request("PLACE", o.arg)
    BY <1>1, <1>6 DEF AskOf
  <2>2. a.type = "request" /\ a.kind = "PLACE" /\ a.arg = o.arg
    BY <1>3, <2>1
  <2> QED  BY <1>1, <1>6, <2>2 DEF a, o
<1>7. CASE o.op = "derive"
  <2>1. a = Request("HELLO", None) \/ a = Request("QUERY", o.arg)
    BY <1>1, <1>7 DEF AskOf
  <2>2. a.type = "request" /\ (a.kind = "HELLO" \/ (a.kind = "QUERY" /\ a.arg = o.arg))
    BY <1>3, <2>1
  <2> QED  BY <1>1, <1>7, <2>2 DEF a, o
<1>8. CASE o.op = "net-pair"
  <2>1. a = Request("REPLAY", DeliveryLog(o.arg))
    BY <1>1, <1>8 DEF AskOf
  <2>2. a.type = "request" /\ a.kind = "REPLAY"
    BY <1>3, <2>1
  <2> QED  BY <1>1, <1>8, <2>2 DEF a, o
<1> QED  BY <1>2, <1>4, <1>5, <1>6, <1>7, <1>8

\* A server that reads a request is the one asked, in the request's connection, and
\* both sides have admitted each other.
LEMMA RequestHere ==
  ASSUME IInv, NEW p \in Peer, srv[p].pc = "serve", Arrived(p, "request")
  PROVE  /\ Asking /\ Busy(p) /\ srv[p].conn = main.conn /\ p = To /\ Requested
         /\ Head(FromClient(p)) = main.ask /\ Asker(p) = From
<1>1. Shape /\ Wired /\ MainOK /\ Quiet /\ Stage /\ Busy(p)
  BY DEF IInv, Busy
<1>2. Asking /\ srv[p].conn = main.conn
  BY <1>1, Elsewhere
<1>3. FromClient(p) = conns[main.conn].c2s /\ conns[main.conn].c2s # << >>
  BY <1>2 DEF FromClient, Arrived
<1>4. p = To /\ Requested
  BY <1>1, <1>2, <1>3, MainServer DEF Calling, Welcomed, Offering, Opened, Replied, At, Carries
<1>5. conns[main.conn].c2s = <<main.ask>>
  BY <1>4 DEF Requested, Carries
<1>6. Asker(p) = From
  BY <1>1, <1>2 DEF Asker, Stage
<1> QED  BY <1>1, <1>2, <1>3, <1>4, <1>5, <1>6

\* An answer that tells what was done keeps the invariant.
LEMMA AnswerKeeps ==
  ASSUME IInv, NEW p \in Peer, srv[p].pc = "serve", Arrived(p, "request"), NEW f, NEW pc \in {"serve", "blocked"},
         ServerTakes(p, <<f>>, pc), UNCHANGED <<accepted, up, backlog, main, acked>>, Kept', Tells(f)',
         \A q \in Peer :
           log'[q] = IF q = To /\ main.op.op = "ops" /\ f.type = "reply" /\ f.ok
                     THEN Append(log[q], [op |-> main.op.arg, author |-> From]) ELSE log[q],
         \A q \in Peer :
           instantiated'[q] = IF q = To /\ main.op.op = "place" /\ f.type = "reply" /\ f.ok
                              THEN Append(instantiated[q], main.op.arg) ELSE instantiated[q]
  PROVE  IInv'
<1>1. Books /\ main.pc = "reply" /\ Mutual /\ Carries(<<main.ask>>, << >>) /\ Asking /\ Busy(p)
      /\ srv[p].conn = main.conn
  BY RequestHere DEF IInv, Requested
<1>2. /\ Shape' /\ Wired' /\ MainOK' /\ Quiet' /\ At(pc)' /\ Asking' /\ p = To /\ To' = To /\ From' = From
      /\ main'.conn = main.conn /\ main.conn \in DOMAIN conns'
      /\ conns'[main.conn].c2s = Tail(conns[main.conn].c2s)
      /\ conns'[main.conn].s2c = conns[main.conn].s2c \o <<f>>
      /\ conns'[main.conn].from = From /\ conns'[main.conn].cOpen
  BY <1>1, TakesMain
<1>3. conns'[main.conn].c2s = << >> /\ conns'[main.conn].s2c = <<f>>
  BY <1>1, <1>2, OneFrame DEF Carries
<1>4. Replied'
  BY <1>1, <1>2, <1>3, OneFrame DEF Replied, Carries, Mutual
<1>5. Stage'
  BY <1>2, <1>4 DEF Stage
<1>6. Books'
  <2>1. FromServer' # << >> /\ Head(FromServer') = f
    BY <1>2, <1>3, OneFrame DEF FromServer
  <2>2. ASSUME NEW q \in Peer, NEW op \in {"ops", "place"}
        PROVE  ~Accepting(q, op) /\ (Accepting(q, op)' <=> q = To /\ main.op.op = op /\ f.type = "reply" /\ f.ok)
    <3>1. FromServer = << >>
      BY <1>1 DEF Carries, FromServer
    <3> QED  BY <1>1, <1>2, <2>1, <3>1 DEF Accepting, Answered
  <2>3. \A q \in Peer : log[q] = acked.ops[q] /\ instantiated[q] = acked.place[q]
    BY <1>1, <2>2 DEF Books
  <2>4. \A q \in Peer :
           log'[q] = IF Accepting(q, "ops")' THEN Append(acked.ops[q], [op |-> main.op.arg, author |-> From])
                     ELSE acked.ops[q]
    BY <2>2, <2>3
  <2>5. \A q \in Peer :
           instantiated'[q] = IF Accepting(q, "place")' THEN Append(acked.place[q], main.op.arg)
                              ELSE acked.place[q]
    BY <2>2, <2>3
  <2> QED  BY <1>1, <1>2, <2>4, <2>5 DEF Books
<1> QED  BY <1>2, <1>5, <1>6 DEF IInv

\* Objects that enter a store change nothing else.
LEMMA GainingIs ==
  ASSUME Kept, NEW p \in Peer, NEW i \in DOMAIN stores[p], NEW objs \in SUBSET Obj
  PROVE  LET new == Gaining(p, i, objs)
         IN  /\ new \in [Peer -> Seq(StoreOf)] /\ \A q \in Peer : new[q] # << >>
             /\ new[p][i].held = stores[p][i].held \cup objs
             /\ stores[p][i].held \cup objs = stores[p][i].held => new = stores
<1> DEFINE s == stores[p]
           k == s[i]
           l == [share |-> k.share, held |-> k.held \cup objs]
<1>1. stores \in [Peer -> Seq(StoreOf)] /\ s \in Seq(StoreOf)
  BY DEF Kept
<1>2. k \in StoreOf
  BY <1>1
<1>3. k = [share |-> k.share, held |-> k.held] /\ k.held \subseteq Obj /\ k.share \subseteq Peer
  BY <1>2 DEF StoreOf
<1>4. [k EXCEPT !.held = @ \cup objs] = l
  <2>1. \A a, b, x : [[share |-> a, held |-> b] EXCEPT !.held = x] = [share |-> a, held |-> x]
    OBVIOUS
  <2> HIDE DEF k
  <2> QED  BY <1>3, <2>1
<1>5. l \in StoreOf
  BY <1>3 DEF StoreOf
<1>6. Gaining(p, i, objs) = [stores EXCEPT ![p] = [s EXCEPT ![i] = [k EXCEPT !.held = @ \cup objs]]]
  BY DEF Gaining
<1>7. Gaining(p, i, objs) = [stores EXCEPT ![p] = [s EXCEPT ![i] = l]]
  BY <1>4, <1>6
<1> DEFINE t == [s EXCEPT ![i] = l]
<1>8. t \in Seq(StoreOf) /\ Len(t) = Len(s) /\ t[i] = l
  BY <1>1, <1>5, ExceptSeq
<1>9. t # << >>
  <2>1. s # << >>
    BY DEF Kept
  <2> QED  BY <1>1, <1>8, <2>1, EmptySeq
<1>10. l.held = k.held \cup objs
  OBVIOUS
<1>11. k.held \cup objs = k.held => t = s
  <2>1. k.held \cup objs = k.held => l = k
    BY <1>3
  <2> QED  BY <1>1, <2>1
<1> HIDE DEF s, t, l, k
<1>12. Gaining(p, i, objs) = [stores EXCEPT ![p] = t]
  BY <1>7 DEF t
<1>13. Gaining(p, i, objs) \in [Peer -> Seq(StoreOf)] /\ \A q \in Peer : Gaining(p, i, objs)[q] # << >>
  BY <1>1, <1>8, <1>9, <1>12 DEF Kept
<1>14. Gaining(p, i, objs)[p] = t
  BY <1>1, <1>12
<1>15. k.held \cup objs = k.held => Gaining(p, i, objs) = stores
  BY <1>1, <1>11, <1>12 DEF s
<1> QED  BY <1>8, <1>10, <1>13, <1>14, <1>15 DEF k, s

\* The invariant says nothing of the rest.
LEMMA StutterKeeps ==
  ASSUME IInv, UNCHANGED <<peers, up, backlog, srv, conns, main, acked>>
  PROVE  IInv'
<1>1. Shape' /\ Kept' /\ MainOK' /\ Quiet' /\ Stage' /\ Books'
  <2>1. Shape' /\ Kept' /\ MainOK' /\ Quiet'
    BY DEF IInv, Shape, Kept, MainOK, Quiet, peers, InRequest, Leaving, Asking
  <2>2. Asking => main.conn \in DOMAIN conns
    BY DEF IInv, Stage
  <2>3. Stage'
    BY <2>2, StageElsewhere DEF IInv, peers, At, To
  <2>4. Books'
    BY BooksElsewhere DEF IInv, peers
  <2> QED  BY <2>1, <2>3, <2>4
<1>2. Wired'
  BY DEF IInv, Wired, Holds, Busy
<1> QED  BY <1>1, <1>2 DEF IInv

\* Each request is answered with what was done.
LEMMA ServeKeeps ==
  ASSUME IInv, NEW p \in Peer,
         \/ ServeFetch(p) \/ ServeOps(p) \/ ServeHello(p) \/ ServePlace(p) \/ ServeQuery(p) \/ ServeReplay(p)
  PROVE  IInv'
<1>1. srv[p].pc = "serve" /\ Arrived(p, "request")
  BY DEF ServeFetch, ServeOps, ServeHello, ServePlace, ServeQuery, ServeReplay, Serving
<1>2. /\ Asking /\ Busy(p) /\ srv[p].conn = main.conn /\ p = To /\ Requested
      /\ Head(FromClient(p)) = main.ask /\ Asker(p) = From
  BY <1>1, RequestHere
<1>3. Kept /\ MainOK /\ Books
  BY DEF IInv
<1>4. /\ main.op \in Requests /\ From \in Peer /\ Asked(p) = main.ask.arg
      /\ main.ask.kind = "FETCH" => main.op.op = "fetch" /\ main.ask.arg = main.op.arg
      /\ main.ask.kind = "OPS" => main.op.op = "ops" /\ main.ask.arg = main.op.arg
      /\ main.ask.kind = "PLACE" => main.op.op = "place" /\ main.ask.arg = main.op.arg
      /\ main.ask.kind = "HELLO" => main.op.op = "derive"
      /\ main.ask.kind = "QUERY" => main.op.op = "derive" /\ main.ask.arg = main.op.arg
      /\ main.ask.kind = "REPLAY" => main.op.op = "net-pair"
  BY <1>2, <1>3, KindOfOp, ScriptAssumption DEF InRequest, Asking, Asked, From
<1>5. \A kind : Serving(p, kind) => main.ask.kind = kind
  BY <1>2 DEF Serving
<1>6. \A ok, data : /\ Reply(ok, data).type = "reply" /\ Reply(ok, data).ok = ok
                    /\ Reply(ok, data).data = data
  BY DEF Reply
<1>7. Frame("oversize").type = "oversize"
  BY DEF Frame
<1>8. ASSUME NEW ok \in BOOLEAN, NEW data, UNCHANGED main,
             main.op.op = "fetch" /\ ok => SharedWith(To, From, main.op.arg)',
             main.op.op = "ops" => ok
      PROVE  Tells(Reply(ok, data))'
  <2>1. To' = To /\ From' = From
    BY <1>8 DEF To, From
  <2> DEFINE f == Reply(ok, data)
  <2>2. f = Reply(f.ok, f.data) /\ f.ok = ok
    BY <1>6
  <2> HIDE DEF f
  <2> QED  BY <1>8, <2>1, <2>2 DEF Tells, f
<1>9. CASE ServeFetch(p)
  <2>1. main.op.op = "fetch" /\ Asked(p) = main.op.arg /\ Asker(p) = From
        /\ UNCHANGED <<peers, up, backlog, main, acked>>
    BY <1>2, <1>4, <1>5, <1>9 DEF ServeFetch
  <2>2. Kept'
    BY <1>3, <2>1 DEF Kept, peers
  <2>3. Serves(p, Asker(p), Asked(p)) => SharedWith(To, From, main.op.arg)'
    <3>1. Serves(p, Asker(p), Asked(p)) => SharedWith(To, From, main.op.arg)
      BY <1>2, <2>1 DEF Serves, Holders, SharedWith
    <3> QED  BY <2>1, <3>1 DEF SharedWith, To, From, peers
  <2>4. ASSUME NEW f, NEW pc \in {"serve", "blocked"}, ServerTakes(p, <<f>>, pc), Tells(f)'
        PROVE  IInv'
    BY <1>1, <2>1, <2>2, <2>4, AnswerKeeps DEF peers
  <2>5. Tells(Frame("oversize"))'
    BY <2>1 DEF Tells
  <2>6. Tells(Reply(FALSE, None))'
    BY <1>8, <2>1
  <2>7. CASE \E pc \in {"serve", "blocked"} : ServerTakes(p, <<Frame("oversize")>>, pc)
    BY <2>4, <2>5, <2>7
  <2>8. CASE Serves(p, Asker(p), Asked(p)) /\ ServerTakes(p, <<Reply(TRUE, Asked(p))>>, "serve")
    <3>1. PICK data : data = Asked(p)
      OBVIOUS
    <3>2. Tells(Reply(TRUE, data))'
      BY <1>8, <2>1, <2>3, <2>8
    <3>3. ServerTakes(p, <<Reply(TRUE, data)>>, "serve")
      BY <2>8, <3>1
    <3> QED  BY <2>4, <3>2, <3>3
  <2>9. CASE ServerTakes(p, <<Reply(FALSE, None)>>, "serve")
    BY <2>4, <2>6, <2>9
  <2> QED  BY <1>9, <2>7, <2>8, <2>9 DEF ServeFetch
<1>10. CASE ServeOps(p)
  <2>1. /\ main.op.op = "ops" /\ Asked(p) = main.op.arg /\ Asker(p) = From
        /\ log' = [log EXCEPT ![p] = Append(@, [op |-> main.op.arg, author |-> From])]
        /\ ServerTakes(p, <<Reply(TRUE, None)>>, "serve")
        /\ UNCHANGED <<accepted, run, stores, instantiated, memo, up, backlog, main, acked>>
    BY <1>2, <1>4, <1>5, <1>10 DEF ServeOps, Attributed, Author
  <2>2. [op |-> main.op.arg, author |-> From] \in Entry
    BY <1>4, <2>1, ScriptAssumption DEF Entry
  <2>3. log \in [Peer -> Seq(Entry)]
    BY <1>3 DEF Kept
  <2>4. Append(log[p], [op |-> main.op.arg, author |-> From]) \in Seq(Entry)
    BY <2>2, <2>3, AppendProperties
  <2>5. /\ log' \in [Peer -> Seq(Entry)]
        /\ \A q \in Peer : log'[q] = IF q = p THEN Append(log[q], [op |-> main.op.arg, author |-> From]) ELSE log[q]
    BY <2>1, <2>3, <2>4
  <2>6. Kept'
    BY <1>3, <2>1, <2>5 DEF Kept
  <2>7. Tells(Reply(TRUE, None))'
    BY <1>8, <2>1
  <2>8. Reply(TRUE, None).type = "reply" /\ Reply(TRUE, None).ok
    BY <1>6
  <2> QED  BY <1>1, <1>2, <2>1, <2>5, <2>6, <2>7, <2>8, AnswerKeeps
<1>11. CASE ServeHello(p)
  <2>1. PICK data : data = run[p]
    OBVIOUS
  <2>2. main.op.op = "derive" /\ ServerTakes(p, <<Reply(TRUE, data)>>, "serve")
        /\ UNCHANGED <<peers, up, backlog, main, acked>>
    BY <1>4, <1>5, <1>11, <2>1 DEF ServeHello
  <2>3. Kept'
    BY <1>3, <2>2 DEF Kept, peers
  <2>4. Tells(Reply(TRUE, data))'
    BY <1>8, <2>2
  <2> QED  BY <1>1, <2>2, <2>3, <2>4, AnswerKeeps DEF peers
<1>12. CASE ServePlace(p)
  <2>1. /\ main.op.op = "place" /\ Asked(p) = main.op.arg
        /\ UNCHANGED <<accepted, run, stores, log, memo, up, backlog, main, acked>>
    BY <1>4, <1>5, <1>12 DEF ServePlace
  <2>2. Tells(Reply(TRUE, None))' /\ Tells(Reply(FALSE, None))'
    BY <1>8, <2>1
  <2>3. /\ Reply(TRUE, None).type = "reply" /\ Reply(TRUE, None).ok = TRUE
        /\ Reply(FALSE, None).type = "reply" /\ Reply(FALSE, None).ok = FALSE
    BY <1>6
  <2>4. CASE /\ instantiated' = [instantiated EXCEPT ![p] = Append(@, Asked(p))]
             /\ ServerTakes(p, <<Reply(TRUE, None)>>, "serve")
    <3>1. main.op.arg \in Type
      BY <1>4, <2>1, ScriptAssumption
    <3>2. instantiated \in [Peer -> Seq(Type)]
      BY <1>3 DEF Kept
    <3>3. Append(instantiated[p], main.op.arg) \in Seq(Type)
      BY <3>1, <3>2, AppendProperties
    <3>4. /\ instantiated' \in [Peer -> Seq(Type)]
          /\ \A q \in Peer : instantiated'[q] = IF q = p THEN Append(instantiated[q], main.op.arg) ELSE instantiated[q]
      BY <2>1, <2>4, <3>2, <3>3
    <3>5. Kept'
      BY <1>3, <2>1, <3>4 DEF Kept
    <3> QED  BY <1>1, <1>2, <2>1, <2>2, <2>3, <2>4, <3>4, <3>5, AnswerKeeps
  <2>5. CASE ServerTakes(p, <<Reply(FALSE, None)>>, "serve") /\ UNCHANGED instantiated
    <3>1. Kept'
      BY <1>3, <2>1, <2>5 DEF Kept
    <3> QED  BY <1>1, <2>1, <2>2, <2>3, <2>5, <3>1, AnswerKeeps
  <2> QED  BY <1>12, <2>4, <2>5 DEF ServePlace
<1>13. CASE ServeQuery(p)
  <2> DEFINE type == Asked(p)[1]
             g == Asked(p)[2]
             new == {g} \cup (IF g \in memo[p] THEN {} ELSE {Take[g]})
  <2>1. /\ main.op.op = "derive" /\ g \in DOMAIN Take
        /\ UNCHANGED <<accepted, run, log, instantiated, up, backlog, main, acked>>
    BY <1>4, <1>5, <1>13, ScriptAssumption DEF ServeQuery
  <2>2. Tells(Reply(FALSE, None))'
    BY <1>8, <2>1
  <2>3. CASE /\ stores' = Gaining(p, 1, new)
             /\ memo' = [memo EXCEPT ![p] = @ \cup {g}]
             /\ ServerTakes(p, <<Reply(TRUE, Take[g])>>, "serve")
    <3>1. g \in Obj /\ Take[g] \in Obj
      BY <2>1, MeshAssumption
    <3>2. new \subseteq Obj
      BY <3>1
    <3>3. stores' \in [Peer -> Seq(StoreOf)] /\ \A q \in Peer : stores'[q] # << >>
      <4>1. 1 \in DOMAIN stores[p]
        BY <1>3, EmptySeq, LenProperties DEF Kept
      <4> HIDE DEF new
      <4> QED  BY <1>3, <2>3, <3>2, <4>1, GainingIs
    <3>4. memo' \in [Peer -> SUBSET DOMAIN Take]
      BY <1>3, <2>1, <2>3 DEF Kept
    <3>5. Kept'
      BY <1>3, <2>1, <3>3, <3>4 DEF Kept
    <3>6. PICK data : data = Take[g]
      OBVIOUS
    <3>7. ServerTakes(p, <<Reply(TRUE, data)>>, "serve") /\ Tells(Reply(TRUE, data))'
      BY <1>8, <2>1, <2>3, <3>6
    <3> HIDE DEF g, new, type
    <3> QED  BY <1>1, <2>1, <3>5, <3>7, AnswerKeeps
  <2>4. CASE ServerTakes(p, <<Reply(FALSE, None)>>, "serve") /\ UNCHANGED <<stores, memo>>
    <3>1. Kept'
      BY <1>3, <2>1, <2>4 DEF Kept
    <3> QED  BY <1>1, <2>1, <2>2, <2>4, <3>1, AnswerKeeps
  <2> QED  BY <1>13, <2>3, <2>4 DEF ServeQuery
<1>14. CASE ServeReplay(p)
  <2>1. main.op.op = "net-pair" /\ UNCHANGED <<peers, up, backlog, main, acked>>
    BY <1>4, <1>5, <1>14 DEF ServeReplay
  <2>2. Kept'
    BY <1>3, <2>1 DEF Kept, peers
  <2>3. Tells(Reply(TRUE, None))'
    BY <1>8, <2>1
  <2>4. CASE ServerTakes(p, <<Reply(TRUE, None)>>, "serve")
    BY <1>1, <2>1, <2>2, <2>3, <2>4, AnswerKeeps DEF peers
  <2>5. CASE UNCHANGED <<conns, srv>>
    BY <2>1, <2>5, StutterKeeps
  <2> QED  BY <1>14, <2>4, <2>5 DEF ServeReplay
<1> QED  BY <1>9, <1>10, <1>11, <1>12, <1>13, <1>14

-----------------------------------------------------------------------------
(* The steps of the main thread                                            *)

\* A new connection waits in the backlog of its server.
LEMMA ConnectsOne ==
  ASSUME Shape, Wired, NEW p \in Peer, NEW from, NEW sends, Connects(p, from, sends), srv' = srv
  PROVE  /\ Shape' /\ Wired' /\ Unused \notin DOMAIN conns
         /\ DOMAIN conns' = DOMAIN conns \cup {Unused}
         /\ \A c \in DOMAIN conns : conns'[c] = conns[c]
         /\ conns'[Unused] = Conn(from, sends, << >>, TRUE, TRUE)
         /\ Unused \in ToSet(backlog'[p])
<1> DEFINE k == Unused
           l == Conn(from, sends, << >>, TRUE, TRUE)
<1>1. k \in Nat /\ k \notin DOMAIN conns
  BY UnusedFresh DEF Shape
<1>2. /\ DOMAIN conns' = DOMAIN conns \cup {k} /\ conns'[k] = l
      /\ \A c \in DOMAIN conns : conns'[c] = conns[c]
  BY <1>1 DEF Connects
<1>3. backlog' = [backlog EXCEPT ![p] = Append(@, k)]
  BY DEF Connects
<1>4. Link(l) /\ l.sOpen
  BY DEF Link, Conn
<1> HIDE DEF k, l
<1>5. \A q \in Peer : k \notin Holds(q)
  BY <1>1 DEF Wired
<1>6. backlog[p] \in Seq(Nat) /\ k \notin ToSet(backlog[p]) /\ Distinct(backlog[p])
  BY <1>5 DEF Shape, Wired, Holds
<1>7. /\ Append(backlog[p], k) \in Seq(Nat) /\ ToSet(Append(backlog[p], k)) = ToSet(backlog[p]) \cup {k}
      /\ Distinct(Append(backlog[p], k))
  BY <1>1, <1>6, SetOfAppend
<1>8. /\ backlog' \in [Peer -> Seq(Nat)] /\ backlog'[p] = Append(backlog[p], k)
      /\ \A q \in Peer : q # p => backlog'[q] = backlog[q]
  BY <1>3, <1>7 DEF Shape
<1>9. IsFiniteSet(DOMAIN conns')
  BY <1>2, FS_AddElement DEF Shape
<1>10. Shape'
  <2>1. \A c \in DOMAIN conns' : Link(conns'[c])
    BY <1>2, <1>4 DEF Shape
  <2>2. DOMAIN conns' \subseteq Nat
    BY <1>1, <1>2 DEF Shape
  <2> QED  BY <1>8, <1>9, <2>1, <2>2 DEF Shape, Link
<1>11. /\ Holds(p)' = Holds(p) \cup {k} /\ \A q \in Peer : q # p => Holds(q)' = Holds(q)
       /\ \A q \in Peer : Busy(q)' <=> Busy(q)
  BY <1>7, <1>8 DEF Holds, Busy
<1>12. Wired'
  <2>1. \A q \in Peer : \A c \in Holds(q)' : c \in DOMAIN conns' /\ conns'[c].sOpen
    BY <1>2, <1>4, <1>11 DEF Wired
  <2>2. \A q, r \in Peer : q # r => Holds(q)' \cap Holds(r)' = {}
    BY <1>5, <1>11 DEF Wired
  <2>3. Distinct(backlog'[p]) /\ (Busy(p)' => srv'[p].conn \notin ToSet(backlog'[p]))
    <3>1. Busy(p) => srv[p].conn # k /\ srv[p].conn \notin ToSet(backlog[p])
      BY <1>5 DEF Wired, Holds
    <3> QED  BY <1>7, <1>8, <1>11, <3>1
  <2>4. \A q \in Peer : q # p => Distinct(backlog'[q]) /\ (Busy(q)' => srv'[q].conn \notin ToSet(backlog'[q]))
    BY <1>8, <1>11 DEF Wired
  <2> QED  BY <2>1, <2>2, <2>3, <2>4 DEF Wired
<1> QED  BY <1>1, <1>2, <1>7, <1>8, <1>10, <1>12 DEF k, l

\* Local ops: the script owns the peers between its requests.
LEMMA LocalKeeps ==
  ASSUME IInv, main = Idle, UNCHANGED <<log, instantiated, up, backlog, srv, conns, main, acked>>, Kept'
  PROVE  IInv'
<1>1. main.pc = "idle"
  BY DEF Idle
<1>2. Shape' /\ MainOK' /\ Quiet' /\ Stage'
  BY <1>1 DEF IInv, Shape, MainOK, Quiet, InRequest, Leaving, Asking, Stage
<1>3. Wired'
  BY DEF IInv, Wired, Holds, Busy
<1>4. Books'
  BY <1>1, BooksElsewhere DEF IInv
<1> QED  BY <1>2, <1>3, <1>4 DEF IInv

\* The main thread starts something at the end of what it did before, and nothing else
\* changes.
LEMMA BeginsKeeps ==
  ASSUME IInv, main.pc \in {"idle", "join"}, UNCHANGED <<peers, up, backlog, srv, conns, acked>>,
         main'.pc \in {"dial", "stop", "over"}, MainOK'
  PROVE  IInv'
<1>1. Shape' /\ Kept'
  BY DEF IInv, Shape, Kept, peers
<1>2. Wired'
  BY DEF IInv, Wired, Holds, Busy
<1>3. Quiet' /\ Stage'
  BY DEF IInv, Quiet, Stage, Asking
<1>4. Books'
  <2>1. \A q \in Peer, op \in {"ops", "place"} : ~Accepting(q, op) /\ ~Accepting(q, op)'
    BY DEF Accepting
  <2> QED  BY <2>1 DEF IInv, Books, peers
<1> QED  BY <1>1, <1>2, <1>3, <1>4 DEF IInv

\* The local ops keep what a script holds typed.
LEMMA OpsKeep ==
  ASSUME IInv, Op
  PROVE  IInv'
<1>1. Kept /\ MainOK
  BY DEF IInv
<1>2. ASSUME NEW l \in Locals, l.op = "pair", Pair(l.on, l.arg)  PROVE IInv'
  <2>1. l.on \in Peer /\ l.arg \in Peer
    BY <1>2, ScriptAssumption
  <2>2. Kept'
    BY <1>1, <1>2, <2>1 DEF Pair, Paired, Kept
  <2> QED  BY <1>2, <2>2, LocalKeeps DEF Pair
<1>3. ASSUME NEW l \in Locals, l.op = "revoke", Revoke(l.on, l.arg)  PROVE IInv'
  <2>1. l.on \in Peer
    BY ScriptAssumption
  <2>2. Kept'
    BY <1>1, <1>3, <2>1 DEF Revoke, Kept
  <2> QED  BY <1>3, <2>2, LocalKeeps DEF Revoke
<1>4. ASSUME NEW l \in Locals, l.op = "advertise", Advertise(l.on, l.arg)  PROVE IInv'
  <2>1. l.on \in Peer /\ l.arg \subseteq Type
    BY <1>4, ScriptAssumption
  <2>2. Kept'
    BY <1>1, <1>4, <2>1 DEF Advertise, Kept
  <2> QED  BY <1>4, <2>2, LocalKeeps DEF Advertise
<1>5. ASSUME NEW l \in Locals, l.op = "share-store", ShareStore(l.on, l.arg)  PROVE IInv'
  <2>1. l.on \in Peer /\ l.arg \subseteq Peer
    BY <1>5, ScriptAssumption
  <2> DEFINE new == [share |-> l.arg, held |-> {}]
  <2>2. new \in StoreOf /\ stores \in [Peer -> Seq(StoreOf)] /\ stores' = [stores EXCEPT ![l.on] = Append(@, new)]
    BY <1>1, <1>5, <2>1 DEF ShareStore, StoreOf, Kept
  <2> HIDE DEF new
  <2>3. Append(stores[l.on], new) \in Seq(StoreOf) /\ Append(stores[l.on], new) # << >>
    BY <2>1, <2>2, AppendProperties
  <2>4. stores' \in [Peer -> Seq(StoreOf)] /\ \A q \in Peer : stores'[q] # << >>
    BY <1>1, <2>1, <2>2, <2>3 DEF Kept
  <2>5. Kept'
    BY <1>1, <1>5, <2>4 DEF ShareStore, Kept
  <2> QED  BY <1>5, <2>5, LocalKeeps DEF ShareStore
<1>6. ASSUME NEW l \in Locals, l.op = "put", Put(l.on, Len(stores[l.on]), l.arg)  PROVE IInv'
  <2>1. l.on \in Peer /\ l.arg \in Obj
    BY <1>6, ScriptAssumption
  <2> DEFINE i == Len(stores[l.on])
  <2>2. i \in DOMAIN stores[l.on]
    BY <1>1, <2>1, EmptySeq, LenProperties DEF Kept
  <2> HIDE DEF i
  <2>3. stores' = Gaining(l.on, i, {l.arg}) /\ {l.arg} \in SUBSET Obj
    BY <1>6, <2>1 DEF Put, i
  <2>4. stores' \in [Peer -> Seq(StoreOf)] /\ \A q \in Peer : stores'[q] # << >>
    BY <1>1, <2>1, <2>2, <2>3, GainingIs
  <2>5. Kept'
    BY <1>1, <1>6, <2>4 DEF Put, Kept
  <2> QED  BY <1>6, <2>5, LocalKeeps DEF Put
<1>7. ASSUME NEW r \in Requests, StartRequest(r)  PROVE IInv'
  <2>1. main.pc = "idle" /\ UNCHANGED <<peers, up, backlog, srv, conns, acked>>
    BY <1>7 DEF StartRequest, Idle
  <2>2. r.op \in {"fetch", "ops", "place", "derive", "net-pair"} /\ r.to \in Seq(Peer) /\ r.to # << >>
    BY ScriptAssumption
  <2>3. PICK ask : /\ main' = [pc |-> "dial", op |-> r, left |-> r.to, conn |-> 0, ask |-> ask]
                   /\ ask = CASE r.op = "fetch" -> Request("FETCH", r.arg)
                              [] r.op = "ops" -> Request("OPS", r.arg)
                              [] r.op = "place" -> Request("PLACE", r.arg)
                              [] r.op = "derive" -> Request("HELLO", None)
                              [] r.op = "net-pair" -> Request("REPLAY", DeliveryLog(r.arg))
    BY <1>7 DEF StartRequest, Requesting
  <2>4. ask \in AskOf(r)
    <3>1. CASE r.op = "fetch"  BY <2>3, <3>1 DEF AskOf
    <3>2. CASE r.op = "ops"  BY <2>3, <3>2 DEF AskOf
    <3>3. CASE r.op = "place"  BY <2>3, <3>3 DEF AskOf
    <3>4. CASE r.op = "derive"  BY <2>3, <3>4 DEF AskOf
    <3>5. CASE r.op = "net-pair"  BY <2>3, <3>5 DEF AskOf
    <3> QED  BY <2>2, <3>1, <3>2, <3>3, <3>4, <3>5
  <2>5. /\ main'.pc = "dial" /\ main'.op = r /\ main'.left = r.to /\ main'.conn = 0 /\ main'.ask = ask
        /\ main' = [pc |-> main'.pc, op |-> main'.op, left |-> main'.left, conn |-> main'.conn, ask |-> main'.ask]
    BY <2>3
  <2>6. MainOK'
    BY <2>2, <2>4, <2>5 DEF MainOK, InRequest, Leaving
  <2> QED  BY <2>1, <2>5, <2>6, BeginsKeeps
<1>8. ASSUME NEW p \in Peer, NEW payload \in Probes, Probe(p, payload)  PROVE IInv'
  <2>1. main.pc = "idle" /\ UNCHANGED <<peers, up, srv, acked>> /\ main' = [pc |-> "probe", conn |-> Unused]
        /\ Connects(p, None, payload)
    BY <1>8 DEF Probe, Idle
  <2>2. /\ Shape' /\ Wired' /\ Unused \notin DOMAIN conns /\ DOMAIN conns' = DOMAIN conns \cup {Unused}
        /\ \A c \in DOMAIN conns : conns'[c] = conns[c]
        /\ conns'[Unused] = Conn(None, payload, << >>, TRUE, TRUE)
    BY <2>1, ConnectsOne DEF IInv
  <2>3. main'.pc = "probe" /\ main'.conn = Unused
    BY <2>1
  <2>4. payload \in Seq({Frame("garbage")})
    BY ScriptAssumption DEF Frame
  <2>5. Noise(conns'[Unused]) /\ conns'[Unused].cOpen
    BY <2>2, <2>4 DEF Noise, Conn
  <2>6. Quiet'
    <3>1. \A c \in DOMAIN conns : Noise(conns[c])
      BY <2>1 DEF IInv, Quiet, Asking
    <3> QED  BY <2>2, <2>5, <3>1 DEF Quiet, Noise
  <2>7. MainOK'
    BY <2>2, <2>3, <2>5 DEF MainOK, InRequest, Leaving
  <2>8. Stage' /\ Kept'
    BY <2>1, <2>3 DEF IInv, Stage, Asking, Kept, peers
  <2>9. Books'
    <3>1. \A q \in Peer, op \in {"ops", "place"} : ~Accepting(q, op) /\ ~Accepting(q, op)'
      BY <2>1, <2>3 DEF Accepting
    <3> QED  BY <2>1, <3>1 DEF IInv, Books, peers
  <2> QED  BY <2>2, <2>6, <2>7, <2>8, <2>9 DEF IInv
<1> QED  BY <1>2, <1>3, <1>4, <1>5, <1>6, <1>7, <1>8 DEF Op

\* A request the main thread is in has all its parts.
LEMMA RequestingIs ==
  ASSUME NEW pc \in {"dial", "hello", "header", "reply"}, NEW op \in Requests,
         NEW left \in Seq(Peer), left # << >>, NEW conn, NEW ask \in AskOf(op),
         main' = Requesting(pc, op, left, conn, ask)
  PROVE  /\ MainOK' /\ main'.pc = pc /\ main'.op = op /\ main'.left = left /\ main'.conn = conn
         /\ main'.ask = ask
<1>1. /\ main'.pc = pc /\ main'.op = op /\ main'.left = left /\ main'.conn = conn /\ main'.ask = ask
      /\ main' = [pc |-> pc, op |-> op, left |-> left, conn |-> conn, ask |-> ask]
  BY DEF Requesting
<1>2. MainOK'
  BY <1>1 DEF MainOK, InRequest, Leaving
<1> QED  BY <1>1, <1>2

\* The dial: the hello is on its way, in a connection of its own.
LEMMA DialKeeps ==
  ASSUME IInv, Dial
  PROVE  IInv'
<1>1. Shape /\ Kept /\ Wired /\ MainOK /\ Quiet /\ Stage /\ Books /\ InRequest /\ ~Asking
      /\ main.pc = "dial" /\ UNCHANGED <<peers, up, srv, acked>>
  BY DEF IInv, Dial, InRequest, Asking
<1>2. /\ main' = Requesting("hello", main.op, main.left, Unused, main.ask)
      /\ Connects(To, From, <<Frame("hello")>>) /\ To \in Peer
  BY <1>1, ToIsPeer DEF Dial
<1>3. main.op \in Requests /\ main.left \in Seq(Peer) /\ main.left # << >> /\ main.ask \in AskOf(main.op)
  BY <1>1 DEF MainOK
<1>4. MainOK' /\ main'.pc = "hello" /\ main'.op = main.op /\ main'.left = main.left /\ main'.conn = Unused
  BY <1>2, <1>3, RequestingIs
<1>5. /\ Shape' /\ Wired' /\ Unused \notin DOMAIN conns /\ DOMAIN conns' = DOMAIN conns \cup {Unused}
      /\ \A c \in DOMAIN conns : conns'[c] = conns[c]
      /\ conns'[Unused] = Conn(From, <<Frame("hello")>>, << >>, TRUE, TRUE)
      /\ Unused \in ToSet(backlog'[To])
  BY <1>1, <1>2, ConnectsOne
<1>6. To' = To /\ From' = From /\ Asking'
  BY <1>4 DEF To, From, Asking
<1>7. Quiet'
  BY <1>1, <1>4, <1>5, <1>6 DEF Quiet
<1>8. Calling'
  BY <1>4, <1>5, <1>6 DEF Calling, Carries, Conn
<1>9. Stage'
  BY <1>4, <1>5, <1>6, <1>8 DEF Stage, Conn
<1>10. Kept'
  BY <1>1 DEF Kept, peers
<1>11. Books'
  <2>1. \A q \in Peer, op \in {"ops", "place"} : ~Accepting(q, op) /\ ~Accepting(q, op)'
    BY <1>1, <1>4 DEF Accepting
  <2> QED  BY <1>1, <2>1 DEF Books, peers
<1> QED  BY <1>4, <1>5, <1>7, <1>9, <1>10, <1>11 DEF IInv

\* The client sends its next frame and waits for the answer.
LEMMA SendsMain ==
  ASSUME IInv, Asking, NEW pc \in {"header", "reply"}, NEW frame, ClientSends(frame), main' = [main EXCEPT !.pc = pc],
         UNCHANGED <<peers, up, backlog, srv, acked>>, ~Answered("reply"),
         conns[main.conn].c2s = << >>, Tail(conns[main.conn].s2c) = << >>
  PROVE  /\ Shape' /\ Kept' /\ Wired' /\ MainOK' /\ Quiet' /\ Books' /\ Asking' /\ To' = To /\ From' = From
         /\ main'.pc = pc /\ main'.conn = main.conn /\ main'.ask = main.ask /\ main.conn \in DOMAIN conns'
         /\ conns'[main.conn].c2s = <<frame>> /\ conns'[main.conn].s2c = << >>
         /\ conns'[main.conn].from = From /\ conns'[main.conn].cOpen
         /\ conns'[main.conn].sOpen = conns[main.conn].sOpen
         /\ \A x : At(x) => At(x)'
<1> DEFINE k == main.conn
           l == Conn(conns[k].from, Append(conns[k].c2s, frame), Tail(conns[k].s2c), conns[k].cOpen, conns[k].sOpen)
<1>1. /\ Shape /\ Kept /\ Wired /\ MainOK /\ Quiet /\ Stage /\ Books /\ InRequest
      /\ k \in DOMAIN conns /\ conns[k].from = From /\ conns[k].cOpen
  BY DEF IInv, Stage, Asking, InRequest
<1>2. DOMAIN conns' = DOMAIN conns /\ conns'[k] = l /\ \A c \in DOMAIN conns : c # k => conns'[c] = conns[c]
  BY <1>1, SendsOne
<1>3. /\ l.from = From /\ l.c2s = <<frame>> /\ l.s2c = << >> /\ l.cOpen = conns[k].cOpen
      /\ l.sOpen = conns[k].sOpen
  BY <1>1, OneFrame DEF Conn
<1>4. main = [pc |-> main.pc, op |-> main.op, left |-> main.left, conn |-> main.conn, ask |-> main.ask]
  BY <1>1 DEF MainOK
<1>5. main' = Requesting(pc, main.op, main.left, main.conn, main.ask)
  <2>1. \A a, b, c, d, e, x : [[pc |-> a, op |-> b, left |-> c, conn |-> d, ask |-> e] EXCEPT !.pc = x]
                                = [pc |-> x, op |-> b, left |-> c, conn |-> d, ask |-> e]
    OBVIOUS
  <2> QED  BY <1>4, <2>1 DEF Requesting
<1>6. MainOK' /\ main'.pc = pc /\ main'.op = main.op /\ main'.left = main.left /\ main'.conn = k /\ main'.ask = main.ask
  BY <1>1, <1>5, RequestingIs DEF MainOK
<1> HIDE DEF l, k
<1>7. Link(l)
  BY <1>1, <1>3 DEF Shape, Link
<1>8. Shape'
  BY <1>1, <1>2, <1>7, ShapeKept DEF Shape
<1>9. Wired'
  BY <1>1, <1>2, <1>3, WiredByClient
<1>10. Asking' /\ To' = To /\ From' = From
  BY <1>6 DEF Asking, To, From
<1>11. Quiet'
  BY <1>1, <1>2, <1>6, <1>10 DEF Quiet, k
<1>12. Kept'
  BY <1>1 DEF Kept, peers
<1>13. \A x : At(x) => At(x)'
  BY <1>6, <1>10 DEF At, k
<1>14. Books'
  <2>1. ~Answered("reply")'
    BY <1>2, <1>3, <1>6 DEF Answered, FromServer, k
  <2>2. \A q \in Peer, op \in {"ops", "place"} : ~Accepting(q, op) /\ ~Accepting(q, op)'
    BY <2>1 DEF Accepting
  <2> QED  BY <1>1, <2>2 DEF Books, peers
<1> QED  BY <1>1, <1>2, <1>3, <1>6, <1>8, <1>9, <1>10, <1>11, <1>12, <1>13, <1>14 DEF k

\* The responder's hello is in: if it is admitted here too, the header follows.
LEMMA InitiateHelloKeeps ==
  ASSUME IInv, InitiateHello
  PROVE  IInv'
<1>1. main.pc = "hello" /\ Asking /\ To \in accepted[From] /\ Stage /\ UNCHANGED <<peers, up, backlog, srv, acked>>
      /\ ClientSends(Frame("header")) /\ main' = [main EXCEPT !.pc = "header"]
  BY DEF IInv, InitiateHello, Asking, Admitted
<1>2. FromServer # << >>
  BY DEF InitiateHello, Answered
<1>3. Welcomed \/ Refused
  BY <1>1, <1>2 DEF Stage, Calling, Offering, Unheard, Opened, Requested, Replied, Carries, FromServer
<1>4. conns[main.conn].c2s = << >> /\ conns[main.conn].s2c = <<Frame("hello")>>
  BY <1>3 DEF Welcomed, Refused, Carries
<1>5. Tail(conns[main.conn].s2c) = << >> /\ ~Answered("reply")
  BY <1>4, OneFrame DEF Answered, FromServer, Frame
<1>6. /\ Shape' /\ Kept' /\ Wired' /\ MainOK' /\ Quiet' /\ Books' /\ Asking' /\ To' = To /\ From' = From
      /\ main'.pc = "header" /\ main'.conn = main.conn /\ main.conn \in DOMAIN conns'
      /\ conns'[main.conn].c2s = <<Frame("header")>> /\ conns'[main.conn].s2c = << >>
      /\ conns'[main.conn].from = From /\ conns'[main.conn].cOpen
      /\ conns'[main.conn].sOpen = conns[main.conn].sOpen
      /\ \A x : At(x) => At(x)'
  BY <1>1, <1>4, <1>5, SendsMain
<1>7. Welcomed => Offering'
  BY <1>1, <1>6 DEF Welcomed, Offering, Carries, Mutual, peers
<1>8. Refused => Unheard'
  BY <1>6 DEF Refused, Unheard, Carries
<1>9. Stage'
  BY <1>3, <1>6, <1>7, <1>8 DEF Stage
<1> QED  BY <1>6, <1>9 DEF IInv

\* The channel stands: the request follows.
LEMMA InitiateHeaderKeeps ==
  ASSUME IInv, InitiateHeader
  PROVE  IInv'
<1>1. main.pc = "header" /\ Asking /\ Stage /\ UNCHANGED <<peers, up, backlog, srv, acked>>
      /\ ClientSends(main.ask) /\ main' = [main EXCEPT !.pc = "reply"]
  BY DEF IInv, InitiateHeader, Asking
<1>2. FromServer # << >>
  BY DEF InitiateHeader, Answered
<1>3. Opened
  BY <1>1, <1>2 DEF Stage, Calling, Welcomed, Refused, Offering, Unheard, Requested, Replied, Carries, FromServer
<1>4. conns[main.conn].c2s = << >> /\ conns[main.conn].s2c = <<Frame("header")>> /\ At("serve") /\ Mutual
  BY <1>3 DEF Opened, Carries
<1>5. Tail(conns[main.conn].s2c) = << >> /\ ~Answered("reply")
  BY <1>4, OneFrame DEF Answered, FromServer, Frame
<1>6. PICK frame : frame = main.ask
  OBVIOUS
<1>7. /\ Shape' /\ Kept' /\ Wired' /\ MainOK' /\ Quiet' /\ Books' /\ Asking' /\ To' = To /\ From' = From
      /\ main'.pc = "reply" /\ main'.conn = main.conn /\ main'.ask = frame /\ main.conn \in DOMAIN conns'
      /\ conns'[main.conn].c2s = <<frame>> /\ conns'[main.conn].s2c = << >>
      /\ conns'[main.conn].from = From /\ conns'[main.conn].cOpen
      /\ \A x : At(x) => At(x)'
  BY <1>1, <1>4, <1>5, <1>6, SendsMain
<1>8. Requested'
  BY <1>1, <1>4, <1>7 DEF Requested, Carries, Mutual, peers
<1>9. Stage'
  BY <1>7, <1>8 DEF Stage
<1> QED  BY <1>7, <1>9 DEF IInv

\* How a request is resolved: the books say what was answered, and what enters a store
\* is what was fetched.
LEMMA ResolvesIs ==
  ASSUME IInv, Asking, NEW ok \in BOOLEAN, NEW data, Resolves(ok, data), up' = up,
         \A q \in Peer, op \in {"ops", "place"} : Accepting(q, op) <=> q = To /\ main.op.op = op /\ ok
  PROVE  /\ main'.pc \in {"idle", "dial", "stop"} /\ MainOK' /\ Books' /\ Kept'
         /\ accepted' = accepted
         /\ stores' # stores => ok /\ main.op.op = "fetch" /\ data = main.op.arg
                                /\ stores' = Gaining(From, 1, {main.op.arg})
<1>1. Kept /\ MainOK /\ Books /\ InRequest
  BY DEF IInv, InRequest, Asking
<1>2. /\ main.op \in Requests /\ main.left \in Seq(Peer) /\ main.left # << >> /\ main.ask \in AskOf(main.op)
      /\ From \in Peer /\ To \in Peer
  BY <1>1, ToIsPeer, ScriptAssumption DEF MainOK, From
<1>3. Order \in Seq(Peer) /\ Order # << >>
  BY MeshAssumption
<1>4. \A q \in Peer :
        /\ log[q] = IF q = To /\ main.op.op = "ops" /\ ok
                    THEN Append(acked.ops[q], [op |-> main.op.arg, author |-> From]) ELSE acked.ops[q]
        /\ instantiated[q] = IF q = To /\ main.op.op = "place" /\ ok
                             THEN Append(acked.place[q], main.op.arg) ELSE acked.place[q]
  BY <1>1 DEF Books
<1>5. /\ acked = [ops |-> acked.ops, place |-> acked.place]
      /\ acked.ops \in [Peer -> Seq(Entry)] /\ acked.place \in [Peer -> Seq(Type)]
  BY <1>1 DEF Books
<1>6. ASSUME main'.pc # "reply"  PROVE \A q, op : ~Accepting(q, op)'
  BY <1>6 DEF Accepting
<1>7. ASSUME NEW good \in BOOLEAN, Concludes(good), UNCHANGED <<log, instantiated>>,
             main.op.op \in {"ops", "place"} => (good <=> ok)
      PROVE  main'.pc = "idle" /\ MainOK' /\ Books'
  <2>1. main'.pc = "idle" /\ main' = Idle
    BY <1>7 DEF Concludes, Idle
  <2>2. MainOK'
    BY <2>1 DEF MainOK, InRequest, Leaving
  <2> DEFINE o == IF good /\ main.op.op = "ops"
                  THEN [acked.ops EXCEPT ![To] = Append(@, [op |-> main.op.arg, author |-> From])]
                  ELSE acked.ops
             pl == IF good /\ main.op.op = "place"
                   THEN [acked.place EXCEPT ![To] = Append(@, main.op.arg)] ELSE acked.place
  <2>3. acked' = [ops |-> o, place |-> pl]
    BY <1>7 DEF Concludes
  <2>4. main.op.op = "ops" => [op |-> main.op.arg, author |-> From] \in Entry
    BY <1>2, ScriptAssumption DEF Entry
  <2>5. /\ o \in [Peer -> Seq(Entry)]
        /\ \A q \in Peer : o[q] = IF good /\ main.op.op = "ops" /\ q = To
                                  THEN Append(acked.ops[q], [op |-> main.op.arg, author |-> From]) ELSE acked.ops[q]
    <3>1. CASE good /\ main.op.op = "ops"
      <4> DEFINE e == [op |-> main.op.arg, author |-> From]
      <4>1. e \in Entry
        BY <2>4, <3>1
      <4> HIDE DEF e
      <4>2. Append(acked.ops[To], e) \in Seq(Entry)
        BY <1>2, <1>5, <4>1, AppendProperties
      <4>3. o = [acked.ops EXCEPT ![To] = Append(@, e)]
        BY <3>1 DEF e
      <4>4. o \in [Peer -> Seq(Entry)] /\ \A q \in Peer : o[q] = IF q = To THEN Append(acked.ops[q], e) ELSE acked.ops[q]
        BY <1>2, <1>5, <4>2, <4>3
      <4> QED  BY <3>1, <4>4 DEF e
    <3>2. CASE ~(good /\ main.op.op = "ops")
      BY <1>5, <3>2
    <3> QED  BY <3>1, <3>2
  <2>6. /\ pl \in [Peer -> Seq(Type)]
        /\ \A q \in Peer : pl[q] = IF good /\ main.op.op = "place" /\ q = To
                                   THEN Append(acked.place[q], main.op.arg) ELSE acked.place[q]
    <3>1. CASE good /\ main.op.op = "place"
      <4>1. main.op.arg \in Type
        BY <1>2, <3>1, ScriptAssumption
      <4>2. Append(acked.place[To], main.op.arg) \in Seq(Type)
        BY <1>2, <1>5, <4>1, AppendProperties
      <4>3. pl = [acked.place EXCEPT ![To] = Append(@, main.op.arg)]
        BY <3>1
      <4>4. /\ pl \in [Peer -> Seq(Type)]
            /\ \A q \in Peer : pl[q] = IF q = To THEN Append(acked.place[q], main.op.arg) ELSE acked.place[q]
        BY <1>2, <1>5, <4>2, <4>3
      <4> QED  BY <3>1, <4>4
    <3>2. CASE ~(good /\ main.op.op = "place")
      BY <1>5, <3>2
    <3> QED  BY <3>1, <3>2
  <2> HIDE DEF o, pl
  <2>7. acked'.ops = o /\ acked'.place = pl /\ acked' = [ops |-> acked'.ops, place |-> acked'.place]
    BY <2>3
  <2>8. \A q \in Peer : log'[q] = acked'.ops[q]
    <3>1. good /\ main.op.op = "ops" <=> main.op.op = "ops" /\ ok
      BY <1>7
    <3>2. \A q \in Peer : log[q] = o[q]
      <4> SUFFICES ASSUME NEW q \in Peer  PROVE log[q] = o[q]
        OBVIOUS
      <4>1. CASE q = To /\ main.op.op = "ops" /\ ok
        BY <1>4, <2>5, <3>1, <4>1
      <4>2. CASE ~(q = To /\ main.op.op = "ops" /\ ok)
        <5>1. log[q] = acked.ops[q]
          BY <1>4, <4>2
        <5>2. o[q] = acked.ops[q]
          BY <2>5, <3>1, <4>2
        <5> QED  BY <5>1, <5>2
      <4> QED  BY <4>1, <4>2
    <3> QED  BY <1>7, <2>7, <3>2
  <2>9. \A q \in Peer : instantiated'[q] = acked'.place[q]
    <3>1. good /\ main.op.op = "place" <=> main.op.op = "place" /\ ok
      BY <1>7
    <3>2. \A q \in Peer : instantiated[q] = pl[q]
      <4> SUFFICES ASSUME NEW q \in Peer  PROVE instantiated[q] = pl[q]
        OBVIOUS
      <4>1. CASE q = To /\ main.op.op = "place" /\ ok
        BY <1>4, <2>6, <3>1, <4>1
      <4>2. CASE ~(q = To /\ main.op.op = "place" /\ ok)
        <5>1. instantiated[q] = acked.place[q]
          BY <1>4, <4>2
        <5>2. pl[q] = acked.place[q]
          BY <2>6, <3>1, <4>2
        <5> QED  BY <5>1, <5>2
      <4> QED  BY <4>1, <4>2
    <3> QED  BY <1>7, <2>7, <3>2
  <2>10. \A q, op : ~Accepting(q, op)'
    BY <1>6, <2>1
  <2>11. Books'
    BY <2>5, <2>6, <2>7, <2>8, <2>9, <2>10 DEF Books
  <2> QED  BY <2>1, <2>2, <2>11
<1>8. ASSUME UNCHANGED <<log, instantiated, acked>>, main'.pc # "reply",
             main.op.op \in {"ops", "place"} => ~ok
      PROVE  Books'
  BY <1>4, <1>5, <1>6, <1>8 DEF Books
<1>9. ASSUME TriesNext, ~LastCandidate
      PROVE  main'.pc = "dial" /\ MainOK'
  <2>1. Tail(main.left) \in Seq(Peer) /\ Tail(main.left) # << >>
    BY <1>2, <1>9, HeadTailProperties DEF LastCandidate
  <2> QED  BY <1>2, <1>9, <2>1, RequestingIs DEF TriesNext
<1>10. UNCHANGED peers => Kept'
  BY <1>1 DEF Kept, peers
<1>11. CASE Fetched(ok, data)
  <2>1. /\ main.op.op = "fetch" /\ Concludes(ok /\ data = main.op.arg)
        /\ stores' = (IF ok /\ data = main.op.arg THEN Gaining(From, 1, {data}) ELSE stores)
        /\ UNCHANGED <<accepted, run, log, instantiated, memo>>
    BY <1>11 DEF Fetched
  <2>2. main.op.arg \in Obj
    BY <1>2, <2>1, ScriptAssumption
  <2>3. 1 \in DOMAIN stores[From]
    BY <1>1, <1>2, EmptySeq, LenProperties DEF Kept
  <2>4. stores' \in [Peer -> Seq(StoreOf)] /\ \A q \in Peer : stores'[q] # << >>
    <3>1. CASE ok /\ data = main.op.arg
      <4>1. stores' = Gaining(From, 1, {data}) /\ {data} \in SUBSET Obj
        BY <2>1, <2>2, <3>1
      <4> QED  BY <1>1, <1>2, <2>3, <4>1, GainingIs
    <3>2. CASE ~(ok /\ data = main.op.arg)
      BY <1>1, <2>1, <3>2 DEF Kept
    <3> QED  BY <3>1, <3>2
  <2>5. Kept'
    BY <1>1, <2>1, <2>4 DEF Kept
  <2> DEFINE good == ok /\ data = main.op.arg
  <2>6. good \in BOOLEAN /\ Concludes(good)
    BY <2>1
  <2>7. main'.pc = "idle" /\ MainOK' /\ Books'
    <3> HIDE DEF good
    <3> QED  BY <1>7, <2>1, <2>6
  <2> QED  BY <2>1, <2>5, <2>7
<1>12. CASE Sent(ok, data)
  <2>1. Concludes(ok) /\ UNCHANGED peers
    BY <1>12 DEF Sent
  <2>2. main'.pc = "idle" /\ MainOK' /\ Books'
    BY <1>7, <2>1 DEF peers
  <2> QED  BY <1>10, <2>1, <2>2 DEF peers
<1>13. CASE Placed(ok, data)
  <2>1. UNCHANGED peers /\ (Concludes(ok) \/ (TriesNext /\ ~ok /\ ~LastCandidate))
    BY <1>13 DEF Placed, Stops
  <2>2. CASE Concludes(ok)
    <3>1. main'.pc = "idle" /\ MainOK' /\ Books'
      BY <1>7, <2>1, <2>2 DEF peers
    <3> QED  BY <1>10, <2>1, <3>1 DEF peers
  <2>3. CASE TriesNext /\ ~ok /\ ~LastCandidate
    <3>1. main'.pc = "dial" /\ MainOK'
      BY <1>9, <2>3
    <3>2. Books'
      BY <1>8, <2>1, <2>3, <3>1 DEF TriesNext, peers
    <3> QED  BY <1>10, <2>1, <3>1, <3>2 DEF peers
  <2> QED  BY <2>1, <2>2, <2>3
<1>14. CASE Derived(ok, data)
  <2>1. UNCHANGED peers /\ main.op.op = "derive"
    BY <1>14 DEF Derived
  <2>2. CASE Concludes(ok)
    <3>1. main'.pc = "idle" /\ MainOK' /\ Books'
      BY <1>7, <2>1, <2>2 DEF peers
    <3> QED  BY <1>10, <2>1, <3>1 DEF peers
  <2>3. CASE main' = Requesting("dial", main.op, <<To>>, 0, Request("QUERY", main.op.arg)) /\ UNCHANGED acked
    <3>1. <<To>> \in Seq(Peer) /\ <<To>> # << >> /\ Request("QUERY", main.op.arg) \in AskOf(main.op)
      BY <1>2, <2>1 DEF AskOf
    <3>2. main'.pc = "dial" /\ MainOK'
      BY <1>2, <2>3, <3>1, RequestingIs
    <3>3. Books'
      BY <1>8, <2>1, <2>3, <3>2 DEF peers
    <3> QED  BY <1>10, <2>1, <3>2, <3>3 DEF peers
  <2>4. CASE Unwinds
    <3>1. main' = [pc |-> "stop", left |-> Order] /\ UNCHANGED acked
      BY <2>4 DEF Unwinds
    <3>2. main'.pc = "stop" /\ main'.left = Order
      BY <3>1
    <3>3. MainOK'
      BY <1>3, <3>1, <3>2 DEF MainOK, InRequest, Leaving
    <3>4. Books'
      BY <1>8, <2>1, <3>1, <3>2 DEF peers
    <3> QED  BY <1>10, <2>1, <3>2, <3>3, <3>4 DEF peers
  <2>5. CASE TriesNext /\ ~LastCandidate
    <3>1. main'.pc = "dial" /\ MainOK'
      BY <1>9, <2>5
    <3>2. Books'
      BY <1>8, <2>1, <2>5, <3>1 DEF TriesNext, peers
    <3> QED  BY <1>10, <2>1, <3>1, <3>2 DEF peers
  <2> QED  BY <1>14, <2>2, <2>3, <2>4, <2>5 DEF Derived
<1> QED  BY <1>11, <1>12, <1>13, <1>14 DEF Resolves

\* A request that is over leaves nothing of a peer's in its connection.
LEMMA EndKeeps ==
  ASSUME IInv, Asking, ClientCloses, conns[main.conn].c2s = << >> \/ ~conns[main.conn].sOpen,
         UNCHANGED <<backlog, srv>>, main'.pc \in {"idle", "dial", "stop"}, MainOK', Kept', Books'
  PROVE  IInv'
<1> DEFINE k == main.conn
           l == Conn(conns[k].from, conns[k].c2s, << >>, FALSE, conns[k].sOpen)
<1>1. Shape /\ Wired /\ Quiet /\ Stage /\ k \in DOMAIN conns
  BY DEF IInv, Stage
<1>2. /\ DOMAIN conns' = IF conns[k].sOpen THEN DOMAIN conns ELSE DOMAIN conns \ {k}
      /\ \A c \in DOMAIN conns : c # k => conns'[c] = conns[c]
      /\ k \in DOMAIN conns' => conns'[k] = l
  BY <1>1, HangsUp
<1>3. l.c2s = conns[k].c2s /\ l.s2c = << >> /\ l.sOpen = conns[k].sOpen /\ l.cOpen = FALSE
  BY DEF Conn
<1> HIDE DEF l, k
<1>4. Link(l)
  BY <1>1, <1>3 DEF Shape, Link
<1>5. Shape'
  BY <1>1, <1>2, <1>4, ShapeKept DEF Shape
<1>6. Wired'
  BY <1>1, <1>2, <1>3, WiredByClient
<1>7. k \in DOMAIN conns' => Noise(conns'[k])
  <2>1. << >> \in Seq({Frame("garbage")})
    OBVIOUS
  <2> QED  BY <1>1, <1>2, <1>3, <2>1 DEF Noise, Shape, Link, k
<1>8. Quiet' /\ Stage'
  <2>1. ~Asking'
    BY DEF Asking
  <2>2. \A c \in DOMAIN conns : c # k => Noise(conns[c])
    BY <1>1 DEF Quiet, k
  <2>3. \A c \in DOMAIN conns' : c \in DOMAIN conns
    BY <1>2
  <2> QED  BY <1>2, <1>7, <2>1, <2>2, <2>3 DEF Quiet, Stage, Noise
<1> QED  BY <1>5, <1>6, <1>8 DEF IInv

\* The reply is read, and the request over.
LEMMA TakeReplyKeeps ==
  ASSUME IInv, TakeReply
  PROVE  /\ IInv'
         /\ stores' # stores => /\ main.op.op = "fetch" /\ SharedWith(To, From, main.op.arg)
                                /\ stores' = Gaining(From, 1, {main.op.arg})
<1>1. /\ main.pc = "reply" /\ Asking /\ Answered("reply") /\ ClientCloses /\ Stage
      /\ UNCHANGED <<up, backlog, srv>>
  BY DEF IInv, TakeReply, Asking
<1>2. FromServer # << >>
  BY <1>1 DEF Answered
<1>3. Replied
  BY <1>1, <1>2 DEF Stage, Calling, Welcomed, Refused, Offering, Unheard, Opened, Requested, Carries, FromServer
<1>4. PICK f : /\ conns[main.conn].c2s = << >> /\ conns[main.conn].s2c = <<f>> /\ Tells(f)
               /\ Head(FromServer) = f
  <2>1. Head(<<conns[main.conn].s2c[1]>>) = conns[main.conn].s2c[1]
    BY OneFrame
  <2> QED  BY <1>3, <2>1 DEF Replied, Carries, FromServer
<1>5. f.type = "reply"
  BY <1>1, <1>4 DEF Answered
<1>6. f.ok \in BOOLEAN /\ (main.op.op = "fetch" /\ f.ok => SharedWith(To, From, main.op.arg))
  <2>1. Frame("oversize").type # "reply"
    BY DEF Frame
  <2> QED  BY <1>4, <1>5, <2>1 DEF Tells
<1>7. PICK ok \in BOOLEAN : ok = f.ok
  BY <1>6
<1>8. PICK data : data = f.data
  OBVIOUS
<1>9. Resolves(ok, data)
  BY <1>4, <1>7, <1>8 DEF TakeReply
<1>10. \A q \in Peer, op \in {"ops", "place"} : Accepting(q, op) <=> q = To /\ main.op.op = op /\ ok
  BY <1>1, <1>4, <1>7 DEF Accepting
<1>11. /\ main'.pc \in {"idle", "dial", "stop"} /\ MainOK' /\ Books' /\ Kept'
       /\ stores' # stores => ok /\ main.op.op = "fetch" /\ data = main.op.arg
                              /\ stores' = Gaining(From, 1, {main.op.arg})
  BY <1>1, <1>9, <1>10, ResolvesIs
<1>12. IInv'
  BY <1>1, <1>4, <1>11, EndKeeps
<1> QED  BY <1>6, <1>7, <1>11, <1>12

\* No reply: what a request was for is not done.
LEMMA FailKeeps ==
  ASSUME IInv, Fail
  PROVE  IInv'
<1>1. NotAnswered /\ Resolves(FALSE, None) /\ ClientCloses /\ Stage /\ UNCHANGED <<up, backlog, srv>>
  BY DEF IInv, Fail
<1>2. Asking
  BY <1>1 DEF NotAnswered, Asking
<1>3. \A q \in Peer, op \in {"ops", "place"} : ~Accepting(q, op)
  BY <1>1 DEF NotAnswered, Accepting, Answered, ServerGone
<1>4. main'.pc \in {"idle", "dial", "stop"} /\ MainOK' /\ Books' /\ Kept'
  BY <1>1, <1>2, <1>3, ResolvesIs
<1>5. conns[main.conn].c2s = << >> \/ ~conns[main.conn].sOpen
  <2>1. CASE ServerGone
    BY <2>1 DEF ServerGone
  <2>2. CASE Answered("hello") \/ Answered("oversize")
    <3>1. FromServer # << >>
      BY <2>2 DEF Answered
    <3> QED  BY <1>1, <1>2, <3>1 DEF Stage, Calling, Welcomed, Refused, Offering, Unheard, Opened, Requested, Replied,
                                     Carries, FromServer
  <2> QED  BY <1>1, <2>1, <2>2 DEF NotAnswered
<1> QED  BY <1>1, <1>2, <1>4, <1>5, EndKeeps

\* The probe closes its end.
LEMMA ProbeEndsKeeps ==
  ASSUME IInv, ProbeEnds
  PROVE  IInv'
<1> DEFINE k == main.conn
           l == Conn(conns[k].from, conns[k].c2s, << >>, FALSE, conns[k].sOpen)
<1>1. /\ Shape /\ Kept /\ Wired /\ Quiet /\ Books /\ main.pc = "probe" /\ ~Asking /\ k \in DOMAIN conns
      /\ ClientCloses /\ UNCHANGED <<peers, up, backlog, srv, acked>> /\ main' = Idle
  BY DEF IInv, MainOK, ProbeEnds, Asking
<1>2. /\ DOMAIN conns' = IF conns[k].sOpen THEN DOMAIN conns ELSE DOMAIN conns \ {k}
      /\ \A c \in DOMAIN conns : c # k => conns'[c] = conns[c]
      /\ k \in DOMAIN conns' => conns'[k] = l
  BY <1>1, HangsUp
<1>3. l.c2s = conns[k].c2s /\ l.s2c = << >> /\ l.sOpen = conns[k].sOpen /\ l.cOpen = FALSE
  BY DEF Conn
<1> HIDE DEF l, k
<1>4. Link(l) /\ Noise(l)
  BY <1>1, <1>3 DEF Shape, Link, Quiet, Noise
<1>5. Shape'
  BY <1>1, <1>2, <1>4, ShapeKept DEF Shape
<1>6. Wired'
  BY <1>1, <1>2, <1>3, WiredByClient
<1>7. main'.pc = "idle"
  BY <1>1 DEF Idle
<1>8. Quiet'
  <2>1. \A c \in DOMAIN conns' : c \in DOMAIN conns /\ (c = k \/ conns'[c] = conns[c])
    BY <1>2
  <2> QED  BY <1>1, <1>2, <1>4, <2>1 DEF Quiet, Noise
<1>9. Stage' /\ MainOK' /\ Kept'
  BY <1>1, <1>7 DEF Stage, Asking, MainOK, InRequest, Leaving, Kept, peers
<1>10. Books'
  <2>1. \A q \in Peer, op \in {"ops", "place"} : ~Accepting(q, op) /\ ~Accepting(q, op)'
    BY <1>1, <1>7 DEF Accepting
  <2> QED  BY <1>1, <2>1 DEF Books, peers
<1> QED  BY <1>5, <1>6, <1>8, <1>9, <1>10 DEF IInv

\* A listener that is shut down drops what waited there.
LEMMA StopKeeps ==
  ASSUME IInv, Stop
  PROVE  IInv'
<1>1. /\ Shape /\ Kept /\ Wired /\ Quiet /\ Books /\ MainOK /\ main.pc = "stop" /\ ~Asking /\ Leaving
      /\ UNCHANGED <<peers, srv, acked>> /\ To \in Peer
  BY ToIsPeer DEF IInv, Stop, Asking, Leaving
<1>2. /\ up' = [up EXCEPT ![To] = FALSE] /\ backlog' = [backlog EXCEPT ![To] = << >>]
      /\ conns' = [c \in DOMAIN conns \ ToSet(backlog[To]) |-> conns[c]]
      /\ main' = [main EXCEPT !.pc = "join"]
  BY DEF Stop, Down
<1>3. main'.pc = "join" /\ main'.left = main.left /\ main' = [pc |-> main'.pc, left |-> main'.left]
  <2>1. \A a, b, x : [[pc |-> a, left |-> b] EXCEPT !.pc = x] = [pc |-> x, left |-> b]
    OBVIOUS
  <2>2. main = [pc |-> main.pc, left |-> main.left]
    BY <1>1 DEF MainOK
  <2>3. main' = [pc |-> "join", left |-> main.left]
    BY <1>2, <2>1, <2>2
  <2> QED  BY <2>3
<1>4. MainOK'
  BY <1>1, <1>3 DEF MainOK, InRequest, Leaving
<1>5. /\ backlog' \in [Peer -> Seq(Nat)] /\ backlog'[To] = << >> /\ \A q \in Peer : q # To => backlog'[q] = backlog[q]
      /\ DOMAIN conns' = DOMAIN conns \ ToSet(backlog[To]) /\ \A c \in DOMAIN conns' : conns'[c] = conns[c]
  BY <1>1, <1>2 DEF Shape
<1>6. IsFiniteSet(DOMAIN conns')
  BY <1>1, <1>5, FS_Difference DEF Shape
<1>7. Shape'
  BY <1>1, <1>5, <1>6 DEF Shape, Link
<1>8. ToSet(<< >>) = {} /\ Distinct(<< >>)
  BY DEF ToSet, Distinct
<1>9. \A q \in Peer : (Busy(q)' <=> Busy(q)) /\ Holds(q)' \subseteq Holds(q) /\ ToSet(backlog'[q]) \subseteq ToSet(backlog[q])
  BY <1>1, <1>5, <1>8 DEF Holds, Busy
<1>10. ASSUME NEW q \in Peer, NEW c \in Holds(q)'
       PROVE  c \in DOMAIN conns' /\ conns'[c].sOpen
  <2>1. c \in Holds(q) /\ c \in DOMAIN conns /\ conns[c].sOpen
    BY <1>1, <1>9, <1>10 DEF Wired
  <2>2. c \notin ToSet(backlog[To])
    <3>1. CASE q = To
      BY <1>1, <1>5, <1>8, <1>10, <3>1 DEF Wired, Holds, Busy
    <3>2. CASE q # To
      BY <1>1, <2>1, <3>2 DEF Wired, Holds
    <3> QED  BY <3>1, <3>2
  <2> QED  BY <1>5, <2>1, <2>2
<1>11. Wired'
  <2>1. \A q, r \in Peer : q # r => Holds(q)' \cap Holds(r)' = {}
    BY <1>1, <1>9 DEF Wired
  <2>2. \A q \in Peer : Distinct(backlog'[q])
    BY <1>1, <1>5, <1>8 DEF Wired
  <2>3. \A q \in Peer : Busy(q)' => srv'[q].conn \notin ToSet(backlog'[q])
    BY <1>1, <1>9 DEF Wired
  <2> QED  BY <1>10, <2>1, <2>2, <2>3 DEF Wired
<1>12. Quiet' /\ Stage'
  BY <1>1, <1>3, <1>5 DEF Quiet, Stage, Asking, Noise
<1>13. Kept'
  BY <1>1, <1>2 DEF Kept, peers
<1>14. Books'
  <2>1. \A q \in Peer, op \in {"ops", "place"} : ~Accepting(q, op) /\ ~Accepting(q, op)'
    BY <1>1, <1>3 DEF Accepting
  <2> QED  BY <1>1, <2>1 DEF Books, peers
<1> QED  BY <1>4, <1>7, <1>11, <1>12, <1>13, <1>14 DEF IInv

\* The end of the script, and of each peer's thread.
LEMMA LeavesKeep ==
  ASSUME IInv, EndScript \/ Join
  PROVE  IInv'
<1>1. CASE EndScript
  <2>1. main.pc = "idle" /\ UNCHANGED <<peers, up, backlog, srv, conns, acked>> /\ main' = [pc |-> "stop", left |-> Order]
    BY <1>1 DEF EndScript, Idle
  <2>2. main'.pc = "stop" /\ main'.left = Order
    BY <2>1
  <2>3. MainOK'
    BY <2>1, <2>2, MeshAssumption DEF MainOK, InRequest, Leaving
  <2> QED  BY <2>1, <2>2, <2>3, BeginsKeeps
<1>2. CASE Join
  <2> DEFINE pc == IF LastCandidate THEN "over" ELSE "stop"
  <2>1. main.pc = "join" /\ UNCHANGED <<peers, up, backlog, srv, conns, acked>>
        /\ main' = [pc |-> pc, left |-> Tail(main.left)]
    BY <1>2 DEF Join
  <2>2. main.left \in Seq(Peer) /\ main.left # << >>
    BY <2>1 DEF IInv, MainOK, Leaving
  <2>3. pc \in {"over", "stop"} /\ Tail(main.left) \in Seq(Peer) /\ (pc = "stop" => Tail(main.left) # << >>)
    BY <2>2, HeadTailProperties DEF LastCandidate
  <2> HIDE DEF pc
  <2>4. main'.pc = pc /\ main'.left = Tail(main.left) /\ main' = [pc |-> main'.pc, left |-> main'.left]
    BY <2>1
  <2>5. MainOK'
    BY <2>3, <2>4 DEF MainOK, InRequest, Leaving
  <2> QED  BY <2>1, <2>3, <2>4, <2>5, BeginsKeeps
<1> QED  BY <1>1, <1>2

-----------------------------------------------------------------------------
(* The delivery log                                                        *)

\* A set of naturals has a least member.
LEMMA LeastNatural ==
  ASSUME NEW S, S \subseteq Nat, S # {}
  PROVE  \E m \in S : \A k \in S : m <= k
<1> DEFINE R == OpToRel(<, Nat)
<1>1. IsWellFoundedOn(R, Nat)
  BY NatLessThanWellFounded
<1>2. \A x, y \in Nat : x < y => <<x, y>> \in R
  BY DEF OpToRel
<1> HIDE DEF R
<1>3. PICK m \in S : \A k \in S : <<k, m>> \notin R
  BY <1>1, WFMin
<1>4. \A k \in S : k \in Nat /\ m \in Nat /\ ~(k < m)
  BY <1>2, <1>3
<1>5. \A k \in S : m <= k
  BY <1>4
<1> QED  BY <1>5

\* The numbers from b + 1 on, in order.
RunFrom(v, b) == v \in Seq(Int) /\ \A j \in 1..Len(v) : v[j] = b + j

\* After k blocks b events are delivered, and those up to the last that is posted wait:
\* no block since they were posted had the link up.
Posted(n, k) == IF n.events < 0 THEN 0 ELSE IF k <= n.events THEN k ELSE n.events
Waits(n, e, k) == \A i \in (e - 1)..(k - 1) : ~Linked(n, i)
DueIn(n, i) == {e \in 1..n.events : e - 1 <= i /\ Linked(n, i) /\ Waits(n, e, i)}
SentIn(n, x, i) ==
  /\ ToSet(x.events) = DueIn(n, i) /\ Ascending(x.events)
  /\ x.value = IF Linked(n, i) THEN <<i>> ELSE << >>
After(n, s, k) ==
  /\ s.linked \in BOOLEAN /\ (s.linked <=> (k = 0 \/ Linked(n, k - 1)))
  /\ s.posted = Posted(n, k)
  /\ \E b \in 0..s.posted :
       /\ RunFrom(s.queue, b) /\ Len(s.queue) = s.posted - b
       /\ \A e \in 1..s.posted : e > b <=> Waits(n, e, k)
  /\ k > 0 => SentIn(n, s.sent, k - 1)

Posts == [blocks : Int, kill : Int, back : Int, events : Int]

\* The link after a block is what the block makes of the link before it.
LEMMA LinkNow ==
  ASSUME NEW n \in Posts, NEW i \in Nat, NEW before \in BOOLEAN,
         before <=> (i = 0 \/ Linked(n, i - 1))
  PROVE  LET now == IF i = n.back THEN TRUE ELSE IF i = n.kill THEN FALSE ELSE before
         IN  now \in BOOLEAN /\ (now <=> Linked(n, i))
<1>1. n.kill \in Int /\ n.back \in Int
  BY DEF Posts
<1>2. CASE i = n.back
  BY <1>1, <1>2 DEF Linked
<1>3. CASE i # n.back /\ i = n.kill
  BY <1>1, <1>3 DEF Linked
<1>4. CASE i # n.back /\ i # n.kill /\ i = 0
  BY <1>1, <1>4 DEF Linked
<1>5. CASE i # n.back /\ i # n.kill /\ i # 0
  BY <1>1, <1>5 DEF Linked
<1> QED  BY <1>2, <1>3, <1>4, <1>5

\* A run that goes on.
LEMMA RunGoesOn ==
  ASSUME NEW b \in Int, NEW v, RunFrom(v, b), NEW x \in Int, x = b + Len(v) + 1
  PROVE  RunFrom(v \o <<x>>, b) /\ Len(v \o <<x>>) = Len(v) + 1
<1>1. v \in Seq(Int) /\ Len(v) \in Nat /\ \A j \in 1..Len(v) : v[j] = b + j
  BY LenProperties DEF RunFrom
<1>2. <<x>> \in Seq(Int) /\ Len(<<x>>) = 1 /\ <<x>>[1] = x
  OBVIOUS
<1> DEFINE one == <<x>>
           w == v \o one
<1> HIDE DEF one
<1>3. /\ w \in Seq(Int) /\ Len(w) = Len(v) + 1
      /\ \A j \in 1..(Len(v) + Len(one)) : w[j] = IF j <= Len(v) THEN v[j] ELSE one[j - Len(v)]
  BY <1>1, <1>2, ConcatProperties DEF one
<1> HIDE DEF w
<1>4. ASSUME NEW j \in 1..Len(w)  PROVE w[j] = b + j
  <2>1. j \in 1..(Len(v) + Len(one))
    BY <1>2, <1>3 DEF one
  <2>2. CASE j <= Len(v)
    BY <1>1, <1>3, <2>1, <2>2
  <2>3. CASE ~(j <= Len(v))
    <3>1. j - Len(v) = 1 /\ j = Len(v) + 1
      BY <1>1, <1>3, <2>3
    <3>2. w[j] = one[1]
      BY <1>3, <2>1, <2>3, <3>1
    <3> QED  BY <1>1, <1>2, <3>1, <3>2 DEF one
  <2> QED  BY <2>2, <2>3
<1>5. RunFrom(w, b) /\ Len(w) = Len(v) + 1
  BY <1>3, <1>4 DEF RunFrom
<1> QED  BY <1>5 DEF w, one

\* A run's numbers, once each and in order.
LEMMA RunIs ==
  ASSUME NEW b \in Int, NEW v, RunFrom(v, b)
  PROVE  ToSet(v) = (b + 1)..(b + Len(v)) /\ Ascending(v)
<1>1. v \in Seq(Int) /\ Len(v) \in Nat /\ DOMAIN v = 1..Len(v) /\ \A j \in 1..Len(v) : v[j] = b + j
  BY LenProperties DEF RunFrom
<1>2. \A e \in (b + 1)..(b + Len(v)) : e - b \in 1..Len(v) /\ v[e - b] = e
  BY <1>1
<1>3. \A j \in 1..Len(v) : v[j] \in (b + 1)..(b + Len(v))
  BY <1>1
<1>4. ToSet(v) = (b + 1)..(b + Len(v))
  BY <1>1, <1>2, <1>3 DEF ToSet
<1>5. Ascending(v)
  BY <1>1 DEF Ascending
<1> QED  BY <1>4, <1>5

\* One block: what waited and the event it posts are sent if the link is up, and wait
\* otherwise.
LEMMA PostingKeeps ==
  ASSUME NEW n \in Posts, NEW i \in Nat, NEW s, After(n, s, i)
  PROVE  After(n, Posting(n, s, i), i + 1)
<1> DEFINE linked == IF i = n.back THEN TRUE ELSE IF i = n.kill THEN FALSE ELSE s.linked
           more == IF s.posted < n.events THEN <<s.posted + 1>> ELSE << >>
           due == s.queue \o more
           t == Posting(n, s, i)
<1>0. /\ t.linked = linked /\ t.posted = s.posted + Len(more)
      /\ t.queue = IF linked THEN << >> ELSE due
      /\ t.sent.events = (IF linked THEN due ELSE << >>)
      /\ t.sent.value = IF linked THEN <<i>> ELSE << >>
  BY DEF Posting, Waiting
<1> HIDE DEF t
<1>1. linked \in BOOLEAN /\ (linked <=> Linked(n, i))
  BY LinkNow DEF After
<1> HIDE DEF linked
<1>2. n.events \in Int
  BY DEF Posts
<1>3. s.posted = Posted(n, i) /\ s.posted \in Nat
  BY <1>2 DEF After, Posted
<1>4. PICK b \in 0..s.posted :
        /\ RunFrom(s.queue, b) /\ Len(s.queue) = s.posted - b
        /\ \A e \in 1..s.posted : e > b <=> Waits(n, e, i)
  BY DEF After
<1>b. b \in Nat /\ b <= s.posted
  BY <1>3
<1>5. Len(more) \in {0, 1} /\ Posted(n, i + 1) = s.posted + Len(more)
      /\ (Len(more) = 1 => s.posted = i)
  <2>1. CASE s.posted < n.events
    <3>1. Len(more) = 1 /\ s.posted = i /\ i < n.events
      BY <2>1, <1>2, <1>3 DEF Posted
    <3> QED  BY <3>1, <1>2 DEF Posted
  <2>2. CASE ~(s.posted < n.events)
    BY <2>2, <1>2, <1>3 DEF Posted
  <2> QED  BY <2>1, <2>2
<1>6. RunFrom(due, b) /\ Len(due) = t.posted - b
  <2>0. s.queue \in Seq(Int)
    BY <1>4 DEF RunFrom
  <2>1. CASE s.posted < n.events
    <3>1. more = <<s.posted + 1>> /\ Len(more) = 1
      BY <2>1
    <3>2. RunFrom(s.queue \o <<s.posted + 1>>, b) /\ Len(s.queue \o <<s.posted + 1>>) = Len(s.queue) + 1
      BY <1>3, <1>4, RunGoesOn
    <3>3. due = s.queue \o <<s.posted + 1>> /\ t.posted = s.posted + 1
      BY <3>1, <1>0
    <3> HIDE DEF due, more
    <3>4. RunFrom(due, b) /\ Len(due) = Len(s.queue) + 1
      BY <3>2, <3>3
    <3> QED  BY <3>3, <3>4, <1>3, <1>4, <1>b
  <2>2. CASE ~(s.posted < n.events)
    <3>1. more = << >> /\ Len(more) = 0 /\ due = s.queue
      BY <2>0, <2>2, ConcatEmptySeq
    <3>2. t.posted = s.posted
      BY <3>1, <1>0, <1>3
    <3> HIDE DEF due, more
    <3> QED  BY <3>1, <3>2, <1>4
  <2> QED  BY <2>1, <2>2
<1>7. /\ t.posted = Posted(n, i + 1) /\ t.posted \in Nat /\ s.posted <= t.posted /\ t.posted <= i + 1
      /\ (t.posted > s.posted => s.posted = i /\ t.posted = i + 1)
      /\ \A e \in 1..n.events : e - 1 <= i => e <= t.posted
      /\ \A e \in 1..t.posted : e - 1 <= i /\ e \in 1..n.events
  <2>1. t.posted = Posted(n, i + 1)
    BY <1>0, <1>5
  <2>2. t.posted \in Nat /\ s.posted <= t.posted /\ t.posted <= i + 1
    BY <2>1, <1>0, <1>2, <1>3, <1>5 DEF Posted
  <2>3. t.posted > s.posted => s.posted = i /\ t.posted = i + 1
    BY <1>0, <1>3, <1>5
  <2>4. \A e \in 1..n.events : e - 1 <= i => e <= t.posted
    BY <2>1, <1>2 DEF Posted
  <2>5. \A e \in 1..t.posted : e - 1 <= i /\ e \in 1..n.events
    BY <2>1, <1>2 DEF Posted
  <2> QED  BY <2>1, <2>2, <2>3, <2>4, <2>5
<1> HIDE DEF more, due
<1>8. \A e \in 1..t.posted : e > b <=> Waits(n, e, i)
  <2> TAKE e \in 1..t.posted
  <2>1. CASE e <= s.posted
    BY <2>1, <1>3, <1>4
  <2>2. CASE ~(e <= s.posted)
    <3>1. e = i + 1 /\ e > b
      BY <2>2, <1>3, <1>4, <1>7
    <3>2. Waits(n, e, i)
      BY <3>1 DEF Waits
    <3> QED  BY <3>1, <3>2
  <2> QED  BY <2>1, <2>2
<1>9. \A e \in 1..t.posted : Waits(n, e, i + 1) <=> Waits(n, e, i) /\ ~Linked(n, i)
  <2> TAKE e \in 1..t.posted
  <2>1. (e - 1)..((i + 1) - 1) = (e - 1)..(i - 1) \cup {i}
    BY <1>7
  <2> QED  BY <2>1 DEF Waits
<1>10. SentIn(n, t.sent, i)
  <2>1. CASE linked
    <3>1. ToSet(due) = (b + 1)..t.posted /\ Ascending(due)
      BY <1>b, <1>6, <1>7, RunIs
    <3>2. \A e \in 1..n.events : e \in DueIn(n, i) <=> e \in (b + 1)..t.posted
      BY <1>1, <1>2, <1>4, <1>7, <1>8, <2>1 DEF DueIn
    <3>3. \A e \in (b + 1)..t.posted : e \in 1..n.events
      BY <1>b, <1>7
    <3>4. DueIn(n, i) \subseteq 1..n.events
      BY DEF DueIn
    <3>5. DueIn(n, i) = (b + 1)..t.posted
      BY <3>2, <3>3, <3>4
    <3> QED  BY <1>0, <1>1, <2>1, <3>1, <3>5 DEF SentIn
  <2>2. CASE ~linked
    <3>1. ToSet(<< >>) = {} /\ Ascending(<< >>)
      BY DEF ToSet, Ascending
    <3>2. DueIn(n, i) = {}
      BY <1>1, <2>2 DEF DueIn
    <3> QED  BY <1>0, <1>1, <2>2, <3>1, <3>2 DEF SentIn
  <2> QED  BY <2>1, <2>2
<1>11. \E d \in 0..t.posted :
         /\ RunFrom(t.queue, d) /\ Len(t.queue) = t.posted - d
         /\ \A e \in 1..t.posted : e > d <=> Waits(n, e, i + 1)
  <2>1. CASE linked
    <3>1. RunFrom(t.queue, t.posted) /\ Len(t.queue) = t.posted - t.posted
      BY <1>0, <1>7, <2>1, EmptySeq DEF RunFrom
    <3>2. \A e \in 1..t.posted : ~(e > t.posted) /\ ~Waits(n, e, i + 1)
      BY <1>1, <1>7, <1>9, <2>1
    <3>3. t.posted \in 0..t.posted
      BY <1>7
    <3> QED  BY <3>1, <3>2, <3>3
  <2>2. CASE ~linked
    <3>1. b \in 0..t.posted
      BY <1>3, <1>7
    <3>2. t.queue = due
      BY <1>0, <2>2
    <3>3. \A e \in 1..t.posted : e > b <=> Waits(n, e, i + 1)
      BY <1>1, <1>8, <1>9, <2>2
    <3> QED  BY <1>6, <3>1, <3>2, <3>3
  <2> QED  BY <2>1, <2>2
<1>12. (i + 1) - 1 = i /\ i + 1 # 0
  OBVIOUS
<1> QED  BY <1>0, <1>1, <1>7, <1>10, <1>11, <1>12 DEF After, t

\* The loop over blocks, up to the m-th.
Initially == [linked |-> TRUE, posted |-> 0, queue |-> << >>, sent |-> None]
PlaysTo(f, n, m) ==
  f = [k \in 0..m |-> IF k = 0 THEN Initially ELSE Posting(n, f[k - 1], k - 1)]

\* The loop has a run: the first prefix without one would extend a prefix with one.
LEMMA LoopRuns ==
  ASSUME NEW n, NEW N \in Nat
  PROVE  \E f : PlaysTo(f, n, N)
<1> DEFINE bad == {m \in 0..N : ~\E f : PlaysTo(f, n, m)}
<1>1. bad = {}
  <2> SUFFICES ASSUME bad # {} PROVE FALSE
    OBVIOUS
  <2>0. bad \subseteq Nat
    OBVIOUS
  <2>1. PICK m \in bad : \A k \in bad : m <= k
    <3> HIDE DEF bad
    <3> QED  BY <2>0, LeastNatural
  <2>2. CASE m = 0
    <3> DEFINE u == [k \in 0..0 |-> Initially]
    <3>1. u = [k \in 0..0 |-> IF k = 0 THEN Initially ELSE Posting(n, u[k - 1], k - 1)]
      <4>1. \A k \in 0..0 : k = 0
        OBVIOUS
      <4> QED  BY <4>1
    <3> HIDE DEF u
    <3>2. PlaysTo(u, n, 0)
      BY <3>1 DEF PlaysTo
    <3> QED  BY <2>1, <2>2, <3>2
  <2>3. CASE m # 0
    <3>1. m - 1 \in 0..N /\ m \in 1..N /\ ~(m <= m - 1)
      BY <2>3
    <3>2. PICK v : PlaysTo(v, n, m - 1)
      BY <2>1, <3>1
    <3> DEFINE u == [k \in 0..m |-> IF k # m THEN v[k] ELSE Posting(n, v[m - 1], m - 1)]
    <3>3. \A k \in 0..m : k # m => k \in 0..(m - 1)
      BY <3>1
    <3>4. \A k \in 0..m : k # 0 => k - 1 \in 0..m /\ k - 1 # m
      BY <3>1
    <3>5. \A k \in 0..(m - 1) : v[k] = IF k = 0 THEN Initially ELSE Posting(n, v[k - 1], k - 1)
      BY <3>2 DEF PlaysTo
    <3>6. \A k \in 0..m : k # 0 => u[k - 1] = v[k - 1]
      BY <3>4
    <3>7. \A k \in 0..m : u[k] = IF k # m THEN v[k] ELSE Posting(n, v[m - 1], m - 1)
      OBVIOUS
    <3>8. u = [k \in 0..m |-> u[k]]
      OBVIOUS
    <3> HIDE DEF u
    <3>9. \A k \in 0..m : u[k] = IF k = 0 THEN Initially ELSE Posting(n, u[k - 1], k - 1)
      <4> TAKE k \in 0..m
      <4>1. CASE k = m
        BY <2>3, <4>1, <3>6, <3>7
      <4>2. CASE k # m
        <5>1. u[k] = v[k] /\ k \in 0..(m - 1)
          BY <4>2, <3>3, <3>7
        <5>2. CASE k = 0
          BY <5>1, <5>2, <3>5
        <5>3. CASE k # 0
          <6>1. u[k - 1] = v[k - 1]
            BY <5>3, <3>6
          <6> QED  BY <5>1, <5>3, <6>1, <3>5
        <5> QED  BY <5>2, <5>3
      <4> QED  BY <4>1, <4>2
    <3>10. PlaysTo(u, n, m)
      BY <3>8, <3>9 DEF PlaysTo
    <3> QED  BY <3>10, <2>1
  <2> QED  BY <2>2, <2>3
<1>2. N \in 0..N
  OBVIOUS
<1> QED  BY <1>1, <1>2

\* Whatever the outage and the number of events, the log of a net-pair loses, repeats
\* and reorders none of them.
LEMMA LogAlwaysReliable ==
  ASSUME NEW n \in Posts
  PROVE  LogIsReliable(n, DeliveryLog(n))
<1>0. n.blocks \in Int /\ n.events \in Int
  BY DEF Posts
<1>1. CASE n.blocks < 0
  <2>1. 0..(n.blocks - 1) = {}
    BY <1>0, <1>1
  <2> QED  BY <2>1 DEF LogIsReliable
<1>2. CASE ~(n.blocks < 0)
  <2> DEFINE after == Blocks(n)
  <2>0. n.blocks \in Nat
    BY <1>0, <1>2
  <2>1. PlaysTo(after, n, n.blocks)
    <3>1. \E f : PlaysTo(f, n, n.blocks)
      BY <2>0, LoopRuns
    <3>2. after = CHOOSE f : PlaysTo(f, n, n.blocks)
      BY DEF Blocks, PlaysTo, Initially
    <3> QED  BY <3>1, <3>2
  <2> HIDE DEF after
  <2>2. \A k \in 0..n.blocks : after[k] = IF k = 0 THEN Initially ELSE Posting(n, after[k - 1], k - 1)
    BY <2>1 DEF PlaysTo
  <2>3. After(n, after[0], 0)
    <3>1. after[0] = Initially
      BY <2>0, <2>2
    <3>2. Posted(n, 0) = 0
      BY <1>0 DEF Posted
    <3>3. RunFrom(<< >>, 0) /\ Len(<< >>) = 0
      BY EmptySeq DEF RunFrom
    <3> DEFINE s == after[0]
    <3>4. s.linked = TRUE /\ s.posted = 0 /\ s.queue = << >>
      BY <3>1 DEF Initially
    <3> HIDE DEF s
    <3>5. 0 \in 0..s.posted /\ \A e \in 1..s.posted : FALSE
      BY <3>4
    <3>6. \E b \in 0..s.posted :
            /\ RunFrom(s.queue, b) /\ Len(s.queue) = s.posted - b
            /\ \A e \in 1..s.posted : e > b <=> Waits(n, e, 0)
      BY <3>3, <3>4, <3>5
    <3>7. After(n, s, 0)
      BY <3>2, <3>4, <3>6 DEF After
    <3> QED  BY <3>7 DEF s
  <2>4. \A k \in 0..n.blocks : After(n, after[k], k)
    <3> DEFINE bad == {k \in 0..n.blocks : ~After(n, after[k], k)}
    <3> SUFFICES ASSUME bad # {} PROVE FALSE
      OBVIOUS
    <3>0. bad \subseteq Nat
      BY <2>0
    <3>1. PICK m \in bad : \A k \in bad : m <= k
      <4> HIDE DEF bad
      <4> QED  BY <3>0, LeastNatural
    <3>2. m # 0 /\ m \in 1..n.blocks /\ m - 1 \in Nat /\ m - 1 \in 0..n.blocks /\ ~(m <= m - 1)
          /\ (m - 1) + 1 = m
      BY <2>0, <2>3, <3>1
    <3>3. After(n, after[m - 1], m - 1)
      BY <3>1, <3>2
    <3>4. After(n, Posting(n, after[m - 1], m - 1), m)
      BY <3>2, <3>3, PostingKeeps
    <3>5. after[m] = Posting(n, after[m - 1], m - 1)
      BY <2>2, <3>2
    <3> QED  BY <3>1, <3>4, <3>5
  <2>5. ASSUME NEW i \in 0..(n.blocks - 1)
        PROVE  SentIn(n, DeliveryLog(n)[i + 1], i)
    <3>1. i + 1 \in 1..n.blocks /\ i + 1 \in 0..n.blocks /\ i + 1 > 0 /\ (i + 1) - 1 = i
      BY <2>0
    <3>2. DeliveryLog(n)[i + 1] = after[i + 1].sent
      BY <3>1 DEF DeliveryLog, after
    <3>3. After(n, after[i + 1], i + 1)
      BY <3>1, <2>4
    <3> QED  BY <3>1, <3>2, <3>3 DEF After
  <2> DEFINE chances(e) == {i \in (e - 1)..(n.blocks - 1) : Linked(n, i)}
             due(i) == {e \in 1..n.events : i \in chances(e) /\ \A j \in chances(e) : i <= j}
  <2>6. ASSUME NEW i \in 0..(n.blocks - 1)
        PROVE  due(i) = DueIn(n, i)
    <3>1. ASSUME NEW e \in 1..n.events, i \in chances(e), \A j \in chances(e) : i <= j
          PROVE  e - 1 <= i /\ Linked(n, i) /\ Waits(n, e, i)
      <4>1. \A j \in (e - 1)..(i - 1) : j \in (e - 1)..(n.blocks - 1) /\ ~(i <= j)
        BY <1>0, <2>0
      <4> QED  BY <1>0, <2>0, <3>1, <4>1 DEF Waits
    <3>2. ASSUME NEW e \in 1..n.events, e - 1 <= i, Linked(n, i), Waits(n, e, i)
          PROVE  i \in chances(e) /\ \A j \in chances(e) : i <= j
      <4>1. \A j \in (e - 1)..(n.blocks - 1) : ~(i <= j) => j \in (e - 1)..(i - 1)
        BY <1>0, <2>0
      <4> QED  BY <1>0, <2>0, <3>2, <4>1 DEF Waits
    <3> QED  BY <3>1, <3>2 DEF DueIn
  <2> HIDE DEF due
  <2>7. \A i \in 0..(n.blocks - 1) :
          LET x == DeliveryLog(n)[i + 1]
          IN  /\ ToSet(x.events) = due(i) /\ Ascending(x.events)
              /\ x.value = IF Linked(n, i) THEN <<i>> ELSE << >>
    BY <2>5, <2>6 DEF SentIn
  <2> QED  BY <2>7 DEF LogIsReliable, due
<1> QED  BY <1>1, <1>2

-----------------------------------------------------------------------------
(* The session                                                             *)

\* What the session counts.
Counted == done \in 0..MaxOps /\ aborted \in BOOLEAN
MeshInv == IInv /\ Counted

\* A session starts with local ops behind it, no connection open and nothing asked.
LEMMA MeshInit == Init => MeshInv
<1> SUFFICES ASSUME Init  PROVE MeshInv
  OBVIOUS
<1>1. main.pc = "idle" /\ main = Idle /\ conns = << >> /\ DOMAIN conns = {}
  BY DEF Init, Idle
<1>2. PICK s \in Sessions : accepted = s.accepted /\ run = s.run /\ stores = s.stores
  BY DEF Init
<1>3. s \in [accepted : [Peer -> SUBSET Peer], run : [Peer -> SUBSET Type], stores : [Peer -> Seq(StoreOf)]]
      /\ \A p \in Peer : s.stores[p] # << >>
  BY <1>2, MeshAssumption DEF StoreOf
<1>4. accepted \in [Peer -> SUBSET Peer] /\ run \in [Peer -> SUBSET Type] /\ stores \in [Peer -> Seq(StoreOf)]
      /\ \A p \in Peer : stores[p] # << >>
  BY <1>2, <1>3
<1>5. Kept
  BY <1>4 DEF Init, Kept
<1>6. Shape
  <2>1. [pc |-> "accept", conn |-> 0] \in Server
    BY DEF Server
  <2>2. IsFiniteSet(DOMAIN conns)
    BY <1>1, FS_EmptySet
  <2> QED  BY <1>1, <2>1, <2>2 DEF Init, Shape
<1>7. Wired
  <2>1. ToSet(<< >>) = {} /\ Distinct(<< >>)
    BY DEF ToSet, Distinct
  <2>2. \A p \in Peer : ~Busy(p) /\ backlog[p] = << >>
    BY DEF Init, Busy
  <2>3. \A p \in Peer : Holds(p) = {}
    BY <2>1, <2>2 DEF Holds
  <2> QED  BY <2>1, <2>2, <2>3 DEF Wired
<1>8. MainOK /\ Quiet /\ Stage
  BY <1>1 DEF MainOK, InRequest, Leaving, Quiet, Stage, Asking
<1>9. Books
  <2>1. \A q, op : ~Accepting(q, op)
    BY <1>1 DEF Accepting
  <2>2. acked.ops = [p \in Peer |-> << >>] /\ acked.place = [p \in Peer |-> << >>]
        /\ acked = [ops |-> acked.ops, place |-> acked.place]
    BY DEF Init
  <2> QED  BY <2>1, <2>2 DEF Init, Books
<1>10. Counted
  <2>1. 0 \in 0..MaxOps
    BY MeshAssumption
  <2>2. done = 0 /\ aborted = FALSE
    BY DEF Init
  <2> QED  BY <2>1, <2>2 DEF Counted
<1> QED  BY <1>5, <1>6, <1>7, <1>8, <1>9, <1>10 DEF IInv, MeshInv

\* Every step of either side keeps it.
LEMMA MeshSteps == MeshInv /\ [Next]_vars => MeshInv'
<1> SUFFICES ASSUME MeshInv, [Next]_vars  PROVE MeshInv'
  OBVIOUS
<1>1. IInv /\ Counted
  BY DEF MeshInv
<1>2. CASE UNCHANGED vars
  <2>1. IInv'
    BY <1>1, <1>2, StutterKeeps DEF vars, peers
  <2> QED  BY <1>1, <1>2, <2>1 DEF MeshInv, Counted, vars
<1>3. CASE Script
  <2>1. CASE Op /\ done < MaxOps /\ done' = done + 1
    <3>1. IInv'
      BY <1>1, <2>1, OpsKeep
    <3>2. aborted' = aborted
      BY <2>1 DEF Op, Pair, Revoke, Advertise, ShareStore, Put, StartRequest, Probe
    <3> QED  BY <1>1, <2>1, <3>1, <3>2, MeshAssumption DEF MeshInv, Counted
  <2>2. CASE EndScript /\ UNCHANGED done
    <3>1. IInv'
      BY <1>1, <2>2, LeavesKeep
    <3> QED  BY <1>1, <2>2, <3>1 DEF MeshInv, Counted, EndScript
  <2> QED  BY <1>3, <2>1, <2>2 DEF Script
<1>4. CASE Proceed /\ UNCHANGED done
  <2>1. IInv'
    BY <1>1, <1>4, DialKeeps, InitiateHelloKeeps, InitiateHeaderKeeps, TakeReplyKeeps, FailKeeps, ProbeEndsKeeps,
       StopKeeps, LeavesKeep DEF Proceed
  <2>2. aborted' = aborted
    BY <1>4 DEF Proceed, Dial, InitiateHello, InitiateHeader, TakeReply, Fail, ProbeEnds, Stop, Join
  <2> QED  BY <1>1, <1>4, <2>1, <2>2 DEF MeshInv, Counted
<1>5. ASSUME NEW p \in Peer, Serve(p), UNCHANGED done
      PROVE  MeshInv'
  <2>1. Abort(p) => IInv'
    BY <1>1, StutterKeeps DEF Abort
  <2>2. IInv'
    BY <1>1, <1>5, <2>1, AcceptKeeps, HelloKeeps, HeaderKeeps, HangupKeeps, ServeKeeps DEF Serve
  <2>3. aborted' \in BOOLEAN
    <3>1. aborted' = aborted \/ aborted' = TRUE
      BY <1>5 DEF Serve, Accept, RespondHello, RespondHeader, Hangup, ServeFetch, ServeOps, ServeHello, ServePlace,
                  ServeQuery, ServeReplay, Abort
    <3> QED  BY <1>1, <3>1 DEF Counted
  <2> QED  BY <1>1, <1>5, <2>2, <2>3 DEF MeshInv, Counted
<1> QED  BY <1>2, <1>3, <1>4, <1>5 DEF Next

\* So it holds in every state.
LEMMA MeshInductive == Spec => []MeshInv
BY MeshInit, MeshSteps, PTL DEF Spec

\* All variables are typed.
LEMMA MeshTyped == MeshInv => TypeOK
<1> SUFFICES ASSUME MeshInv  PROVE TypeOK
  OBVIOUS
<1>1. Shape /\ Kept /\ Wired /\ MainOK /\ Quiet /\ Stage /\ Books /\ Counted
  BY DEF MeshInv, IInv
<1>2. \A f \in ToSet(<< >>) : FALSE
  BY DEF ToSet
<1>3. \A g : \A f \in ToSet(<<g>>) : f = g
  BY DEF ToSet
<1>4. \A type \in Frames : Frame(type).type = type
  BY DEF Frame
<1>5. ASSUME NEW c \in DOMAIN conns, NEW f \in ToSet(conns[c].c2s) \cup ToSet(conns[c].s2c)
      PROVE  f.type \in Frames
  <2>1. CASE Noise(conns[c])
    <3>1. f \in ToSet(conns[c].c2s)
      BY <1>2, <1>5, <2>1 DEF Noise
    <3>2. f = Frame("garbage")
      BY <2>1, <3>1 DEF Noise, ToSet
    <3> QED  BY <1>4, <3>2 DEF Frames
  <2>2. CASE Asking /\ c = main.conn
    <3>1. main.ask.type = "request"
      BY <1>1, <2>2, KindOfOp DEF Asking, InRequest
    <3>2. \A g : Tells(g) => g.type \in Frames
      <4>1. \A ok, data : Reply(ok, data).type = "reply"
        BY DEF Reply
      <4> QED  BY <1>4, <4>1 DEF Tells, Frames
    <3>3. /\ conns[c].c2s = << >> \/ \E g : conns[c].c2s = <<g>> /\ g.type \in Frames
          /\ conns[c].s2c = << >> \/ \E g : conns[c].s2c = <<g>> /\ g.type \in Frames
      <4>1. Frame("hello").type \in Frames /\ Frame("header").type \in Frames /\ main.ask.type \in Frames
        BY <1>4, <3>1 DEF Frames
      <4>2. Replied => conns[c].c2s = << >> /\ \E g : conns[c].s2c = <<g>> /\ g.type \in Frames
        BY <2>2, <3>2 DEF Replied, Carries
      <4> QED  BY <1>1, <2>2, <4>1, <4>2
               DEF Stage, Calling, Welcomed, Refused, Offering, Unheard, Opened, Requested, Carries
    <3> QED  BY <1>2, <1>3, <1>5, <3>3
  <2> QED  BY <1>1, <2>1, <2>2 DEF Quiet
<1>6. \A p \in Peer : ToSet(backlog[p]) \subseteq DOMAIN conns
  BY <1>1 DEF Wired, Holds
<1>7. \A p \in Peer : srv[p].pc \in {"hello", "header", "serve", "blocked"} => srv[p].conn \in DOMAIN conns
  BY <1>1 DEF Wired, Holds, Busy
<1>8. \A p \in Peer : srv[p].pc \in {"accept", "hello", "header", "serve", "blocked", "exited"}
  BY <1>1 DEF Shape, Server
<1>9. \A p \in Peer : stores[p] \in Seq([share : SUBSET Peer, held : SUBSET Obj])
                      /\ log[p] \in Seq([op : EditOp, author : Peer]) /\ instantiated[p] \in Seq(Type)
  BY <1>1 DEF Kept, StoreOf, Entry
<1> QED  BY <1>1, <1>5, <1>6, <1>7, <1>8, <1>9 DEF TypeOK, Kept, MainOK, Counted

\* What a session reports is what its peers did, for every household and script: the op
\* logs and the audit logs hold what was acknowledged, in order and under its authors,
\* and at most the one item whose answer is on its way.
THEOREM ReportsAlwaysTrue == Spec => []ReportsAreTrue
<1>1. MeshInv => ReportsAreTrue
  BY MeshTyped DEF ReportsAreTrue, MeshInv, IInv, Books
<1> QED  BY <1>1, MeshInductive, PTL

\* Whatever a peer handles comes from a peer that accepts it and that it accepts at that
\* moment: admission is by the live pairing tables, and no revocation overtakes a request.
THEOREM HandlesOnlyMutuallyAccepted == Spec => OnlyMutuallyAccepted
<1> DEFINE Accepted ==
      \A p \in Peer : srv[p].pc = "serve" /\ Arrived(p, "request") /\ srv'[p] = srv[p] /\ conns' # conns
         => Asker(p) \in accepted[p] /\ p \in accepted[Asker(p)]
<1>1. MeshInv => Accepted
  BY RequestHere DEF MeshInv, Requested, Mutual
<1>2. MeshInv /\ [Next]_vars => [Accepted]_vars
  BY <1>1
<1> QED  BY <1>2, MeshInductive, PTL DEF Spec, OnlyMutuallyAccepted

\* What a request brings into a peer's default store is the object it asked for, and the
\* peer that sent it holds it in a store that is shared with the asker.
THEOREM FetchesOnlyShared == Spec => FetchesAreShared
<1> DEFINE Shared ==
      TakeReply /\ stores' # stores =>
        LET gained == stores'[From][1].held \ stores[From][1].held
        IN  gained = {main.op.arg}
            /\ \E i \in DOMAIN stores[To] : From \in stores[To][i].share /\ gained \subseteq stores[To][i].held
<1>1. MeshInv => Shared
  <2> SUFFICES ASSUME MeshInv, TakeReply, stores' # stores
               PROVE  LET gained == stores'[From][1].held \ stores[From][1].held
                      IN  gained = {main.op.arg}
                          /\ \E i \in DOMAIN stores[To] : From \in stores[To][i].share
                                                          /\ gained \subseteq stores[To][i].held
    OBVIOUS
  <2>1. IInv /\ main.op.op = "fetch" /\ SharedWith(To, From, main.op.arg)
        /\ stores' = Gaining(From, 1, {main.op.arg})
    BY TakeReplyKeeps DEF MeshInv
  <2>2. Kept /\ main.op \in Requests /\ From \in Peer
    BY <2>1, ScriptAssumption DEF IInv, MainOK, InRequest, TakeReply, From
  <2>3. main.op.arg \in Obj
    BY <2>1, <2>2, ScriptAssumption
  <2>4. 1 \in DOMAIN stores[From]
    BY <2>2, EmptySeq, LenProperties DEF Kept
  <2> DEFINE old == stores[From][1].held
  <2>5. stores'[From][1].held = old \cup {main.op.arg}
        /\ (old \cup {main.op.arg} = old => stores' = stores)
    BY <2>1, <2>2, <2>3, <2>4, GainingIs
  <2>6. stores'[From][1].held \ old = {main.op.arg}
    BY <2>5
  <2> QED  BY <2>1, <2>6 DEF SharedWith
<1>2. MeshInv /\ [Next]_vars => [Shared]_vars
  BY <1>1
<1> QED  BY <1>2, MeshInductive, PTL DEF Spec, FetchesAreShared

\* Whatever the outage and the number of events, the delivery log that a net-pair sends
\* holds every event that a block with the link up can still send, once, in order, in the
\* first such block, and every such block's own value.
THEOREM OutageNeverLoses == Spec => []OutageLosesNothing
<1>1. MeshInv => OutageLosesNothing
  <2> SUFFICES ASSUME MeshInv, main.pc = "reply", main.op.op = "net-pair"
               PROVE  LogIsReliable(main.op.arg, main.ask.arg)
    BY DEF OutageLosesNothing
  <2>1. main.op \in Requests /\ main.ask \in AskOf(main.op)
    BY DEF MeshInv, IInv, MainOK, InRequest
  <2>2. main.op.arg \in Posts
    BY <2>1, ScriptAssumption DEF Posts
  <2>3. main.ask = Request("REPLAY", DeliveryLog(main.op.arg))
    BY <2>1 DEF AskOf
  <2>4. main.ask.arg = DeliveryLog(main.op.arg)
    BY <2>3 DEF Request
  <2> QED  BY <2>2, <2>4, LogAlwaysReliable
<1> QED  BY <1>1, MeshInductive, PTL

===============================================================================
