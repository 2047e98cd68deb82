---------------------------- MODULE RemoteLinkProofs ----------------------------
(***************************************************************************)
(* Values go to a remote node and back in order, for any number of inputs, *)
(* link attempts and mirrored values on their way.                         *)
(*                                                                         *)
(* The invariant follows a value along its way.  On the way there nothing  *)
(* that is ahead is newer than what is behind it: node, sets, the messages *)
(* of one link after another, outbox, input.  On the way back, the same:   *)
(* what the proxy shows, the link, ws_outbox, node.  The two chains meet in *)
(* the node, which starts over from its default when it is created; that   *)
(* breaks neither of them because a proxy asks for its node once, before   *)
(* anything else, and so the way back is still empty by then.              *)
(***************************************************************************)
EXTENDS RemoteLink, TLAPS

Value == 0..MaxInput
Letter == {SpawnMsg, DespawnMsg} \cup {SetMsg(v) : v \in Value}
Link == [state : {"dialing", "open", "closed"}, up : Seq(Letter), down : Seq(Value)]

Typed ==
  /\ proxy \in {"none", "live", "gone"}
  /\ input \in Value /\ latest \in Value \cup {None} /\ node \in Value \cup {Absent}
  /\ outbox \in Seq(Letter) /\ sets \in Seq(Value)
  /\ links \in Seq(Link) /\ connected \in BOOLEAN
  /\ hosted \in 0..conn /\ ws_outbox \in Seq([conn : 1..conn, value : Value])
  /\ edit \in {NoGraph, Absent, Default} /\ pending \in {NoGraph, Absent, Default}

\* Only the latest attempt can be open, and only an open link holds values.
OneLink ==
  /\ connected => conn > 0 /\ links[conn].state = "open"
  /\ \A k \in 1..conn : links[k].state = "open" => k = conn /\ connected
  /\ \A k \in 1..conn : links[k].down # << >> => links[k].state = "open"

\* The request for the node comes before anything else, and only once.
Asks(s) == \E i \in DOMAIN s : s[i] = SpawnMsg
SpawnFirst ==
  /\ proxy = "none" => outbox = << >> /\ \A k \in 1..conn : links[k].up = << >>
  /\ \A i \in DOMAIN outbox :
       outbox[i] = SpawnMsg => i = 1 /\ \A k \in 1..conn : links[k].up = << >>
  /\ \A k \in 1..conn : \A i \in DOMAIN links[k].up :
       links[k].up[i] = SpawnMsg => i = 1 /\ \A j \in 1..(k - 1) : links[j].up = << >>

\* The node is still to be asked for, on its way to the provider, or queued there.
Coming == proxy = "none" \/ Asks(outbox) \/ \E k \in 1..conn : Asks(links[k].up)
Queued == edit = Default \/ pending = Default

\* Until the node is there, nothing is on its way back.
Unborn ==
  /\ Coming => edit = NoGraph /\ pending = NoGraph
  /\ edit = Default => pending = NoGraph
  /\ Coming \/ Queued =>
       node = Absent /\ latest = None /\ ws_outbox = << >>
       /\ \A k \in 1..conn : links[k].down = << >>

\* The way there.
UpTo(m, v) == m.op = "set" => m.value <= v
From(v, m) == m.op = "set" => v <= m.value
InOrder(m, n) == m.op = "set" /\ n.op = "set" => m.value <= n.value
Sorted(s) == \A i, j \in DOMAIN s : i < j => InOrder(s[i], s[j])
Before(s, t) == \A i \in DOMAIN s, j \in DOMAIN t : InOrder(s[i], t[j])
AllUpTo(s, v) == \A i \in DOMAIN s : UpTo(s[i], v)
AllFrom(v, s) == \A i \in DOMAIN s : From(v, s[i])

There ==
  /\ Sorted(outbox) /\ AllUpTo(outbox, input)
  /\ \A k \in 1..conn :
       /\ Sorted(links[k].up) /\ Before(links[k].up, outbox) /\ AllUpTo(links[k].up, input)
       /\ \A j \in 1..(k - 1) : Before(links[j].up, links[k].up)
  /\ \A i \in DOMAIN sets :
       /\ sets[i] <= input /\ AllFrom(sets[i], outbox)
       /\ \A k \in 1..conn : AllFrom(sets[i], links[k].up)
  /\ node # Absent =>
       /\ node <= input /\ AllFrom(node, outbox)
       /\ \A i \in DOMAIN sets : node <= sets[i]
       /\ \A k \in 1..conn : AllFrom(node, links[k].up)

\* The way back.
Rising(s) == \A i, j \in DOMAIN s : i < j => s[i] <= s[j]
Back ==
  /\ \A i, j \in DOMAIN ws_outbox : i < j => ws_outbox[i].value <= ws_outbox[j].value
  /\ \A i \in DOMAIN ws_outbox : node # Absent => ws_outbox[i].value <= node
  /\ \A k \in 1..conn :
       /\ Rising(links[k].down)
       /\ \A i \in DOMAIN links[k].down :
            /\ \A j \in DOMAIN ws_outbox : links[k].down[i] <= ws_outbox[j].value
            /\ node # Absent => links[k].down[i] <= node
  /\ latest # None =>
       /\ \A i \in DOMAIN ws_outbox : latest <= ws_outbox[i].value
       /\ \A k \in 1..conn : \A i \in DOMAIN links[k].down : latest <= links[k].down[i]
       /\ node # Absent => latest <= node

LinkInv == Typed /\ OneLink /\ SpawnFirst /\ Unborn /\ There /\ Back

-----------------------------------------------------------------------------
(* What a step does to the links                                           *)

\* The messages on the links afterwards are the first ones of those before; a
\* new link has none.  The same of the values coming back.
UpKept ==
  /\ conn <= conn'
  /\ \A k \in 1..conn' : k > conn => links'[k].up = << >>
  /\ \A k \in 1..conn :
       /\ Len(links'[k].up) <= Len(links[k].up)
       /\ \A i \in 1..Len(links'[k].up) : links'[k].up[i] = links[k].up[i]
DownKept ==
  /\ conn <= conn'
  /\ \A k \in 1..conn' : k > conn => links'[k].down = << >>
  /\ \A k \in 1..conn :
       /\ Len(links'[k].down) <= Len(links[k].down)
       /\ \A i \in 1..Len(links'[k].down) : links'[k].down[i] = links[k].down[i]

\* One link changes and the others stay.
LEMMA OneChanges ==
  ASSUME Typed, NEW k \in 1..conn, NEW link \in Link, links' = [links EXCEPT ![k] = link]
  PROVE  /\ conn' = conn /\ links' \in Seq(Link) /\ links'[k] = link
         /\ \A j \in 1..conn : j # k => links'[j] = links[j]
  BY DEF Typed, conn

\* What the links hold.
LEMMA LinkTypes ==
  ASSUME NEW s \in Seq(Link)
  PROVE  /\ Len(s) \in Nat
         /\ \A k \in 1..Len(s) : /\ s[k].up \in Seq(Letter) /\ DOMAIN s[k].up = 1..Len(s[k].up)
                                 /\ Len(s[k].up) \in Nat
                                 /\ s[k].down \in Seq(Value) /\ DOMAIN s[k].down = 1..Len(s[k].down)
                                 /\ Len(s[k].down) \in Nat
  <1>1. \A k \in 1..Len(s) : s[k] \in Link
    OBVIOUS
  <1>2. \A k \in 1..Len(s) : s[k].up \in Seq(Letter) /\ s[k].down \in Seq(Value)
    BY <1>1 DEF Link
  <1> QED BY <1>2

\* Where a message or a value on a link comes from.
LEMMA Older ==
  ASSUME Typed, Typed'
  PROVE  /\ UpKept => \A k \in 1..conn' : \A i \in DOMAIN links'[k].up :
              k \in 1..conn /\ i \in DOMAIN links[k].up /\ links'[k].up[i] = links[k].up[i]
         /\ DownKept => \A k \in 1..conn' : \A i \in DOMAIN links'[k].down :
              k \in 1..conn /\ i \in DOMAIN links[k].down /\ links'[k].down[i] = links[k].down[i]
  <1>1. links \in Seq(Link) /\ links' \in Seq(Link)
    BY DEF Typed
  <1>2. /\ conn \in Nat /\ conn' \in Nat
        /\ \A k \in 1..conn : /\ DOMAIN links[k].up = 1..Len(links[k].up)
                              /\ Len(links[k].up) \in Nat
                              /\ DOMAIN links[k].down = 1..Len(links[k].down)
                              /\ Len(links[k].down) \in Nat
        /\ \A k \in 1..conn' : /\ DOMAIN links'[k].up = 1..Len(links'[k].up)
                               /\ Len(links'[k].up) \in Nat
                               /\ DOMAIN links'[k].down = 1..Len(links'[k].down)
                               /\ Len(links'[k].down) \in Nat
    BY <1>1, LinkTypes DEF conn
  <1> HIDE DEF conn
  <1>3. Len(<< >>) = 0
    OBVIOUS
  <1>4. ASSUME UpKept, NEW k \in 1..conn', NEW i \in DOMAIN links'[k].up
        PROVE  k \in 1..conn /\ i \in DOMAIN links[k].up /\ links'[k].up[i] = links[k].up[i]
    <2>1. k \in 1..conn
      BY <1>2, <1>3, <1>4 DEF UpKept
    <2>2. DOMAIN links[k].up = 1..Len(links[k].up) /\ Len(links[k].up) \in Nat
      BY <1>2, <2>1
    <2>3. i \in 1..Len(links'[k].up) /\ Len(links'[k].up) \in Nat
      BY <1>2
    <2>4. /\ Len(links'[k].up) <= Len(links[k].up)
          /\ links'[k].up[i] = links[k].up[i]
      BY <1>4, <2>1, <2>3 DEF UpKept
    <2> QED BY <2>1, <2>2, <2>3, <2>4
  <1>5. ASSUME DownKept, NEW k \in 1..conn', NEW i \in DOMAIN links'[k].down
        PROVE  k \in 1..conn /\ i \in DOMAIN links[k].down /\ links'[k].down[i] = links[k].down[i]
    <2>1. k \in 1..conn
      BY <1>2, <1>3, <1>5 DEF DownKept
    <2>2. DOMAIN links[k].down = 1..Len(links[k].down) /\ Len(links[k].down) \in Nat
      BY <1>2, <2>1
    <2>3. i \in 1..Len(links'[k].down) /\ Len(links'[k].down) \in Nat
      BY <1>2
    <2>4. /\ Len(links'[k].down) <= Len(links[k].down)
          /\ links'[k].down[i] = links[k].down[i]
      BY <1>5, <2>1, <2>3 DEF DownKept
    <2> QED BY <2>1, <2>2, <2>3, <2>4
  <1> QED BY <1>4, <1>5

\* A link that was empty stays so.
LEMMA StillEmpty ==
  ASSUME Typed, Typed', NEW k \in 1..conn'
  PROVE  /\ UpKept /\ (k \in 1..conn => links[k].up = << >>) => links'[k].up = << >>
         /\ DownKept /\ (k \in 1..conn => links[k].down = << >>) => links'[k].down = << >>
  <1>1. /\ links'[k].up \in Seq(Letter) /\ links'[k].down \in Seq(Value)
        /\ DOMAIN << >> = {} /\ conn' = Len(links')
    BY LinkTypes DEF Typed, conn
  <1> HIDE DEF conn
  <1>2. UpKept /\ (k \in 1..conn => links[k].up = << >>) => DOMAIN links'[k].up = {}
    BY Older, <1>1
  <1>3. DownKept /\ (k \in 1..conn => links[k].down = << >>) => DOMAIN links'[k].down = {}
    BY Older, <1>1
  <1>4. \A s \in Seq(Letter) \cup Seq(Value) : DOMAIN s = {} => s = << >>
    OBVIOUS
  <1> QED BY <1>1, <1>2, <1>3, <1>4

\* Messages that only disappear from the end of a link leave the chain in order.
LEMMA ThereKept ==
  ASSUME Typed, Typed', There, UpKept, UNCHANGED <<input, outbox, sets, node>>
  PROVE  There'
  <1>1. /\ conn \in Nat /\ conn' \in Nat
        /\ \A k \in 1..conn' : \A i \in DOMAIN links'[k].up :
             k \in 1..conn /\ i \in DOMAIN links[k].up /\ links'[k].up[i] = links[k].up[i]
    BY Older, LinkTypes DEF Typed, conn
  <1> HIDE DEF conn
  <1>2. \A k \in 1..conn' : /\ Sorted(links'[k].up) /\ Before(links'[k].up, outbox)
                            /\ AllUpTo(links'[k].up, input)
    BY <1>1 DEF There, Sorted, Before, AllUpTo
  <1>3. \A k \in 1..conn' : \A j \in 1..(k - 1) : Before(links'[j].up, links'[k].up)
    <2> SUFFICES ASSUME NEW k \in 1..conn', NEW j \in 1..(k - 1),
                        NEW i \in DOMAIN links'[j].up, NEW h \in DOMAIN links'[k].up
                 PROVE  InOrder(links'[j].up[i], links'[k].up[h])
      BY DEF Before
    <2>1. j \in 1..conn' /\ k \in 1..conn
      BY <1>1
    <2>2. Before(links[j].up, links[k].up)
      BY <2>1 DEF There
    <2> QED BY <1>1, <2>1, <2>2 DEF Before
  <1>4. \A v : \A k \in 1..conn' :
          (\A j \in 1..conn : AllFrom(v, links[j].up)) => AllFrom(v, links'[k].up)
    BY <1>1 DEF AllFrom
  <1>5. \A i \in DOMAIN sets : \A k \in 1..conn' : AllFrom(sets[i], links'[k].up)
    BY <1>4 DEF There
  <1>6. node # Absent => \A k \in 1..conn' : AllFrom(node, links'[k].up)
    BY <1>4 DEF There
  <1> QED BY <1>2, <1>3, <1>5, <1>6 DEF There

\* Nor does it put anything before the request for the node.
LEMMA SpawnFirstKept ==
  ASSUME Typed, Typed', SpawnFirst, UpKept, UNCHANGED <<proxy, outbox>>
  PROVE  SpawnFirst'
  <1>1. /\ conn \in Nat /\ conn' \in Nat
        /\ \A k \in 1..conn' : \A i \in DOMAIN links'[k].up :
             k \in 1..conn /\ i \in DOMAIN links[k].up /\ links'[k].up[i] = links[k].up[i]
    BY Older, LinkTypes DEF Typed, conn
  <1>2. \A k \in 1..conn' : (k \in 1..conn => links[k].up = << >>) => links'[k].up = << >>
    BY StillEmpty
  <1> HIDE DEF conn
  <1>3. ASSUME NEW k \in 1..conn', NEW i \in DOMAIN links'[k].up, links'[k].up[i] = SpawnMsg
        PROVE  i = 1 /\ \A j \in 1..(k - 1) : links'[j].up = << >>
    <2>1. i = 1 /\ \A j \in 1..(k - 1) : links[j].up = << >>
      BY <1>1, <1>3 DEF SpawnFirst
    <2> QED BY <1>1, <1>2, <2>1
  <1> QED BY <1>2, <1>3 DEF SpawnFirst

\* Values that only leave a link from the end keep the way back in order.
LEMMA BackKept ==
  ASSUME Typed, Typed', Back, DownKept, UNCHANGED <<ws_outbox, node>>, latest' \in {latest, None}
  PROVE  Back'
  <1>1. \A k \in 1..conn' : \A i \in DOMAIN links'[k].down :
          k \in 1..conn /\ i \in DOMAIN links[k].down /\ links'[k].down[i] = links[k].down[i]
    BY Older
  <1>2. \A k \in 1..conn' : Rising(links'[k].down)
    BY <1>1 DEF Back, Rising
  <1> HIDE DEF conn
  <1>3. \A k \in 1..conn' : \A i \in DOMAIN links'[k].down :
          /\ \A j \in DOMAIN ws_outbox : links'[k].down[i] <= ws_outbox[j].value
          /\ node # Absent => links'[k].down[i] <= node
          /\ latest' # None => latest' <= links'[k].down[i]
    BY <1>1 DEF Back
  <1> QED BY <1>2, <1>3 DEF Back

\* Nor do they, or the messages, bring a node closer that is still to come.
LEMMA UnbornKept ==
  ASSUME Typed, Typed', Unborn, UpKept, DownKept, latest' \in {latest, None},
         UNCHANGED <<proxy, outbox, edit, pending, node, ws_outbox>>
  PROVE  Unborn'
  <1>1. Coming' => Coming
    BY Older DEF Coming, Asks
  <1>2. (\A k \in 1..conn : links[k].down = << >>) => \A k \in 1..conn' : links'[k].down = << >>
    BY StillEmpty
  <1> QED BY <1>1, <1>2 DEF Unborn, Queued

-----------------------------------------------------------------------------
(* The proxy                                                               *)

\* The messages the consumer sends.
LEMMA Letters == {SpawnMsg, DespawnMsg} \subseteq Letter /\ \A v \in Value : SetMsg(v) \in Letter
  BY DEF Letter

\* What a message appended to the outbox asks of the chain and of the request.
LEMMA Sends ==
  ASSUME LinkInv, NEW m \in Letter, m.op # "spawn", UpTo(m, input), From(input, m),
         proxy # "none", outbox' = Append(outbox, m), latest' \in {latest, None},
         proxy' \in {"live", "gone"}, UNCHANGED <<input, network, provider>>
  PROVE  LinkInv'
  <1>1. /\ outbox \in Seq(Letter) /\ outbox' \in Seq(Letter)
        /\ \A i \in DOMAIN outbox' :
             \/ i \in DOMAIN outbox /\ outbox'[i] = outbox[i]
             \/ i = Len(outbox) + 1 /\ outbox'[i] = m
        /\ DOMAIN outbox = 1..Len(outbox) /\ Len(outbox) \in Nat
    BY DEF LinkInv, Typed
  <1>2. UNCHANGED <<input, links, connected, hosted, ws_outbox, sets, edit, pending, node, conn>>
    BY DEF network, provider, queued, graph, conn
  <1>3. Typed'
    BY <1>1, <1>2 DEF LinkInv, Typed
  <1>4. OneLink'
    BY <1>2 DEF LinkInv, OneLink
  <1>5. m # SpawnMsg
    BY DEF SpawnMsg
  <1>6. SpawnFirst'
    BY <1>1, <1>2, <1>5 DEF LinkInv, SpawnFirst
  <1>7. Coming' => Coming
    BY <1>1, <1>2, <1>5 DEF Coming, Asks
  <1>8. Unborn'
    BY <1>2, <1>7 DEF LinkInv, Unborn, Queued
  <1>9. Back'
    BY <1>2 DEF LinkInv, Back
  <1>10. There'
    <2>1. input \in Value /\ node \in Value \cup {Absent} /\ sets \in Seq(Value)
          /\ links \in Seq(Link)
      BY DEF LinkInv, Typed
    <2>a. \A n \in Letter : UpTo(n, input) => InOrder(n, m)
      BY <2>1 DEF InOrder, UpTo, From, Letter, SetMsg, SpawnMsg, DespawnMsg, Value
    <2>b. \A i \in DOMAIN outbox : InOrder(outbox[i], m)
      BY <1>1, <2>a DEF LinkInv, There, AllUpTo
    <2>2. Sorted(outbox') /\ AllUpTo(outbox', input)
      BY <1>1, <2>b DEF LinkInv, There, Sorted, AllUpTo
    <2>3. \A k \in 1..conn : Before(links[k].up, outbox')
      <3> SUFFICES ASSUME NEW k \in 1..conn PROVE Before(links[k].up, outbox')
        OBVIOUS
      <3>1. links[k].up \in Seq(Letter)
        BY <2>1, LinkTypes DEF conn
      <3>2. Before(links[k].up, outbox) /\ AllUpTo(links[k].up, input)
        BY DEF LinkInv, There
      <3>3. \A i \in DOMAIN links[k].up : InOrder(links[k].up[i], m)
        BY <2>a, <3>1, <3>2 DEF AllUpTo
      <3> QED BY <1>1, <3>2, <3>3 DEF Before
    <2>4. \A v \in Value : AllFrom(v, outbox) /\ v <= input => AllFrom(v, outbox')
      BY <1>1, <2>1 DEF AllFrom, From, UpTo, Value, Letter, SetMsg, SpawnMsg, DespawnMsg
    <2>5. \A i \in DOMAIN sets : AllFrom(sets[i], outbox')
      BY <2>1, <2>4 DEF LinkInv, There
    <2>6. node # Absent => AllFrom(node, outbox')
      BY <2>1, <2>4 DEF LinkInv, There
    <2> QED BY <1>2, <2>2, <2>3, <2>5, <2>6 DEF LinkInv, There
  <1> QED BY <1>3, <1>4, <1>6, <1>8, <1>9, <1>10 DEF LinkInv

\* The steps of the proxy node keep the invariant.
LEMMA ProxySteps ==
  ASSUME LinkInv, Proxy
  PROVE  LinkInv'
  <1>1. CASE Create
    <2>1. /\ outbox = << >> /\ outbox' = <<SpawnMsg>> /\ proxy = "none" /\ proxy' = "live"
          /\ UNCHANGED <<input, latest, links, connected, hosted, ws_outbox, sets, edit,
                         pending, node, conn>>
      BY <1>1 DEF LinkInv, SpawnFirst, Create, network, provider, queued, graph, conn
    <2>2. SpawnMsg \in Letter
      BY Letters
    <2>3. Typed'
      BY <2>1, <2>2 DEF LinkInv, Typed
    <2>4. OneLink' /\ Back'
      BY <2>1 DEF LinkInv, OneLink, Back
    <2>5. SpawnFirst'
      BY <2>1 DEF LinkInv, SpawnFirst
    <2>6. Unborn'
      BY <2>1 DEF LinkInv, Unborn, Coming, Queued
    <2>7. There'
      BY <2>1 DEF LinkInv, There, Sorted, Before, AllUpTo, AllFrom, InOrder, UpTo, From, SpawnMsg
    <2> QED BY <2>3, <2>4, <2>5, <2>6, <2>7 DEF LinkInv
  <1>2. CASE SetIn
    <2>1. /\ input' \in Value /\ input < input' /\ input \in Value
          /\ UNCHANGED <<proxy, latest, outbox, links, connected, hosted, ws_outbox, sets, edit,
                         pending, node, conn>>
      BY <1>2, LinkBounds DEF LinkInv, Typed, SetIn, Value, network, provider, queued, graph, conn
    <2>2. Typed'
      BY <2>1 DEF LinkInv, Typed
    <2>3. OneLink' /\ Back' /\ SpawnFirst'
      BY <2>1 DEF LinkInv, OneLink, Back, SpawnFirst
    <2>4. Unborn'
      BY <2>1 DEF LinkInv, Unborn, Coming, Queued
    <2>5. There'
      <3>1. /\ outbox \in Seq(Letter) /\ sets \in Seq(Value) /\ node \in Value \cup {Absent}
            /\ \A k \in 1..conn : links[k].up \in Seq(Letter)
        BY LinkTypes DEF LinkInv, Typed, conn
      <3>2. \A s \in Seq(Letter) : AllUpTo(s, input) => AllUpTo(s, input')
        BY <2>1 DEF AllUpTo, UpTo, Letter, SetMsg, SpawnMsg, DespawnMsg, Value
      <3>3. \A v \in Value : v <= input => v <= input'
        BY <2>1 DEF Value
      <3> QED BY <2>1, <3>1, <3>2, <3>3 DEF LinkInv, There
    <2> QED BY <2>2, <2>3, <2>4, <2>5 DEF LinkInv
  <1>3. CASE Process
    <2>1. input \in Value
      BY DEF LinkInv, Typed
    <2>2. SetMsg(input) \in Letter /\ SetMsg(input).op # "spawn"
          /\ UpTo(SetMsg(input), input) /\ From(input, SetMsg(input))
      BY <2>1, Letters DEF SetMsg, UpTo, From, Value
    <2>3. /\ proxy = "live" /\ outbox' = Append(outbox, SetMsg(input))
          /\ UNCHANGED <<proxy, latest, input, network, provider>>
      BY <1>3 DEF Process
    <2> QED BY <2>2, <2>3, Sends
  <1>4. CASE Destroy
    <2>1. DespawnMsg \in Letter /\ DespawnMsg.op # "spawn"
          /\ UpTo(DespawnMsg, input) /\ From(input, DespawnMsg)
      BY Letters DEF DespawnMsg, UpTo, From
    <2>2. /\ proxy = "live" /\ proxy' = "gone" /\ outbox' = Append(outbox, DespawnMsg)
          /\ latest' = None /\ UNCHANGED <<input, network, provider>>
      BY <1>4 DEF Destroy
    <2> QED BY <2>1, <2>2, Sends
  <1> QED BY <1>1, <1>2, <1>3, <1>4 DEF Proxy

-----------------------------------------------------------------------------
(* The link and the network                                                *)

\* Members of a set are members of a larger one.
LEMMA WiderSeq ==
  ASSUME NEW A, NEW B, A \subseteq B, NEW s \in Seq(A)
  PROVE  s \in Seq(B)
  <1>1. Len(s) \in Nat /\ s = [i \in 1..Len(s) |-> s[i]] /\ \A i \in 1..Len(s) : s[i] \in B
    OBVIOUS
  <1> QED BY <1>1

\* A step that only takes from the links keeps the invariant.
LEMMA Takes ==
  ASSUME LinkInv, Typed', OneLink', UpKept, DownKept,
         UNCHANGED <<proxy, input, latest, outbox, sets, edit, pending, node, ws_outbox>>
  PROVE  LinkInv'
  <1>1. There'
    BY ThereKept DEF LinkInv
  <1>2. SpawnFirst'
    BY SpawnFirstKept DEF LinkInv
  <1>3. Back'
    BY BackKept DEF LinkInv
  <1>4. Unborn'
    BY UnbornKept DEF LinkInv
  <1> QED BY <1>1, <1>2, <1>3, <1>4 DEF LinkInv

\* One link replaced by one that holds the first of its messages and values.
LEMMA Replaces ==
  ASSUME LinkInv, conn > 0, NEW link \in Link, Changed(conn, link),
         Len(link.up) <= Len(links[conn].up),
         \A i \in 1..Len(link.up) : link.up[i] = links[conn].up[i],
         link.down = links[conn].down \/ link.down = << >>,
         link.state # "open" => link.down = << >>,
         connected' = (link.state = "open"),
         UNCHANGED <<proxy, input, latest, outbox, sets, edit, pending, node, ws_outbox, hosted>>
  PROVE  LinkInv'
  <1>1. /\ conn \in Nat /\ conn \in 1..conn /\ links \in Seq(Link) /\ Typed
    BY DEF LinkInv, Typed, conn
  <1>2. /\ conn' = conn /\ links' \in Seq(Link) /\ links'[conn] = link
        /\ \A j \in 1..conn : j # conn => links'[j] = links[j]
    BY <1>1, OneChanges DEF Changed
  <1>3. Typed'
    BY <1>1, <1>2 DEF Typed
  <1>4. \A k \in 1..conn : k # conn => links[k].state # "open" /\ links[k].down = << >>
    BY DEF LinkInv, OneLink
  <1>5. OneLink'
    BY <1>1, <1>2, <1>4 DEF OneLink
  <1>6. /\ link.down \in Seq(Value) /\ Len(link.down) \in Nat /\ Len(<< >>) = 0
        /\ Len(links[conn].down) \in Nat
        /\ \A k \in 1..conn : Len(links[k].up) \in Nat /\ Len(links[k].down) \in Nat
    BY <1>1, LinkTypes DEF Link, conn
  <1> HIDE DEF conn
  <1>7. UpKept
    <2>1. \A k \in 1..conn' : ~(k > conn)
      BY <1>1, <1>2
    <2>2. ASSUME NEW k \in 1..conn
          PROVE  /\ Len(links'[k].up) <= Len(links[k].up)
                 /\ \A i \in 1..Len(links'[k].up) : links'[k].up[i] = links[k].up[i]
      <3>1. CASE k = conn
        BY <1>2, <3>1
      <3>2. CASE k # conn
        BY <1>2, <1>6, <3>2
      <3> QED BY <3>1, <3>2
    <2> QED BY <1>1, <1>2, <2>1, <2>2 DEF UpKept
  <1>8. Len(link.down) <= Len(links[conn].down)
        /\ \A i \in 1..Len(link.down) : link.down[i] = links[conn].down[i]
    BY <1>6
  <1>9. DownKept
    <2>1. \A k \in 1..conn' : ~(k > conn)
      BY <1>1, <1>2
    <2>2. ASSUME NEW k \in 1..conn
          PROVE  /\ Len(links'[k].down) <= Len(links[k].down)
                 /\ \A i \in 1..Len(links'[k].down) : links'[k].down[i] = links[k].down[i]
      <3>1. CASE k = conn
        BY <1>2, <1>8, <3>1
      <3>2. CASE k # conn
        BY <1>2, <1>6, <3>2
      <3> QED BY <3>1, <3>2
    <2> QED BY <1>1, <1>2, <2>1, <2>2 DEF DownKept
  <1> QED BY <1>3, <1>5, <1>7, <1>9, Takes

\* Neither an attempt, nor its outcome, nor a break disturbs it.
LEMMA LinkSteps ==
  ASSUME LinkInv, Attempt \/ Open \/ Fail \/ Break
  PROVE  LinkInv'
  <1>1. UNCHANGED <<proxy, input, latest, outbox, sets, edit, pending, node, ws_outbox, hosted>>
    BY DEF Attempt, Open, Fail, Break, consumer, provider, queued, graph
  <1>2. links \in Seq(Link) /\ conn \in Nat /\ MaxLinks \in Nat
    BY LinkBounds DEF LinkInv, Typed, conn
  <1>3. conn > 0 => links[conn] \in Link
    BY <1>2 DEF conn
  <1>4. CASE Attempt
    <2>1. /\ ~connected /\ ~connected' /\ conn' = conn + 1
          /\ links' = Append(links, [state |-> "dialing", up |-> << >>, down |-> << >>])
      BY <1>4, <1>2 DEF Attempt, conn
    <2>2. [state |-> "dialing", up |-> << >>, down |-> << >>] \in Link
      BY DEF Link
    <2>3. /\ links' \in Seq(Link) /\ \A k \in 1..conn : links'[k] = links[k]
          /\ links'[conn + 1] = [state |-> "dialing", up |-> << >>, down |-> << >>]
      BY <1>2, <2>1, <2>2 DEF conn
    <2> HIDE DEF conn
    <2>a. hosted' \in 0..conn' /\ connected' \in BOOLEAN
      <3>1. hosted \in 0..conn /\ hosted' = hosted /\ connected \in BOOLEAN /\ connected' = connected
        BY <1>1, <1>4 DEF LinkInv, Typed, Attempt
      <3> QED BY <1>2, <2>1, <3>1
    <2>b. ws_outbox' \in Seq([conn : 1..conn', value : Value])
      <3>1. ws_outbox \in Seq([conn : 1..conn, value : Value]) /\ ws_outbox' = ws_outbox
        BY <1>1 DEF LinkInv, Typed
      <3>2. [conn : 1..conn, value : Value] \subseteq [conn : 1..conn', value : Value]
        BY <1>2, <2>1
      <3> QED BY <3>1, <3>2, WiderSeq
    <2>4. Typed'
      BY <1>1, <2>3, <2>a, <2>b DEF LinkInv, Typed
    <2>5. OneLink'
      <3>1. \A k \in 1..conn : links[k].state # "open" /\ links[k].down = << >>
        BY <2>1 DEF LinkInv, OneLink
      <3>2. \A k \in 1..(conn + 1) : k \in 1..conn \/ k = conn + 1
        BY <1>2
      <3>3. \A k \in 1..(conn + 1) : links'[k].state # "open" /\ links'[k].down = << >>
        BY <2>3, <3>1, <3>2
      <3> QED BY <2>1, <3>3 DEF OneLink
    <2>6. \A k \in 1..conn : Len(links[k].up) \in Nat /\ Len(links[k].down) \in Nat
      BY <1>2, LinkTypes DEF conn
    <2>c. conn <= conn' /\ \A k \in 1..conn' : k > conn => k = conn + 1
      BY <1>2, <2>1
    <2>d. \A k \in 1..conn' : k > conn => links'[k].up = << >> /\ links'[k].down = << >>
      BY <2>3, <2>c
    <2>7. UpKept /\ DownKept
      <3>1. \A k \in 1..conn : Len(links'[k].up) <= Len(links[k].up)
                              /\ Len(links'[k].down) <= Len(links[k].down)
        BY <2>3, <2>6
      <3>2. \A k \in 1..conn : links'[k] = links[k]
        BY <2>3
      <3> QED BY <2>c, <2>d, <3>1, <3>2 DEF UpKept, DownKept
    <2> QED BY <1>1, <2>4, <2>5, <2>7, Takes
  <1>5. CASE Open
    <2> DEFINE l == links[conn]
               link == [state |-> "open", up |-> l.up, down |-> l.down]
    <2>1. conn > 0 /\ connected' = TRUE /\ Changed(conn, [l EXCEPT !.state = "open"])
      BY <1>5 DEF Open
    <2>2. l.up \in Seq(Letter) /\ l.down \in Seq(Value) /\ link = [l EXCEPT !.state = "open"]
          /\ link \in Link
      BY <1>3, <2>1 DEF Link
    <2>3. link.state = "open" /\ link.up = l.up /\ link.down = l.down
      OBVIOUS
    <2> HIDE DEF link, l
    <2>4. Len(link.up) <= Len(l.up)
      BY <2>2, <2>3
    <2> QED BY <1>1, <2>1, <2>2, <2>3, <2>4, Replaces DEF l
  <1>6. CASE Fail
    <2> DEFINE l == links[conn]
               link == [state |-> "closed", up |-> l.up, down |-> l.down]
    <2>1. /\ conn > 0 /\ connected' = connected /\ Changed(conn, [l EXCEPT !.state = "closed"])
          /\ l.state = "dialing"
      BY <1>2, <1>6 DEF Fail
    <2>2. l.up \in Seq(Letter) /\ l.down \in Seq(Value) /\ link = [l EXCEPT !.state = "closed"]
          /\ link \in Link
      BY <1>3, <2>1 DEF Link
    <2>3. link.state = "closed" /\ link.up = l.up /\ link.down = l.down
      OBVIOUS
    <2>4. connected' = FALSE /\ l.down = << >>
      BY <1>2, <2>1 DEF LinkInv, OneLink, Typed
    <2> HIDE DEF link, l
    <2>5. Len(link.up) <= Len(l.up)
      BY <2>2, <2>3
    <2>6. connected' = (link.state = "open")
      BY <2>3, <2>4, Zenon
    <2> QED BY <1>1, <2>1, <2>2, <2>3, <2>4, <2>5, <2>6, Replaces DEF l
  <1>7. CASE Break
    <2> DEFINE l == links[conn]
    <2>1. conn > 0 /\ connected' = FALSE /\ l.up \in Seq(Letter)
      BY <1>3, <1>7 DEF Break, LinkInv, OneLink, Link
    <2>2. PICK kept \in 0..Len(l.up) :
            Changed(conn, [state |-> "closed", up |-> SubSeq(l.up, 1, kept), down |-> << >>])
      BY <1>7 DEF Break
    <2> DEFINE link == [state |-> "closed", up |-> SubSeq(l.up, 1, kept), down |-> << >>]
    <2>3. /\ link.up \in Seq(Letter) /\ Len(link.up) <= Len(l.up)
          /\ \A i \in 1..Len(link.up) : link.up[i] = l.up[i]
      BY <2>1
    <2>4. link \in Link /\ link.state = "closed" /\ link.down = << >>
      BY <2>3 DEF Link
    <2> HIDE DEF link
    <2>5. Changed(conn, link) /\ connected' = (link.state = "open")
      BY <2>1, <2>2, <2>4 DEF link
    <2> QED BY <1>1, <2>1, <2>3, <2>4, <2>5, Replaces
  <1> QED BY <1>4, <1>5, <1>6, <1>7

\* Links whose messages stay, or whose values stay.
LEMMA Same ==
  ASSUME Typed, conn' = conn
  PROVE  /\ (\A k \in 1..conn : links'[k].up = links[k].up) => UpKept
         /\ (\A k \in 1..conn : links'[k].down = links[k].down) => DownKept
  <1>1. /\ conn \in Nat
        /\ \A k \in 1..conn : Len(links[k].up) \in Nat /\ Len(links[k].down) \in Nat
    BY LinkTypes DEF Typed, conn
  <1> HIDE DEF conn
  <1>2. conn <= conn' /\ \A k \in 1..conn' : ~(k > conn)
    BY <1>1
  <1> QED BY <1>1, <1>2 DEF UpKept, DownKept

\* A link with other messages.
LEMMA OtherUp ==
  ASSUME NEW l \in Link, NEW u
  PROVE  [l EXCEPT !.up = u] = [state |-> l.state, up |-> u, down |-> l.down]
  <1>1. l = [state |-> l.state, up |-> l.up, down |-> l.down]
    BY DEF Link
  <1> QED BY <1>1
\* And one with other values.
LEMMA OtherDown ==
  ASSUME NEW l \in Link, NEW d
  PROVE  [l EXCEPT !.down = d] = [state |-> l.state, up |-> l.up, down |-> d]
  <1>1. l = [state |-> l.state, up |-> l.up, down |-> l.down]
    BY DEF Link
  <1> QED BY <1>1

\* What a sequence holds.
LEMMA Holds ==
  ASSUME NEW S, NEW s \in Seq(S), NEW i \in DOMAIN s
  PROVE  s[i] \in S
  OBVIOUS

\* Flush: the outbox joins the messages of the link, behind them.
LEMMA FlushStep ==
  ASSUME LinkInv, Flush
  PROVE  LinkInv'
  <1> DEFINE up == links[conn].up
             link == [state |-> links[conn].state, up |-> up \o outbox, down |-> links[conn].down]
  <1>1. /\ connected /\ conn > 0 /\ outbox' = << >>
        /\ UNCHANGED <<proxy, input, latest, connected, hosted, ws_outbox, sets, edit, pending, node>>
    BY DEF Flush, LinkInv, OneLink, consumer, provider, queued, graph
  <1>2. /\ links \in Seq(Link) /\ conn \in Nat /\ conn \in 1..conn /\ links[conn] \in Link
        /\ outbox \in Seq(Letter) /\ DOMAIN outbox = 1..Len(outbox) /\ Len(outbox) \in Nat
    BY <1>1 DEF LinkInv, Typed, conn
  <1>3. up \in Seq(Letter) /\ link \in Link /\ link = [links[conn] EXCEPT !.up = up \o outbox]
    <2>1. up \in Seq(Letter) /\ up \o outbox \in Seq(Letter)
      BY <1>2 DEF Link
    <2>2. link \in Link
      BY <1>2, <2>1 DEF Link
    <2> QED BY <1>2, <2>1, <2>2, OtherUp
  <1>4. /\ conn' = conn /\ links' \in Seq(Link) /\ links'[conn] = link
        /\ \A j \in 1..conn : j # conn => links'[j] = links[j]
    BY <1>2, <1>3, OneChanges DEF Flush, Changed, LinkInv
  <1>5. /\ links'[conn].state = links[conn].state /\ links'[conn].down = links[conn].down
        /\ links'[conn].up = up \o outbox
    BY <1>4
  <1> HIDE DEF link, conn
  <1>6. /\ \A k \in 1..conn : links'[k].state = links[k].state /\ links'[k].down = links[k].down
        /\ \A k \in 1..conn : k # conn => links'[k].up = links[k].up
    BY <1>4, <1>5
  <1>7. /\ DOMAIN (up \o outbox) = 1..(Len(up) + Len(outbox)) /\ Len(up) \in Nat
        /\ DOMAIN up = 1..Len(up)
        /\ \A i \in DOMAIN (up \o outbox) :
             (up \o outbox)[i] = IF i <= Len(up) THEN up[i] ELSE outbox[i - Len(up)]
    BY <1>2, <1>3
  <1>8. \A i \in DOMAIN (up \o outbox) :
          \/ i \in DOMAIN up /\ (up \o outbox)[i] = up[i]
          \/ i - Len(up) \in DOMAIN outbox /\ (up \o outbox)[i] = outbox[i - Len(up)] /\ i > Len(up)
    BY <1>2, <1>7
  <1>9. Typed'
    BY <1>1, <1>4 DEF LinkInv, Typed
  <1>10. OneLink'
    <2>1. OneLink
      BY DEF LinkInv
    <2> QED BY <1>1, <1>2, <1>4, <1>6, <2>1 DEF OneLink
  <1>11. DownKept
    <2>1. \A k \in 1..conn : Len(links[k].down) \in Nat
      BY <1>2, LinkTypes DEF conn
    <2>2. \A k \in 1..conn' : ~(k > conn)
      BY <1>2, <1>4
    <2> QED BY <1>2, <1>4, <1>6, <2>1, <2>2 DEF DownKept
  <1>12. Back'
    BY <1>1, <1>9, <1>11, BackKept DEF LinkInv
  <1>13. SpawnFirst'
    <2>1. proxy # "none"
      BY DEF LinkInv, SpawnFirst, Flush
    <2>2. ASSUME NEW k \in 1..conn, NEW i \in DOMAIN links'[k].up, links'[k].up[i] = SpawnMsg
          PROVE  i = 1 /\ \A j \in 1..(k - 1) : links'[j].up = << >>
      <3>1. CASE k # conn
        BY <1>2, <1>6, <2>2, <3>1 DEF LinkInv, SpawnFirst
      <3>2. CASE k = conn /\ i \in DOMAIN up
        <4>1. up[i] = SpawnMsg
          BY <1>5, <1>7, <2>2, <3>2
        <4>2. i = 1 /\ \A j \in 1..(conn - 1) : links[j].up = << >>
          BY <1>2, <3>2, <4>1 DEF LinkInv, SpawnFirst
        <4> QED BY <1>2, <1>6, <3>2, <4>2
      <3>3. CASE k = conn /\ i \notin DOMAIN up
        <4>1. i - Len(up) \in DOMAIN outbox /\ outbox[i - Len(up)] = SpawnMsg
          BY <1>5, <1>8, <2>2, <3>3
        <4>2. i - Len(up) = 1 /\ \A j \in 1..conn : links[j].up = << >>
          BY <4>1 DEF LinkInv, SpawnFirst
        <4>3. Len(up) = 0
          BY <1>2, <4>2
        <4>4. i \in 1..(Len(up) + Len(outbox))
          BY <1>5, <1>7, <3>3
        <4>5. i = 1
          BY <1>2, <4>2, <4>3, <4>4
        <4> QED BY <1>2, <1>6, <3>3, <4>2, <4>5
      <3> QED BY <3>1, <3>2, <3>3
    <2> QED BY <1>1, <1>4, <2>1, <2>2 DEF SpawnFirst
  <1>14. Coming' => Coming
    <2>1. ASSUME NEW k \in 1..conn, Asks(links'[k].up)
          PROVE  Coming
      <3>1. CASE k # conn
        BY <1>6, <2>1, <3>1 DEF Coming, Asks
      <3>2. CASE k = conn
        <4>1. Asks(up) \/ Asks(outbox)
          BY <1>5, <1>8, <2>1, <3>2 DEF Asks
        <4> QED BY <1>2, <4>1 DEF Coming
      <3> QED BY <3>1, <3>2
    <2> QED BY <1>1, <1>4, <2>1 DEF Coming, Asks
  <1>15. Unborn'
    BY <1>1, <1>4, <1>6, <1>14 DEF LinkInv, Unborn, Queued
  <1>16. There'
    <2>1. /\ Sorted(up) /\ Before(up, outbox) /\ AllUpTo(up, input) /\ Sorted(outbox)
          /\ AllUpTo(outbox, input)
      BY <1>2 DEF LinkInv, There
    <2>2. Sorted(up \o outbox)
      <3> SUFFICES ASSUME NEW i \in DOMAIN (up \o outbox), NEW j \in DOMAIN (up \o outbox), i < j
                   PROVE  InOrder((up \o outbox)[i], (up \o outbox)[j])
        BY DEF Sorted
      <3>1. CASE j \in DOMAIN up
        BY <1>7, <2>1, <3>1 DEF Sorted
      <3>2. CASE i \in DOMAIN up /\ j \notin DOMAIN up
        BY <1>8, <2>1, <1>7, <3>2 DEF Before
      <3>3. CASE i \notin DOMAIN up
        <4>1. i - Len(up) < j - Len(up) /\ j \notin DOMAIN up
          BY <1>7, <3>3
        <4> QED BY <1>8, <2>1, <3>3, <4>1 DEF Sorted
      <3> QED BY <3>1, <3>2, <3>3
    <2>3. AllUpTo(up \o outbox, input)
      BY <1>8, <2>1 DEF AllUpTo
    <2>4. \A v : AllFrom(v, up) /\ AllFrom(v, outbox) => AllFrom(v, up \o outbox)
      BY <1>8 DEF AllFrom
    <2>5. \A s : Before(s, up) /\ Before(s, outbox) => Before(s, up \o outbox)
      BY <1>8 DEF Before
    <2>6. \A s : Before(s, << >>) /\ \A v : AllFrom(v, << >>)
      BY DEF Before, AllFrom
    <2>7. \A k \in 1..conn :
            /\ Sorted(links'[k].up) /\ Before(links'[k].up, outbox') /\ AllUpTo(links'[k].up, input)
            /\ \A j \in 1..(k - 1) : Before(links'[j].up, links'[k].up)
      <3> SUFFICES ASSUME NEW k \in 1..conn
                   PROVE  /\ Sorted(links'[k].up) /\ AllUpTo(links'[k].up, input)
                          /\ \A j \in 1..(k - 1) : Before(links'[j].up, links'[k].up)
        BY <1>1, <2>6
      <3>1. \A j \in 1..(k - 1) : j \in 1..conn /\ j # conn
        BY <1>2
      <3>2. \A j \in 1..(k - 1) : links'[j].up = links[j].up
        BY <1>6, <3>1
      <3>3. CASE k = conn
        BY <1>5, <2>2, <2>3, <2>5, <3>1, <3>2, <3>3 DEF LinkInv, There
      <3>4. CASE k # conn
        BY <1>6, <3>2, <3>4 DEF LinkInv, There
      <3> QED BY <3>3, <3>4
    <2>8. \A v : AllFrom(v, outbox) /\ (\A k \in 1..conn : AllFrom(v, links[k].up))
                 => \A k \in 1..conn : AllFrom(v, links'[k].up)
      BY <1>2, <1>5, <1>6, <2>4
    <2>9. \A i \in DOMAIN sets : \A k \in 1..conn : AllFrom(sets[i], links'[k].up)
      BY <2>8 DEF LinkInv, There
    <2>10. node # Absent => \A k \in 1..conn : AllFrom(node, links'[k].up)
      BY <2>8 DEF LinkInv, There
    <2>11. Sorted(outbox') /\ AllUpTo(outbox', input) /\ \A v : AllFrom(v, outbox')
      BY <1>1 DEF Sorted, AllUpTo, AllFrom
    <2> QED BY <1>1, <1>4, <2>7, <2>9, <2>10, <2>11 DEF LinkInv, There
  <1> QED BY <1>9, <1>10, <1>12, <1>13, <1>15, <1>16 DEF LinkInv

\* What a sequence holds without its first.
LEMMA Tails ==
  ASSUME NEW S, NEW s \in Seq(S), s # << >>
  PROVE  /\ Tail(s) \in Seq(S) /\ s[1] \in S /\ Head(s) = s[1] /\ 1 \in DOMAIN s
         /\ \A i \in DOMAIN Tail(s) : i + 1 \in DOMAIN s /\ Tail(s)[i] = s[i + 1] /\ i \in Nat \ {0}
  OBVIOUS

\* What it holds with one more.
LEMMA Appends ==
  ASSUME NEW S, NEW s \in Seq(S), NEW x \in S
  PROVE  /\ Append(s, x) \in Seq(S) /\ DOMAIN s \subseteq Nat
         /\ \A i \in DOMAIN Append(s, x) :
              \/ i \in DOMAIN s /\ Append(s, x)[i] = s[i]
              \/ i = Len(s) + 1 /\ Append(s, x)[i] = x /\ \A j \in DOMAIN s : j < i
  OBVIOUS

\* Receive: the oldest value on the link is what the proxy shows.
LEMMA ReceiveStep ==
  ASSUME LinkInv, Receive
  PROVE  LinkInv'
  <1>1. /\ links \in Seq(Link) /\ conn \in Nat /\ Typed
        /\ UNCHANGED <<proxy, input, outbox, connected, hosted, ws_outbox, sets, edit, pending, node>>
    BY DEF LinkInv, Typed, conn, Receive, provider, queued, graph
  <1>2. PICK k \in 1..conn : /\ links[k].down # << >> /\ latest' = Head(links[k].down)
                             /\ Changed(k, [links[k] EXCEPT !.down = Tail(@)])
    BY DEF Receive
  <1> DEFINE down == links[k].down
             link == [state |-> links[k].state, up |-> links[k].up, down |-> Tail(down)]
  <1>3. links[k] \in Link
    BY <1>1 DEF conn
  <1>4. down \in Seq(Value)
    BY <1>3 DEF Link
  <1>5. /\ Tail(down) \in Seq(Value) /\ down[1] \in Value /\ latest' = down[1] /\ 1 \in DOMAIN down
        /\ \A i \in DOMAIN Tail(down) :
             i + 1 \in DOMAIN down /\ Tail(down)[i] = down[i + 1] /\ i \in Nat \ {0}
    BY <1>2, <1>4, Tails
  <1>6. link \in Link
    BY <1>3, <1>5 DEF Link
  <1>7. Changed(k, link)
    BY <1>2, <1>3, OtherDown
  <1>8. /\ conn' = conn /\ links' \in Seq(Link) /\ links'[k] = link
        /\ \A j \in 1..conn : j # k => links'[j] = links[j]
    BY <1>1, <1>6, <1>7, OneChanges DEF Changed
  <1>9. /\ links'[k].state = links[k].state /\ links'[k].up = links[k].up
        /\ links'[k].down = Tail(down)
    BY <1>8
  <1> HIDE DEF link, conn
  <1>10. /\ \A j \in 1..conn : links'[j].state = links[j].state /\ links'[j].up = links[j].up
         /\ \A j \in 1..conn : j # k => links'[j].down = links[j].down
    BY <1>8, <1>9
  <1>11. Typed'
    BY <1>1, <1>5, <1>8 DEF Typed
  <1>12. UpKept
    BY <1>1, <1>8, <1>10, Same
  <1>13. There' /\ SpawnFirst'
    BY <1>1, <1>11, <1>12, ThereKept, SpawnFirstKept DEF LinkInv
  <1>14. OneLink'
    <2>1. OneLink
      BY DEF LinkInv
    <2> QED BY <1>1, <1>2, <1>8, <1>10, <2>1 DEF OneLink
  <1>15. Unborn'
    <2>1. ~Coming /\ ~Queued
      BY <1>2 DEF LinkInv, Unborn
    <2>2. Coming' => Coming
      BY <1>1, <1>8, <1>10 DEF Coming, Asks
    <2> QED BY <1>1, <2>1, <2>2 DEF LinkInv, Unborn, Queued
  <1>16. Back'
    <2>1. Rising(down)
      BY DEF LinkInv, Back
    <2>2. /\ Rising(Tail(down)) /\ \A i \in DOMAIN Tail(down) : down[1] <= Tail(down)[i]
      BY <1>5, <2>1 DEF Rising
    <2>3. \A i \in DOMAIN down :
            /\ \A j \in DOMAIN ws_outbox : down[i] <= ws_outbox[j].value
            /\ node # Absent => down[i] <= node
      BY DEF LinkInv, Back
    <2>4. \A i \in DOMAIN Tail(down) :
            /\ \A j \in DOMAIN ws_outbox : Tail(down)[i] <= ws_outbox[j].value
            /\ node # Absent => Tail(down)[i] <= node
      BY <1>5, <2>3
    <2>5. \A j \in 1..conn : j # k => links[j].down = << >>
      BY <1>2 DEF LinkInv, OneLink
    <2> HIDE DEF down
    <2>6. \A j \in 1..conn :
            /\ Rising(links'[j].down)
            /\ \A i \in DOMAIN links'[j].down :
                 /\ \A h \in DOMAIN ws_outbox : links'[j].down[i] <= ws_outbox[h].value
                 /\ node # Absent => links'[j].down[i] <= node
                 /\ down[1] <= links'[j].down[i]
      <3> SUFFICES ASSUME NEW j \in 1..conn
                   PROVE  /\ Rising(links'[j].down)
                          /\ \A i \in DOMAIN links'[j].down :
                               /\ \A h \in DOMAIN ws_outbox : links'[j].down[i] <= ws_outbox[h].value
                               /\ node # Absent => links'[j].down[i] <= node
                               /\ down[1] <= links'[j].down[i]
        OBVIOUS
      <3>1. CASE j = k
        BY <1>9, <2>2, <2>4, <3>1
      <3>2. CASE j # k
        BY <1>10, <2>5, <3>2 DEF Rising
      <3> QED BY <3>1, <3>2
    <2> QED BY <1>1, <1>5, <1>8, <2>3, <2>6 DEF LinkInv, Back
  <1> QED BY <1>11, <1>13, <1>14, <1>15, <1>16 DEF LinkInv

\* SendOuts: the oldest mirrored value goes onto its link, if that is still open.
LEMMA SendOutsStep ==
  ASSUME LinkInv, SendOuts
  PROVE  LinkInv'
  <1> DEFINE to == ws_outbox[1].conn
             v == ws_outbox[1].value
             down == links[to].down
             link == [state |-> links[to].state, up |-> links[to].up, down |-> Append(down, v)]
  <1>1. /\ links \in Seq(Link) /\ conn \in Nat /\ Typed /\ Back
        /\ UNCHANGED <<proxy, input, latest, outbox, connected, hosted, sets, edit, pending, node>>
    BY DEF LinkInv, Typed, conn, SendOuts, consumer, queued, graph
  <1>2. /\ ws_outbox \in Seq([conn : 1..conn, value : Value]) /\ ws_outbox # << >>
        /\ ws_outbox' = Tail(ws_outbox)
    BY DEF LinkInv, Typed, SendOuts
  <1>3. /\ Tail(ws_outbox) \in Seq([conn : 1..conn, value : Value])
        /\ ws_outbox[1] \in [conn : 1..conn, value : Value]
        /\ Head(ws_outbox) = ws_outbox[1] /\ 1 \in DOMAIN ws_outbox
        /\ \A i \in DOMAIN Tail(ws_outbox) :
             i + 1 \in DOMAIN ws_outbox /\ Tail(ws_outbox)[i] = ws_outbox[i + 1] /\ i \in Nat \ {0}
    BY <1>2, Tails
  <1>4. to \in 1..conn /\ v \in Value
    BY <1>3
  <1>5. links' = IF links[to].state = "open"
                 THEN [links EXCEPT ![to].down = Append(@, v)] ELSE links
    BY <1>3 DEF SendOuts
  <1>6. links[to] \in Link
    BY <1>1, <1>4 DEF conn
  <1>7. down \in Seq(Value)
    BY <1>6 DEF Link
  <1>8. /\ Append(down, v) \in Seq(Value) /\ DOMAIN down \subseteq Nat
        /\ \A i \in DOMAIN Append(down, v) :
             \/ i \in DOMAIN down /\ Append(down, v)[i] = down[i]
             \/ i = Len(down) + 1 /\ Append(down, v)[i] = v /\ \A j \in DOMAIN down : j < i
    BY <1>4, <1>7, Appends
  <1>9. link \in Link
    BY <1>6, <1>8 DEF Link
  <1>10. \/ links' = links
         \/ links[to].state = "open" /\ Changed(to, link)
    <2>1. CASE links[to].state = "open"
      <3>1. links' = [links EXCEPT ![to] = [links[to] EXCEPT !.down = Append(down, v)]]
        BY <1>5, <2>1
      <3> QED BY <1>6, <2>1, <3>1, OtherDown DEF Changed
    <2> QED BY <1>5, <2>1
  <1>11. /\ conn' = conn /\ links' \in Seq(Link)
         /\ \A j \in 1..conn : j # to => links'[j] = links[j]
         /\ \/ links'[to] = links[to]
            \/ links[to].state = "open" /\ links'[to] = link
    BY <1>1, <1>4, <1>9, <1>10, OneChanges DEF Changed, conn
  <1>12. /\ links'[to].state = links[to].state /\ links'[to].up = links[to].up
         /\ \/ links'[to].down = down
            \/ links[to].state = "open" /\ links'[to].down = Append(down, v)
    BY <1>11
  <1> HIDE DEF link, conn
  <1>13. /\ \A j \in 1..conn : links'[j].state = links[j].state /\ links'[j].up = links[j].up
         /\ \A j \in 1..conn : j # to => links'[j].down = links[j].down
    BY <1>11, <1>12
  <1>14. Typed'
    BY <1>1, <1>2, <1>3, <1>11 DEF Typed
  <1>15. There' /\ SpawnFirst'
    BY <1>1, <1>11, <1>13, <1>14, Same, ThereKept, SpawnFirstKept DEF LinkInv
  <1>16. OneLink'
    <2>1. OneLink
      BY DEF LinkInv
    <2> QED BY <1>1, <1>4, <1>11, <1>12, <1>13, <2>1 DEF OneLink
  <1>17. Unborn'
    <2>1. ~Coming /\ ~Queued
      BY <1>2 DEF LinkInv, Unborn
    <2>2. Coming' => Coming
      BY <1>1, <1>11, <1>13 DEF Coming, Asks
    <2> QED BY <1>1, <2>1, <2>2 DEF LinkInv, Unborn, Queued
  <1>18. Back'
    <2>a. \A i \in DOMAIN ws_outbox' : /\ i \in Nat \ {0} /\ i + 1 \in DOMAIN ws_outbox
                                       /\ ws_outbox'[i].value = ws_outbox[i + 1].value
      BY <1>2, <1>3
    <2>b. \A i, j \in DOMAIN ws_outbox : i < j => ws_outbox[i].value <= ws_outbox[j].value
      BY <1>1 DEF Back
    <2>1. /\ \A i \in DOMAIN ws_outbox' : v <= ws_outbox'[i].value
          /\ \A i, j \in DOMAIN ws_outbox' : i < j => ws_outbox'[i].value <= ws_outbox'[j].value
          /\ \A i \in DOMAIN ws_outbox' : node # Absent => ws_outbox'[i].value <= node
      <3>1. ASSUME NEW i \in DOMAIN ws_outbox'
            PROVE  v <= ws_outbox'[i].value /\ (node # Absent => ws_outbox'[i].value <= node)
        <4>1. 1 < i + 1 /\ i + 1 \in DOMAIN ws_outbox
          BY <2>a
        <4> QED BY <1>1, <1>3, <2>a, <2>b, <4>1 DEF Back
      <3>2. ASSUME NEW i \in DOMAIN ws_outbox', NEW j \in DOMAIN ws_outbox', i < j
            PROVE  ws_outbox'[i].value <= ws_outbox'[j].value
        <4>1. i + 1 < j + 1
          BY <2>a, <3>2
        <4> QED BY <2>a, <2>b, <4>1
      <3> QED BY <3>1, <3>2
    <2>2. /\ node # Absent => v <= node
          /\ latest # None => latest <= v /\ \A i \in DOMAIN ws_outbox' : latest <= ws_outbox'[i].value
      BY <1>1, <1>2, <1>3 DEF Back
    <2>3. ASSUME NEW k \in 1..conn
          PROVE  /\ Rising(links[k].down)
                 /\ \A i \in DOMAIN links[k].down :
                      /\ links[k].down[i] <= v
                      /\ \A j \in DOMAIN ws_outbox' : links[k].down[i] <= ws_outbox'[j].value
                      /\ node # Absent => links[k].down[i] <= node
                      /\ latest # None => latest <= links[k].down[i]
      BY <1>1, <1>2, <1>3 DEF Back
    <2> HIDE DEF v, to, down
    <2>4. CASE links'[to].down = links[to].down
      <3>1. \A k \in 1..conn : links'[k].down = links[k].down
        BY <1>13, <2>4
      <3> QED BY <1>1, <1>11, <2>1, <2>2, <2>3, <3>1 DEF Back
    <2>5. CASE links'[to].down = Append(down, v)
      <3>1. \A i \in DOMAIN down :
              /\ down[i] <= v
              /\ \A j \in DOMAIN ws_outbox' : down[i] <= ws_outbox'[j].value
              /\ node # Absent => down[i] <= node
              /\ latest # None => latest <= down[i]
        BY <1>4, <2>3 DEF down
      <3>2. Rising(down)
        BY <1>4, <2>3 DEF down
      <3>3. Rising(Append(down, v))
        <4>1. v <= v
          BY <1>4 DEF Value
        <4> QED BY <1>8, <3>1, <3>2, <4>1 DEF Rising
      <3>4. \A i \in DOMAIN Append(down, v) :
              /\ \A j \in DOMAIN ws_outbox' : Append(down, v)[i] <= ws_outbox'[j].value
              /\ node # Absent => Append(down, v)[i] <= node
              /\ latest # None => latest <= Append(down, v)[i]
        BY <1>8, <2>1, <2>2, <3>1
      <3>5. \A k \in 1..conn : k # to => links'[k].down = links[k].down
        BY <1>13
      <3>6. \A k \in 1..conn :
              /\ Rising(links'[k].down)
              /\ \A i \in DOMAIN links'[k].down :
                   /\ \A j \in DOMAIN ws_outbox' : links'[k].down[i] <= ws_outbox'[j].value
                   /\ node # Absent => links'[k].down[i] <= node
                   /\ latest # None => latest <= links'[k].down[i]
        <4> SUFFICES ASSUME NEW k \in 1..conn
                     PROVE  /\ Rising(links'[k].down)
                            /\ \A i \in DOMAIN links'[k].down :
                                 /\ \A j \in DOMAIN ws_outbox' : links'[k].down[i] <= ws_outbox'[j].value
                                 /\ node # Absent => links'[k].down[i] <= node
                                 /\ latest # None => latest <= links'[k].down[i]
          OBVIOUS
        <4>1. CASE k = to
          BY <2>5, <3>3, <3>4, <4>1
        <4>2. CASE k # to
          BY <2>3, <3>5, <4>2
        <4> QED BY <4>1, <4>2
      <3> QED BY <1>1, <1>11, <2>1, <2>2, <3>6 DEF Back
    <2> QED BY <1>12, <2>4, <2>5 DEF down
  <1> QED BY <1>14, <1>15, <1>16, <1>17, <1>18 DEF LinkInv

\* The oldest message of a link is handled first.
LEMMA RemovesFirst ==
  ASSUME NEW S, NEW s \in Seq(S), s # << >>
  PROVE  RemoveAt(s, 1) = Tail(s)
  BY DEF RemoveAt

-----------------------------------------------------------------------------
(* The provider                                                            *)

\* What is ahead of a link's oldest message, and what is behind it.
LEMMA OldestMessage ==
  ASSUME LinkInv, NEW k \in 1..conn, links[k].up # << >>, \A j \in 1..(k - 1) : links[j].up = << >>,
         links[k].up[1].op = "set", \A j \in 1..conn : j # k => links'[j].up = links[j].up,
         links'[k].up = Tail(links[k].up)
  PROVE  LET v == links[k].up[1].value IN
         /\ v \in Value /\ v <= input /\ AllFrom(v, outbox)
         /\ \A j \in 1..conn : AllFrom(v, links'[j].up)
         /\ \A i \in DOMAIN sets : sets[i] <= v
         /\ node # Absent => node <= v
  <1> DEFINE up == links[k].up
             v == up[1].value
  <1>1. up \in Seq(Letter) /\ conn \in Nat
    BY LinkTypes DEF LinkInv, Typed, conn
  <1> HIDE DEF conn
  <1>2. /\ up[1] \in Letter /\ 1 \in DOMAIN up
        /\ \A i \in DOMAIN Tail(up) : i + 1 \in DOMAIN up /\ Tail(up)[i] = up[i + 1] /\ i \in Nat \ {0}
    BY <1>1, Tails
  <1>3. v \in Value
    BY <1>2 DEF Letter, SpawnMsg, DespawnMsg, SetMsg
  <1>4. v <= input
    BY <1>2 DEF LinkInv, There, AllUpTo, UpTo
  <1>5. AllFrom(v, outbox)
    BY <1>2 DEF LinkInv, There, Before, InOrder, AllFrom, From
  <1>6. ASSUME NEW j \in 1..conn
        PROVE  AllFrom(v, links'[j].up)
    <2>1. CASE j < k
      <3>1. links'[j].up = << >>
        BY <1>1, <2>1
      <3> QED BY <3>1 DEF AllFrom
    <2>2. CASE j = k
      <3>1. Sorted(up)
        BY DEF LinkInv, There
      <3>2. \A i \in DOMAIN Tail(up) : 1 < i + 1
        BY <1>2
      <3>3. AllFrom(v, Tail(up))
        BY <1>2, <3>1, <3>2 DEF Sorted, AllFrom, From, InOrder
      <3> QED BY <2>2, <3>3
    <2>3. CASE j > k
      <3>1. Before(up, links[j].up) /\ links'[j].up = links[j].up
        BY <1>1, <2>3 DEF LinkInv, There
      <3> QED BY <1>2, <3>1 DEF Before, InOrder, AllFrom, From
    <2> QED BY <1>1, <2>1, <2>2, <2>3
  <1>7. \A i \in DOMAIN sets : sets[i] <= v
    BY <1>2 DEF LinkInv, There, AllFrom, From
  <1>8. node # Absent => node <= v
    BY <1>2 DEF LinkInv, There, AllFrom, From
  <1> QED BY <1>3, <1>4, <1>5, <1>6, <1>7, <1>8

\* HandleWs: the oldest message of the oldest link that has one.
LEMMA HandleWsStep ==
  ASSUME LinkInv, HandleWs
  PROVE  LinkInv'
  <1>1. /\ links \in Seq(Link) /\ conn \in Nat /\ Typed
        /\ UNCHANGED <<proxy, input, latest, outbox, connected, ws_outbox, pending, node>>
    BY DEF LinkInv, Typed, conn, HandleWs, consumer, graph
  <1>2. PICK k \in 1..conn : /\ links[k].up # << >> /\ \A j \in 1..(k - 1) : links[j].up = << >>
                             /\ Handled(links[k].up[1], k)
                             /\ Changed(k, [links[k] EXCEPT !.up = RemoveAt(@, 1)])
    BY DEF HandleWs, Oldest
  <1> DEFINE up == links[k].up
             m == up[1]
             link == [state |-> links[k].state, up |-> Tail(up), down |-> links[k].down]
  <1>3. links[k] \in Link
    BY <1>1 DEF conn
  <1>4. up \in Seq(Letter)
    BY <1>3 DEF Link
  <1>5. /\ Tail(up) \in Seq(Letter) /\ m \in Letter /\ 1 \in DOMAIN up
        /\ \A i \in DOMAIN Tail(up) : i + 1 \in DOMAIN up /\ Tail(up)[i] = up[i + 1] /\ i \in Nat \ {0}
    BY <1>2, <1>4, Tails
  <1>6. link \in Link
    BY <1>3, <1>5 DEF Link
  <1>7. Changed(k, link)
    <2>1. RemoveAt(up, 1) = Tail(up)
      BY <1>2, <1>4, RemovesFirst
    <2> QED BY <1>2, <1>3, <2>1, OtherUp
  <1>8. /\ conn' = conn /\ links' \in Seq(Link) /\ links'[k] = link
        /\ \A j \in 1..conn : j # k => links'[j] = links[j]
    BY <1>1, <1>6, <1>7, OneChanges DEF Changed
  <1>9. /\ links'[k].state = links[k].state /\ links'[k].down = links[k].down
        /\ links'[k].up = Tail(up)
    BY <1>8
  <1> HIDE DEF link, conn
  <1>10. /\ \A j \in 1..conn : links'[j].state = links[j].state /\ links'[j].down = links[j].down
         /\ \A j \in 1..conn : j # k => links'[j].up = links[j].up
    BY <1>8, <1>9
  <1>11. /\ hosted' \in 0..conn /\ sets' \in Seq(Value) /\ edit' \in {NoGraph, Absent, Default}
         /\ \/ sets' = sets
            \/ m.op = "set" /\ m.value \in Value /\ sets' = Append(sets, m.value) /\ edit' = edit
    <2>1. CASE m.op = "spawn"
      BY <1>1, <1>2, <2>1 DEF Handled, Typed
    <2>2. CASE m.op = "set"
      <3>1. m.value \in Value /\ sets' = Append(sets, m.value) /\ edit' = edit /\ hosted' = hosted
        BY <1>2, <1>5, <2>2 DEF Handled, Letter, SpawnMsg, DespawnMsg, SetMsg
      <3> QED BY <1>1, <2>2, <3>1 DEF Typed
    <2>3. CASE m.op = "despawn"
      BY <1>1, <1>2, <2>3 DEF Handled, Typed
    <2> QED BY <1>5, <2>1, <2>2, <2>3 DEF Letter, SpawnMsg, DespawnMsg, SetMsg
  <1>12. Typed'
    BY <1>1, <1>8, <1>11 DEF Typed
  <1>13. DownKept
    BY <1>1, <1>8, <1>10, Same
  <1>14. Back'
    BY <1>1, <1>12, <1>13, BackKept DEF LinkInv
  <1>15. OneLink'
    <2>1. OneLink
      BY DEF LinkInv
    <2> QED BY <1>1, <1>8, <1>10, <2>1 DEF OneLink
  <1>16. ~Coming'
    <2>1. proxy # "none" /\ ~Asks(outbox)
      BY <1>2 DEF LinkInv, SpawnFirst, Asks
    <2>2. ASSUME NEW j \in 1..conn, NEW i \in DOMAIN links'[j].up
          PROVE  links'[j].up[i] # SpawnMsg
      <3>1. CASE j = k
        <4>1. i \in DOMAIN Tail(up) /\ links'[j].up[i] = Tail(up)[i]
          BY <1>9, <3>1
        <4>2. i + 1 \in DOMAIN up /\ Tail(up)[i] = up[i + 1] /\ i \in Nat \ {0}
          BY <1>5, <4>1
        <4>3. i + 1 # 1
          BY <4>2
        <4> QED BY <4>1, <4>2, <4>3 DEF LinkInv, SpawnFirst
      <3>2. CASE j < k
        <4>1. links'[j].up = << >>
          BY <1>1, <1>2, <1>10, <3>2
        <4> QED BY <4>1
      <3>3. CASE j > k
        <4>1. k \in 1..(j - 1) /\ links'[j].up = links[j].up
          BY <1>1, <1>10, <3>3
        <4> QED BY <1>2, <4>1 DEF LinkInv, SpawnFirst
      <3> QED BY <1>1, <3>1, <3>2, <3>3
    <2> QED BY <1>1, <1>8, <2>1, <2>2 DEF Coming, Asks
  <1>17. SpawnFirst'
    BY <1>1, <1>8, <1>16 DEF SpawnFirst, Coming, Asks
  <1>18. Unborn'
    <2>1. CASE m.op = "spawn"
      <3>1. m = SpawnMsg /\ edit' = Default
        BY <1>2, <1>5, <2>1 DEF Handled, Letter, SpawnMsg, DespawnMsg, SetMsg
      <3>2. Coming
        BY <1>5, <3>1 DEF Coming, Asks
      <3> QED BY <1>1, <1>8, <1>10, <1>16, <3>1, <3>2 DEF LinkInv, Unborn, Queued
    <2>2. CASE m.op # "spawn"
      <3>1. edit' \in {edit, Absent}
        <4>1. m.op = "set" \/ m.op = "despawn"
          BY <1>5, <2>2 DEF Letter, SpawnMsg, DespawnMsg, SetMsg
        <4>2. CASE m.op = "set"
          BY <1>2, <4>2 DEF Handled
        <4>3. CASE m.op = "despawn"
          BY <1>2, <4>3 DEF Handled
        <4> QED BY <4>1, <4>2, <4>3
      <3>2. edit' = Default => edit = Default
        BY <3>1 DEF Default, Absent
      <3> QED BY <1>1, <1>8, <1>10, <1>16, <3>2 DEF LinkInv, Unborn, Queued
    <2> QED BY <2>1, <2>2
  <1>19. There'
    <2>1. There
      BY DEF LinkInv
    <2>2. \A i \in DOMAIN Tail(up) : i + 1 \in DOMAIN up /\ Tail(up)[i] = up[i + 1]
      BY <1>5
    <2>3. Sorted(Tail(up)) /\ AllUpTo(Tail(up), input) /\ Before(Tail(up), outbox)
      <3>1. \A i, j \in DOMAIN Tail(up) : i < j => i + 1 < j + 1
        BY <1>5
      <3>2. Sorted(up) /\ AllUpTo(up, input) /\ Before(up, outbox)
        BY <2>1 DEF There
      <3> QED BY <2>2, <3>1, <3>2 DEF Sorted, AllUpTo, Before
    <2>4. ASSUME NEW j \in 1..conn
          PROVE  /\ Sorted(links'[j].up) /\ AllUpTo(links'[j].up, input) /\ Before(links'[j].up, outbox)
                 /\ \A i \in DOMAIN links'[j].up : \E h \in DOMAIN links[j].up :
                      links'[j].up[i] = links[j].up[h]
      <3>1. CASE j = k
        BY <1>9, <2>2, <2>3, <3>1
      <3>2. CASE j # k
        BY <1>10, <2>1, <3>2 DEF There
      <3> QED BY <3>1, <3>2
    <2>5. ASSUME NEW j \in 1..conn, NEW i \in 1..(j - 1)
          PROVE  Before(links'[i].up, links'[j].up)
      <3>1. i \in 1..conn /\ Before(links[i].up, links[j].up)
        BY <1>1, <2>1 DEF There
      <3> QED BY <2>4, <3>1 DEF Before
    <2>6. \A v : (\A j \in 1..conn : AllFrom(v, links[j].up)) => \A j \in 1..conn : AllFrom(v, links'[j].up)
      BY <2>4 DEF AllFrom
    <2>7. \A i \in DOMAIN sets' :
            /\ sets'[i] <= input /\ AllFrom(sets'[i], outbox)
            /\ \A j \in 1..conn : AllFrom(sets'[i], links'[j].up)
            /\ node # Absent => node <= sets'[i]
      <3>1. \A i \in DOMAIN sets :
              /\ sets[i] <= input /\ AllFrom(sets[i], outbox)
              /\ \A j \in 1..conn : AllFrom(sets[i], links'[j].up)
              /\ node # Absent => node <= sets[i]
        BY <2>1, <2>6 DEF There
      <3>2. CASE m.op = "set" /\ m.value \in Value /\ sets' = Append(sets, m.value)
        <4>1. /\ m.value <= input /\ AllFrom(m.value, outbox)
              /\ \A j \in 1..conn : AllFrom(m.value, links'[j].up)
              /\ node # Absent => node <= m.value
          BY <1>2, <1>9, <1>10, <3>2, OldestMessage
        <4>2. \A i \in DOMAIN sets' : \/ i \in DOMAIN sets /\ sets'[i] = sets[i]
                                      \/ sets'[i] = m.value
          BY <1>1, <3>2 DEF Typed
        <4> HIDE DEF m
        <4> QED BY <3>1, <4>1, <4>2
      <3> QED BY <1>11, <3>1, <3>2
    <2>8. node # Absent => \A j \in 1..conn : AllFrom(node, links'[j].up)
      BY <2>1, <2>6 DEF There
    <2> QED BY <1>1, <1>8, <2>1, <2>4, <2>5, <2>7, <2>8 DEF There
  <1> QED BY <1>12, <1>14, <1>15, <1>17, <1>18, <1>19 DEF LinkInv

\* FrameBegins: the graph is swapped in and the sets are applied to it.
LEMMA FrameBeginsStep ==
  ASSUME LinkInv, FrameBegins
  PROVE  LinkInv'
  <1> DEFINE old == IF pending = NoGraph THEN node ELSE pending
  <1>1. /\ Typed /\ links' = links /\ conn' = conn /\ conn \in Nat
        /\ UNCHANGED <<proxy, input, latest, outbox, connected, hosted, ws_outbox, edit>>
        /\ pending' = NoGraph /\ sets' = << >> /\ node' = LastSet(old)
    BY DEF LinkInv, Typed, conn, FrameBegins, consumer, network
  <1>2. old \in Value \cup {Absent}
    BY <1>1, LinkBounds DEF Typed, Value, NoGraph, Default
  <1>3. /\ node' \in Value \cup {Absent}
        /\ \/ node' = old
           \/ old # Absent /\ sets # << >> /\ Len(sets) \in DOMAIN sets /\ node' = sets[Len(sets)]
    <2>1. sets \in Seq(Value)
      BY <1>1 DEF Typed
    <2>2. CASE old = Absent \/ sets = << >>
      BY <1>1, <1>2, <2>2 DEF LastSet
    <2>3. CASE ~(old = Absent \/ sets = << >>)
      <3>1. node' = sets[Len(sets)] /\ Len(sets) \in DOMAIN sets
        BY <1>1, <2>1, <2>3 DEF LastSet, Last
      <3> QED BY <2>1, <2>3, <3>1
    <2> QED BY <2>2, <2>3
  <1> HIDE DEF conn, old
  <1>4. Typed'
    BY <1>1, <1>3 DEF Typed
  <1>5. OneLink' /\ SpawnFirst'
    BY <1>1 DEF LinkInv, OneLink, SpawnFirst
  <1>6. node' # Absent => old # Absent
    BY <1>3
  <1>7. Coming' => Coming
    BY <1>1 DEF Coming
  <1>8. Unborn'
    <2>1. ASSUME Coming \/ edit = Default
          PROVE  pending = NoGraph /\ node = Absent
      BY <2>1 DEF LinkInv, Unborn, Queued
    <2>2. ASSUME Coming \/ edit = Default
          PROVE  node' = Absent
      BY <1>6, <2>1, <2>2 DEF old
    <2> QED BY <1>1, <1>7, <2>2 DEF LinkInv, Unborn, Queued, NoGraph, Default
  <1>9. CASE pending = Default
    <2>1. latest = None /\ ws_outbox = << >> /\ \A k \in 1..conn : links[k].down = << >>
      BY <1>9 DEF LinkInv, Unborn, Queued
    <2>2. Back'
      BY <1>1, <2>1 DEF Back, Rising
    <2>3. There'
      <3>1. outbox \in Seq(Letter) /\ \A k \in 1..conn : links[k].up \in Seq(Letter)
        BY <1>1, LinkTypes DEF Typed, conn
      <3>2. \A s \in Seq(Letter) : AllFrom(0, s)
        <4>1. \A n \in Letter : From(0, n)
          BY DEF From, Letter, SpawnMsg, DespawnMsg, SetMsg, Value
        <4> QED BY <4>1 DEF AllFrom
      <3>a. 0 <= input
        BY <1>1 DEF Typed, Value
      <3>3. old = 0
        BY <1>9 DEF old, Default, NoGraph
      <3>4. node' <= input /\ AllFrom(node', outbox) /\ \A k \in 1..conn : AllFrom(node', links[k].up)
        BY <1>3, <3>1, <3>2, <3>3, <3>a DEF LinkInv, There
      <3> QED BY <1>1, <3>4 DEF LinkInv, There
    <2> QED BY <1>4, <1>5, <1>8, <2>2, <2>3 DEF LinkInv
  <1>10. CASE pending # Default
    <2>1. node' # Absent => old = node /\ node # Absent
      BY <1>1, <1>6, <1>10 DEF Typed, old
    <2>2. node' # Absent => node <= node'
      BY <1>1, <1>3, <2>1 DEF LinkInv, There, Typed, Value, Absent
    <2>3. There'
      <3>1. node' # Absent => /\ node' <= input /\ AllFrom(node', outbox)
                              /\ \A k \in 1..conn : AllFrom(node', links[k].up)
        BY <1>3, <2>1 DEF LinkInv, There
      <3> QED BY <1>1, <3>1 DEF LinkInv, There
    <2>4. Back'
      <3>1. Typed /\ Back /\ Typed'
        BY <1>4 DEF LinkInv
      <3>2. node' # Absent => /\ \A i \in DOMAIN ws_outbox : ws_outbox[i].value <= node
                              /\ \A k \in 1..conn : \A i \in DOMAIN links[k].down : links[k].down[i] <= node
                              /\ latest # None => latest <= node
        BY <2>1, <3>1 DEF Back
      <3>3. /\ \A i \in DOMAIN ws_outbox : ws_outbox[i].value \in Value
            /\ \A k \in 1..conn : \A i \in DOMAIN links[k].down : links[k].down[i] \in Value
        <4>1. ASSUME NEW k \in 1..conn, NEW i \in DOMAIN links[k].down
              PROVE  links[k].down[i] \in Value
          <5>1. links[k].down \in Seq(Value)
            BY <3>1, LinkTypes DEF Typed, conn
          <5> QED BY <5>1
        <4>2. ASSUME NEW i \in DOMAIN ws_outbox
              PROVE  ws_outbox[i].value \in Value
          <5>1. ws_outbox \in Seq([conn : 1..conn, value : Value])
            BY <3>1 DEF Typed
          <5>2. ws_outbox[i] \in [conn : 1..conn, value : Value]
            BY <5>1, Holds
          <5> QED BY <5>2
        <4> QED BY <4>1, <4>2
      <3>4. \A v \in Value : node' # Absent /\ v <= node => v <= node'
        BY <2>1, <2>2, <3>1 DEF Typed, Value
      <3>5. latest \in Value \cup {None}
        BY <3>1 DEF Typed
      <3>6. node' # Absent => /\ \A i \in DOMAIN ws_outbox : ws_outbox[i].value <= node'
                              /\ \A k \in 1..conn : \A i \in DOMAIN links[k].down : links[k].down[i] <= node'
                              /\ latest # None => latest <= node'
        BY <3>2, <3>3, <3>4, <3>5
      <3> QED BY <1>1, <3>1, <3>6 DEF Back
    <2> QED BY <1>4, <1>5, <1>8, <2>3, <2>4 DEF LinkInv
  <1> QED BY <1>9, <1>10

\* FrameEnds: a node that is there is mirrored, and the edit becomes what is swapped in.
LEMMA FrameEndsStep ==
  ASSUME LinkInv, FrameEnds
  PROVE  LinkInv'
  <1> DEFINE out == [conn |-> hosted, value |-> node]
  <1>1. /\ Typed /\ links' = links /\ conn' = conn /\ conn \in Nat
        /\ UNCHANGED <<proxy, input, latest, outbox, connected, hosted, sets, node>>
        /\ pending' = IF edit = NoGraph THEN pending ELSE edit
        /\ edit' = NoGraph
        /\ \/ ws_outbox' = ws_outbox
           \/ hosted # 0 /\ node # Absent /\ ws_outbox' = Append(ws_outbox, out)
    BY DEF LinkInv, Typed, conn, FrameEnds, Mirrored, consumer, network
  <1> HIDE DEF conn
  <1>2. CASE ws_outbox' = ws_outbox
    <2>1. Typed'
      BY <1>1, <1>2 DEF Typed
    <2>2. OneLink' /\ SpawnFirst' /\ There' /\ Back'
      BY <1>1, <1>2 DEF LinkInv, OneLink, SpawnFirst, There, Back
    <2>3. Coming' => Coming
      BY <1>1 DEF Coming
    <2>4. Queued' => Queued
      BY <1>1 DEF Queued, NoGraph, Default
    <2>5. Unborn'
      BY <1>1, <1>2, <2>3, <2>4 DEF LinkInv, Unborn, Default, NoGraph
    <2> QED BY <2>1, <2>2, <2>5 DEF LinkInv
  <1>3. CASE hosted # 0 /\ node # Absent /\ ws_outbox' = Append(ws_outbox, out)
    <2>1. out \in [conn : 1..conn, value : Value] /\ out.value = node
      BY <1>1, <1>3 DEF Typed
    <2>2. ws_outbox \in Seq([conn : 1..conn, value : Value])
      BY <1>1 DEF Typed
    <2>3. /\ ws_outbox' \in Seq([conn : 1..conn, value : Value]) /\ DOMAIN ws_outbox \subseteq Nat
          /\ \A i \in DOMAIN ws_outbox' :
               \/ i \in DOMAIN ws_outbox /\ ws_outbox'[i] = ws_outbox[i]
               \/ i = Len(ws_outbox) + 1 /\ ws_outbox'[i] = out /\ \A j \in DOMAIN ws_outbox : j < i
      BY <1>3, <2>1, <2>2, Appends
    <2>4. Typed'
      BY <1>1, <2>3 DEF Typed
    <2>5. OneLink' /\ SpawnFirst' /\ There'
      BY <1>1 DEF LinkInv, OneLink, SpawnFirst, There
    <2>6. ~Coming /\ ~Queued
      BY <1>3 DEF LinkInv, Unborn
    <2>7. ~Coming' /\ ~Queued'
      BY <1>1, <2>6 DEF Coming, Queued, NoGraph, Default
    <2>8. Unborn'
      BY <2>7 DEF Unborn, Queued
    <2>9. Back'
      <3> HIDE DEF out
      <3>1. /\ Back /\ node <= node
        BY <1>1, <1>3 DEF LinkInv, Typed, Value
      <3>2. \A i \in DOMAIN ws_outbox' : ws_outbox'[i].value <= node
        BY <1>3, <2>1, <2>3, <3>1 DEF Back
      <3>3. \A i, j \in DOMAIN ws_outbox' : i < j => ws_outbox'[i].value <= ws_outbox'[j].value
        BY <1>3, <2>1, <2>3, <3>1 DEF Back
      <3>4. \A k \in 1..conn : \A i \in DOMAIN links[k].down :
              \A j \in DOMAIN ws_outbox' : links[k].down[i] <= ws_outbox'[j].value
        BY <1>3, <2>1, <2>3, <3>1 DEF Back
      <3>5. latest # None => \A i \in DOMAIN ws_outbox' : latest <= ws_outbox'[i].value
        BY <1>3, <2>1, <2>3, <3>1 DEF Back
      <3> QED BY <1>1, <3>1, <3>2, <3>3, <3>4, <3>5 DEF Back
    <2> QED BY <2>4, <2>5, <2>8, <2>9 DEF LinkInv
  <1> QED BY <1>1, <1>2, <1>3

-----------------------------------------------------------------------------
(* The whole way                                                           *)

\* No step breaks the invariant.
LEMMA LinkInductive ==
  ASSUME LinkInv, [Next]_vars
  PROVE  LinkInv'
  <1>1. CASE UNCHANGED vars
    BY <1>1 DEF vars, consumer, network, provider, queued, graph, conn, LinkInv, Typed, OneLink,
                SpawnFirst, Unborn, Coming, Queued, There, Back
  <1> QED BY <1>1, ProxySteps, LinkSteps, FlushStep, ReceiveStep, HandleWsStep, SendOutsStep,
             FrameBeginsStep, FrameEndsStep
          DEF Next, LinkThread, Network, HttpThread, RenderThread

\* In the first state nothing is on its way.
LEMMA LinkStarts == Init => LinkInv
  <1> SUFFICES ASSUME Init PROVE LinkInv
    OBVIOUS
  <1> USE DEF Init
  <1>1. Typed /\ conn = 0
    <2>1. conn = 0 /\ hosted \in 0..conn
      BY DEF conn
    <2>2. 0 \in Value
      BY LinkBounds DEF Value
    <2>3. /\ outbox \in Seq(Letter) /\ sets \in Seq(Value) /\ links \in Seq(Link)
          /\ ws_outbox \in Seq([conn : 1..conn, value : Value])
      OBVIOUS
    <2> QED BY <2>1, <2>2, <2>3 DEF Typed, NotSet
  <1>2. OneLink /\ SpawnFirst
    BY <1>1 DEF OneLink, SpawnFirst
  <1>3. Unborn
    BY <1>1 DEF Unborn
  <1>4. There /\ Back
    BY <1>1 DEF There, Back, Sorted, AllUpTo
  <1> QED BY <1>1, <1>2, <1>3, <1>4 DEF LinkInv

\* The node never takes an older value than the one it has.
LEMMA NodeRises ==
  ASSUME LinkInv, Next, node # Absent, node' # Absent
  PROVE  node' >= node
  <1>1. node \in Value /\ sets \in Seq(Value)
    BY DEF LinkInv, Typed
  <1>2. node >= node
    BY <1>1 DEF Value
  <1>3. CASE FrameBegins
    <2>1. pending # Default /\ pending \in {NoGraph, Absent, Default}
      BY DEF LinkInv, Typed, Unborn, Queued
    <2>2. node' = LastSet(IF pending = NoGraph THEN node ELSE pending)
      BY <1>3 DEF FrameBegins
    <2>3. pending = NoGraph /\ node' = LastSet(node)
      BY <2>1, <2>2 DEF LastSet, NoGraph, Absent, Default
    <2>4. CASE sets = << >>
      BY <1>2, <2>3, <2>4 DEF LastSet
    <2>5. CASE sets # << >>
      <3>1. Len(sets) \in DOMAIN sets /\ node' = sets[Len(sets)]
        BY <1>1, <2>3, <2>5 DEF LastSet, Last
      <3>2. node <= sets[Len(sets)] /\ sets[Len(sets)] \in Value
        BY <1>1, <3>1, Holds DEF LinkInv, There
      <3> QED BY <1>1, <3>1, <3>2 DEF Value
    <2> QED BY <2>4, <2>5
  <1>4. CASE ~FrameBegins
    <2>1. node' = node
      BY <1>4 DEF Next, Proxy, Create, SetIn, Process, Destroy, LinkThread, Attempt, Flush, Network,
                  Open, Fail, Break, Receive, HttpThread, HandleWs, SendOuts, RenderThread, FrameEnds,
                  provider, graph
    <2> QED BY <1>2, <2>1
  <1> QED BY <1>3, <1>4

\* Nor does the proxy ever show one.
LEMMA LatestRises ==
  ASSUME LinkInv, Next, latest # None, latest' # None
  PROVE  latest' >= latest
  <1>1. latest \in Value
    BY DEF LinkInv, Typed
  <1>2. latest >= latest
    BY <1>1 DEF Value
  <1>3. CASE Receive
    <2>1. PICK k \in 1..conn : links[k].down # << >> /\ latest' = Head(links[k].down)
      BY <1>3 DEF Receive
    <2>2. links[k].down \in Seq(Value)
      BY LinkTypes DEF LinkInv, Typed, conn
    <2>3. 1 \in DOMAIN links[k].down /\ latest' = links[k].down[1] /\ links[k].down[1] \in Value
      BY <2>1, <2>2, Tails
    <2>4. latest <= links[k].down[1]
      BY <2>3 DEF LinkInv, Back
    <2> QED BY <1>1, <2>3, <2>4 DEF Value
  <1>4. CASE ~Receive
    <2>1. latest' = latest
      BY <1>4 DEF Next, Proxy, Create, SetIn, Process, Destroy, LinkThread, Attempt, Flush, Network,
                  Open, Fail, Break, HttpThread, HandleWs, SendOuts, RenderThread, FrameBegins, FrameEnds,
                  consumer
    <2> QED BY <1>2, <2>1
  <1> QED BY <1>3, <1>4

\* Values go to the node and back in order: neither what the node has been given
\* nor what the proxy shows of it ever falls back to an older value, whatever the
\* links do.
THEOREM ValuesGoInOrder == Spec => NeverBackwards
  <1>1. LinkInv /\ [Next]_vars => LinkInv'
    BY LinkInductive
  <1>2. LinkInv /\ [Next]_vars =>
          [node # Absent /\ node' # Absent => node' >= node]_node
    <2>1. UNCHANGED vars => UNCHANGED node
      BY DEF vars, provider, graph
    <2> QED BY <2>1, NodeRises
  <1>3. LinkInv /\ [Next]_vars =>
          [latest # None /\ latest' # None => latest' >= latest]_latest
    <2>1. UNCHANGED vars => UNCHANGED latest
      BY DEF vars, consumer
    <2> QED BY <2>1, LatestRises
  <1> QED BY <1>1, <1>2, <1>3, LinkStarts, PTL DEF Spec, NeverBackwards

=================================================================================
