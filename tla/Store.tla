-------------------------------- MODULE Store --------------------------------
(***************************************************************************)
(* The content-addressed stores of a mesh (probe2/src/store/store.cpp) and *)
(* the session operations that drive them (syg/store_session.cpp): puts,   *)
(* memoized derivations, captures, ref trails, the back-link index,        *)
(* provide and forget, cache eviction, and chunked, interruptible fetch.   *)
(*                                                                         *)
(* Abstractions.  A cid is the object it names, so two puts of the same    *)
(* bytes are one object and verification by re-hashing always succeeds.    *)
(* An object is a blob (its root and chunks, or one object when it has no  *)
(* chunks) or one of the nodes a commit writes.  A recipe's output is a    *)
(* function of the recipe ("determinism": "exact").                        *)
(***************************************************************************)
EXTENDS Integers, Sequences, FiniteSets

CONSTANTS
  Peer,
  Archive,      \* the peers created with provide_all
  Blob,         \* whatever is put: graphs, engines, takes, chunked blobs
  ChunksOf,     \* Blob -> the sequence of its chunks, empty for one object
  Recipe,       \* recipes of derivations: compile an app with the engine
  Engine,       \* the blob every recipe and every output links
  AppOf,        \* Recipe -> the graph it compiles
  Output,       \* Recipe -> the execution a derivation of it commits
  Take,         \* the blobs a recorder may capture, each one object
  MaxOps        \* bound on puts, commits, ref moves and fetches

ASSUME PeerAssumption == Archive \subseteq Peer
ASSUME BlobAssumption ==
  /\ Take \subseteq Blob /\ Engine \in Blob
  /\ AppOf \in [Recipe -> Blob] /\ Output \in [Recipe -> Blob]
  /\ LET chunks == UNION {{ChunksOf[b][i] : i \in DOMAIN ChunksOf[b]} : b \in DOMAIN ChunksOf}
     IN  ChunksOf \in [Blob -> Seq(chunks)]
  /\ \A t \in Take : ChunksOf[t] = << >>
ASSUME OpsAssumption == MaxOps \in Nat

VARIABLES
  objects,      \* objects_, per peer
  provided,     \* provided_, per peer
  memo,         \* memo_, per peer: the recipes with a recorded result
  backlinks,    \* backlinks_, per peer: how often a record indexes a link
  trail,        \* refs_, per peer: the trail of its one ref
  transfers,    \* transfers_, per peer
  ops,          \* the counter behind the bound
  forgotten     \* auxiliary: what was ever unprovided

stores == <<objects, provided, memo, backlinks, trail, transfers>>
vars == <<stores, ops, forgotten>>

-----------------------------------------------------------------------------
(* Objects                                                                 *)

Root(b) == <<"blob", b>>
Chunks(b) == {<<"chunk", ChunksOf[b][i]>> : i \in DOMAIN ChunksOf[b]}
RecipeNode(r) == <<"recipe", r>>
Provenance(r) == <<"provenance", r>>
Testimony(t) == <<"testimony", t>>

Roots == {Root(b) : b \in Blob}
Objects == Roots \cup UNION {Chunks(b) : b \in Blob}
           \cup {RecipeNode(r) : r \in Recipe} \cup {Provenance(r) : r \in Recipe}
           \cup {Testimony(t) : t \in Take}

\* What a record links: a provenance its inputs and output, a testimony its
\* take, an execution its engine.
LinksOf(o) ==
  CASE o[1] = "provenance" -> {Root(AppOf[o[2]]), Root(Engine), Root(Output[o[2]])}
    [] o[1] = "testimony"  -> {Root(o[2])}
    [] o[1] = "blob"       -> {Root(Engine)}

Records == {Provenance(r) : r \in Recipe} \cup {Root(Output[r]) : r \in Recipe}
           \cup {Testimony(t) : t \in Take}

\* Pairs of a linked object and the record that links it.
LinkPairs == Roots \X Records

Init ==
  /\ objects = [p \in Peer |-> {}]
  /\ provided = [p \in Peer |-> {}]
  /\ memo = [p \in Peer |-> {}]
  /\ backlinks = [p \in Peer |-> [l \in LinkPairs |-> 0]]
  /\ trail = [p \in Peer |-> << >>]
  /\ transfers = [p \in Peer |-> 0]
  /\ ops = 0
  /\ forgotten = {}

-----------------------------------------------------------------------------
(* Commits                                                                 *)

\* An archive that does not provide what it puts.
StoredOnly(p, os, provide) ==
  /\ objects' = [objects EXCEPT ![p] = @ \cup os]
  /\ provided' = [provided EXCEPT ![p] = IF provide THEN @ \cup os ELSE @]

\* put_raw and put_node, for several objects at once.
Stored(p, os, provide) ==
  /\ objects' = [objects EXCEPT ![p] = @ \cup os]
  /\ provided' =
       [provided EXCEPT ![p] = IF provide \/ p \in Archive THEN @ \cup os ELSE @]

\* index_links: one more entry for each link of each record.
Indexed(p, records) ==
  backlinks' = [backlinks EXCEPT ![p] =
    [l \in LinkPairs |->
       IF l[2] \in records /\ l[1] \in LinksOf(l[2]) THEN @[l] + 1 ELSE @[l]]]

Counted == ops < MaxOps /\ ops' = ops + 1

\* chunk_put: every chunk, then the root.
Put(p, b, provide) ==
  /\ Counted
  /\ Stored(p, Chunks(b) \cup {Root(b)}, provide)
  /\ UNCHANGED <<memo, backlinks, trail, transfers, forgotten>>

\* A memo that is not consulted: the commit repeats.
NeverHit(p, r) == FALSE

Hit(p, r) == r \in memo[p]

\* commit_derivation with a memo entry, after objects before: the recipe node
\* is put, and the memo answers without a look at the output.
Repeat(p, r, before) ==
  /\ Stored(p, before \cup {RecipeNode(r)}, FALSE)
  /\ UNCHANGED <<memo, backlinks>>

\* commit_derivation without one: recipe, output and provenance are put, and
\* the output and the provenance are indexed.
Derive(p, r, before) ==
  /\ Stored(p, before \cup {RecipeNode(r), Root(Output[r]), Provenance(r)}, FALSE)
  /\ Indexed(p, {Provenance(r), Root(Output[r])})
  /\ memo' = [memo EXCEPT ![p] = @ \cup {r}]

\* commit_derivation, called directly.
CommitDerivation(p, r) ==
  /\ Counted
  /\ \/ Hit(p, r) /\ Repeat(p, r, {})
     \/ ~Hit(p, r) /\ Derive(p, r, {})
  /\ UNCHANGED <<trail, transfers, forgotten>>

\* The compile op reads the app through the ref and puts the engine.  A memo
\* hit commits nothing more; a miss reads the app, which must be here (or the
\* session ends), and commits the derivation.
Compile(p, r) ==
  /\ Counted
  /\ trail[p] # << >>
  /\ trail[p][Len(trail[p])] = Root(AppOf[r])
  /\ \/ /\ Hit(p, r)
        /\ Stored(p, {Root(Engine)}, FALSE)
        /\ UNCHANGED <<memo, backlinks>>
     \/ /\ ~Hit(p, r)
        /\ Root(AppOf[r]) \in objects[p]
        /\ Derive(p, r, {Root(Engine)})
  /\ UNCHANGED <<trail, transfers, forgotten>>

\* commit_capture: no memo, the testimony is indexed again each time.
Capture(p, t) ==
  /\ Counted
  /\ Stored(p, {Root(t), Testimony(t)}, FALSE)
  /\ Indexed(p, {Testimony(t)})
  /\ UNCHANGED <<memo, trail, transfers, forgotten>>

-----------------------------------------------------------------------------
(* Refs                                                                    *)

\* bind-ref: the cid need not be here.
BindRef(p, b) ==
  /\ Counted
  /\ trail' = [trail EXCEPT ![p] = Append(@, Root(b))]
  /\ UNCHANGED <<objects, provided, memo, backlinks, transfers, forgotten>>

\* commit-graph and edit-commit: the graph is put and the ref bound to it (a
\* graph with orphaned defaults is only put: Put).
CommitGraph(p, b) ==
  /\ Counted
  /\ Stored(p, {Root(b)}, FALSE)
  /\ trail' = [trail EXCEPT ![p] = Append(@, Root(b))]
  /\ UNCHANGED <<memo, backlinks, transfers, forgotten>>

\* An undo that drops the last binding.
PopRef(p) ==
  /\ Counted
  /\ Len(trail[p]) >= 2
  /\ trail' = [trail EXCEPT ![p] = SubSeq(@, 1, Len(@) - 1)]
  /\ UNCHANGED <<objects, provided, memo, backlinks, transfers, forgotten>>

\* undo_ref appends the predecessor of the last binding.
UndoRef(p) ==
  /\ Counted
  /\ Len(trail[p]) >= 2
  /\ trail' = [trail EXCEPT ![p] = Append(@, @[Len(@) - 1])]
  /\ UNCHANGED <<objects, provided, memo, backlinks, transfers, forgotten>>

-----------------------------------------------------------------------------
(* Availability                                                            *)

\* The session's unprovide-everywhere.
UnprovideEverywhere(o) ==
  /\ \E p \in Peer : o \in provided[p]
  /\ provided' = [p \in Peer |-> provided[p] \ {o}]
  /\ forgotten' = forgotten \cup {o}
  /\ UNCHANGED <<objects, memo, backlinks, trail, transfers, ops>>

\* A cache that sheds everything.
EvictAll(p) ==
  /\ objects' = [objects EXCEPT ![p] = {}]
  /\ UNCHANGED <<provided, memo, backlinks, trail, transfers, ops, forgotten>>

\* evict_unprovided: the memo and the index stay.
Evict(p) ==
  /\ objects' = [objects EXCEPT ![p] = @ \cap provided[p]]
  /\ UNCHANGED <<provided, memo, backlinks, trail, transfers, ops, forgotten>>

-----------------------------------------------------------------------------
(* fetch(dst, src, root, stop_after)                                       *)

\* The objects a fetch of root visits after the root, in order.
FanOut(root) ==
  IF root[1] = "blob"
  THEN [i \in DOMAIN ChunksOf[root[2]] |-> <<"chunk", ChunksOf[root[2]][i]>>]
  ELSE << >>

\* Everything the root names, present or not.
WantedAgain(p, root) == <<root>> \o FanOut(root)

\* move_one: an object moves that is not here, neither before nor since this
\* fetch began.
AlsoWanted(p, wanted, o) ==
  IF o \in objects[p] \/ \E i \in DOMAIN wanted : wanted[i] = o THEN wanted
  ELSE Append(wanted, o)

\* What still has to move, in the order of the visit.
Wanted(p, root) ==
  LET visited == <<root>> \o FanOut(root)
      wanted[n \in 0..Len(visited)] ==
        IF n = 0 THEN << >> ELSE AlsoWanted(p, wanted[n - 1], visited[n])
  IN  wanted[Len(visited)]

\* The first n wanted objects move: the budget ends the visit, and so does
\* the first chunk the source misses (the exception is swallowed).  A missing
\* root throws and nothing moves.  Whether the source provides what it holds is
\* not asked.
Fetch(p, q, root, budget) ==
  LET wanted == Wanted(p, root)
      held(n) == \A i \in 1..n : wanted[i] \in objects[q]
      n == CHOOSE m \in 0..Len(wanted) :
             /\ m <= budget /\ held(m)
             /\ m = Len(wanted) \/ m = budget \/ ~held(m + 1)
      moved == {wanted[i] : i \in 1..n}
  IN  /\ Counted
      /\ p # q
      /\ root \in objects[p] \cup objects[q]
      /\ Stored(p, moved, FALSE)
      /\ transfers' = [transfers EXCEPT ![p] = @ + n]
      /\ UNCHANGED <<memo, backlinks, trail, forgotten>>

-----------------------------------------------------------------------------
Commit ==
  \E p \in Peer :
    \/ \E b \in Blob, provide \in BOOLEAN : Put(p, b, provide)
    \/ \E r \in Recipe : CommitDerivation(p, r) \/ Compile(p, r)
    \/ \E r \in Recipe : CommitGraph(p, AppOf[r])
    \/ \E t \in Take : Capture(p, t)

MoveRef == \E p \in Peer : UndoRef(p) \/ \E b \in Blob : BindRef(p, b)

Forget == \E o \in Roots : UnprovideEverywhere(o)

CachePressure == \E p \in Peer : Evict(p)

Unlimited == 100        \* more than any fetch here moves

Transfer ==
  \E p, q \in Peer, o \in Roots, budget \in {1, Unlimited} : Fetch(p, q, o, budget)

Next == Commit \/ MoveRef \/ Forget \/ CachePressure \/ Transfer

Spec == Init /\ [][Next]_vars

-----------------------------------------------------------------------------
(* Properties                                                              *)

\* The variables are functions on the peers, of what the store keeps.
TypeOK ==
  /\ objects \in [Peer -> SUBSET Objects]
  /\ provided \in [Peer -> SUBSET Objects]
  /\ memo \in [Peer -> SUBSET Recipe]
  /\ backlinks \in [Peer -> [LinkPairs -> Nat]]
  /\ trail \in [Peer -> Seq(Roots)]
  /\ transfers \in [Peer -> Nat]
  /\ ops \in 0..MaxOps
  /\ forgotten \in SUBSET Objects

\* Providing is a promise: whatever a peer advertises it still holds, through
\* any order of puts, fetches, forgetting and cache pressure.
ProvidedIsHeld == \A p \in Peer : provided[p] \subseteq objects[p]

\* A provide-everything peer provides all it holds, however it came by it,
\* except what was forgotten on purpose.
ArchiveProvides ==
  \A p \in Archive : objects[p] \ provided[p] \subseteq forgotten

\* The lineage of every derivation ever committed can be walked: the index
\* holds its record exactly once under each input and under the output,
\* through evictions and repeated derivations.
LineageOnce ==
  \A p \in Peer, l \in LinkPairs :
    l[2][1] = "provenance" =>
      backlinks[p][l] = IF l[2][2] \in memo[p] /\ l[1] \in LinksOf(l[2]) THEN 1 ELSE 0

\* A fetch, retried or not, moves only what the destination lacks.
FetchMovesOnlyMissing ==
  [][\A p \in Peer : transfers'[p] # transfers[p] =>
       transfers'[p] - transfers[p] = Cardinality(objects'[p] \ objects[p])]_stores

HistoryKept ==
  \A p \in Peer :
    /\ Len(trail[p]) <= Len(trail'[p])
    /\ SubSeq(trail'[p], 1, Len(trail[p])) = trail[p]

\* Ref history is append-only: undo moves the ref and loses no version.
TrailIsHistory == [][HistoryKept]_trail

=============================================================================
