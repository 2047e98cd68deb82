----------------------------- MODULE StoreProofs -----------------------------
(***************************************************************************)
(* What every mesh of stores keeps, for any peers, archives, blobs and     *)
(* recipes: providing is a promise, archives provide, lineage is indexed   *)
(* once, ref history only grows, and a fetch moves only what is missing.   *)
(*                                                                         *)
(* Each invariant is inductive together with Shaped, which says of the     *)
(* variables only that they are functions on the peers: the proofs do not  *)
(* depend on what an object is.                                            *)
(***************************************************************************)
EXTENDS Store, SequenceTheorems, FiniteSetTheorems, NaturalsInduction, TLAPS

Shaped ==
  /\ objects = [p \in Peer |-> objects[p]]
  /\ provided = [p \in Peer |-> provided[p]]

Indexes ==
  /\ memo = [p \in Peer |-> memo[p]]
  /\ backlinks = [p \in Peer |-> [l \in LinkPairs |-> backlinks[p][l]]]

-----------------------------------------------------------------------------
(* What one put changes                                                    *)

\* put_raw and put_node: a put grows the objects and the promises of its peer
\* alone, promises nothing it does not store, and on an archive promises all.
LEMMA StoredPuts ==
  ASSUME Shaped, NEW p \in Peer, NEW os, NEW provide, Stored(p, os, provide)
  PROVE  /\ Shaped'
         /\ objects'[p] = objects[p] \cup os
         /\ provided'[p] \subseteq provided[p] \cup os
         /\ provided[p] \subseteq provided'[p]
         /\ p \in Archive => provided'[p] = provided[p] \cup os
         /\ \A q \in Peer \ {p} :
              objects'[q] = objects[q] /\ provided'[q] = provided[q]
  BY DEF Shaped, Stored

\* Every put keeps the two promises of a store.
LEMMA StoredKeeps ==
  ASSUME Shaped, ProvidedIsHeld, ArchiveProvides, forgotten' = forgotten,
         NEW p \in Peer, NEW os, NEW provide, Stored(p, os, provide)
  PROVE  Shaped' /\ ProvidedIsHeld' /\ ArchiveProvides'
  <1>1. Shaped'
    BY StoredPuts
  <1>2. ProvidedIsHeld'
    <2> SUFFICES ASSUME NEW q \in Peer PROVE provided'[q] \subseteq objects'[q]
      BY DEF ProvidedIsHeld
    <2>1. provided[q] \subseteq objects[q]
      BY DEF ProvidedIsHeld
    <2> QED BY <2>1, StoredPuts
  <1>3. ArchiveProvides'
    <2> SUFFICES ASSUME NEW q \in Archive
                 PROVE  objects'[q] \ provided'[q] \subseteq forgotten
      BY DEF ArchiveProvides
    <2>1. objects[q] \ provided[q] \subseteq forgotten /\ q \in Peer
      BY PeerAssumption DEF ArchiveProvides
    <2> QED BY <2>1, StoredPuts
  <1> QED BY <1>1, <1>2, <1>3

-----------------------------------------------------------------------------
(* The promises of availability                                            *)

Promises == Shaped /\ ProvidedIsHeld /\ ArchiveProvides

\* Availability survives every operation of every store of the mesh.
LEMMA PromisesInductive ==
  ASSUME Promises, [Next]_vars PROVE Promises'
  <1> USE DEF Promises
  <1>1. ASSUME NEW p \in Peer, NEW b \in Blob, NEW provide \in BOOLEAN,
               Put(p, b, provide)
        PROVE  Promises'
    BY <1>1, StoredKeeps DEF Put
  <1>2. ASSUME NEW p \in Peer, NEW r \in Recipe, CommitDerivation(p, r)
        PROVE  Promises'
    BY <1>2, StoredKeeps DEF CommitDerivation, Repeat, Derive
  <1>3. ASSUME NEW p \in Peer, NEW r \in Recipe, Compile(p, r)
        PROVE  Promises'
    BY <1>3, StoredKeeps DEF Compile, Derive
  <1>4. ASSUME NEW p \in Peer, NEW r \in Recipe, CommitGraph(p, AppOf[r])
        PROVE  Promises'
    BY <1>4, StoredKeeps DEF CommitGraph
  <1>5. ASSUME NEW p \in Peer, NEW t \in Take, Capture(p, t)
        PROVE  Promises'
    BY <1>5, StoredKeeps DEF Capture
  <1>6. ASSUME MoveRef PROVE Promises'
    BY <1>6 DEF MoveRef, UndoRef, BindRef, Shaped, ProvidedIsHeld, ArchiveProvides
  <1>7. ASSUME NEW o \in Roots, UnprovideEverywhere(o) PROVE Promises'
    <2>1. /\ objects' = objects
          /\ \A q \in Peer : provided'[q] = provided[q] \ {o}
          /\ forgotten' = forgotten \cup {o}
      BY <1>7 DEF UnprovideEverywhere
    <2>2. Shaped'
      BY <1>7 DEF UnprovideEverywhere, Shaped
    <2>3. ProvidedIsHeld'
      BY <2>1 DEF ProvidedIsHeld
    <2>4. ArchiveProvides'
      BY <2>1, PeerAssumption DEF ArchiveProvides
    <2> QED BY <2>2, <2>3, <2>4
  <1>8. ASSUME NEW p \in Peer, Evict(p) PROVE Promises'
    <2>1. /\ provided' = provided /\ forgotten' = forgotten
          /\ objects'[p] = objects[p] \cap provided[p]
          /\ \A q \in Peer \ {p} : objects'[q] = objects[q]
          /\ Shaped'
      BY <1>8 DEF Evict, Shaped
    <2>2. ProvidedIsHeld'
      BY <2>1 DEF ProvidedIsHeld
    <2>3. ArchiveProvides'
      BY <2>1, PeerAssumption DEF ArchiveProvides
    <2> QED BY <2>1, <2>2, <2>3
  <1>9. ASSUME NEW p \in Peer, NEW q \in Peer, NEW o \in Roots,
               NEW budget \in {1, Unlimited}, Fetch(p, q, o, budget)
        PROVE  Promises'
    <2>1. PICK os : Stored(p, os, FALSE) /\ forgotten' = forgotten
      BY <1>9 DEF Fetch
    <2> QED BY <2>1, StoredKeeps
  <1>10. CASE UNCHANGED vars
    BY <1>10 DEF vars, stores, Shaped, ProvidedIsHeld, ArchiveProvides
  <1> QED
    BY <1>1, <1>2, <1>3, <1>4, <1>5, <1>6, <1>7, <1>8, <1>9, <1>10
    DEF Next, Commit, Forget, CachePressure, Transfer

\* The availability promises hold in every reachable state.
LEMMA PromisesInvariant == Spec => []Promises
  <1>1. Init => Promises
    BY PeerAssumption DEF Init, Promises, Shaped, ProvidedIsHeld, ArchiveProvides
  <1> QED BY <1>1, PromisesInductive, PTL DEF Spec

\* store.cpp, put/evict_unprovided/unprovide/fetch: a peer holds whatever it
\* advertises, for any number of peers and objects.
THEOREM ProvidingIsAPromise == Spec => []ProvidedIsHeld
  BY PromisesInvariant, PTL DEF Promises

\* store.cpp, provide_all_: an archive provides all it holds, however it came
\* by it, except what was forgotten on purpose.
THEOREM ArchivesProvide == Spec => []ArchiveProvides
  BY PromisesInvariant, PTL DEF Promises

-----------------------------------------------------------------------------
(* Lineage                                                                 *)

\* index_links adds one to the links of the records it is given.
LEMMA IndexedCounts ==
  ASSUME Indexes, NEW p \in Peer, NEW records, Indexed(p, records)
  PROVE  /\ backlinks' = [q \in Peer |-> [l \in LinkPairs |-> backlinks'[q][l]]]
         /\ \A l \in LinkPairs :
              backlinks'[p][l] = IF l[2] \in records /\ l[1] \in LinksOf(l[2])
                                 THEN backlinks[p][l] + 1 ELSE backlinks[p][l]
         /\ \A q \in Peer \ {p} : backlinks'[q] = backlinks[q]
  BY DEF Indexes, Indexed

Lineage == Indexes /\ LineageOnce

\* A derivation that missed the memo indexes its provenance, which was not
\* indexed before.
LEMMA DeriveKeepsLineage ==
  ASSUME Lineage, NEW p \in Peer, NEW r \in Recipe, NEW before,
         ~Hit(p, r), Derive(p, r, before)
  PROVE  Lineage'
  <1>1. Indexed(p, {Provenance(r), Root(Output[r])})
    BY DEF Derive
  <1>2. /\ memo' = [q \in Peer |-> memo'[q]]
        /\ memo'[p] = memo[p] \cup {r} /\ r \notin memo[p]
        /\ \A q \in Peer \ {p} : memo'[q] = memo[q]
    BY DEF Derive, Hit, Lineage, Indexes
  <1>3. Indexes'
    BY <1>1, <1>2, IndexedCounts DEF Lineage, Indexes
  <1>4. LineageOnce'
    <2> SUFFICES ASSUME NEW q \in Peer, NEW l \in LinkPairs, l[2][1] = "provenance"
                 PROVE  backlinks'[q][l] =
                          IF l[2][2] \in memo'[q] /\ l[1] \in LinksOf(l[2]) THEN 1 ELSE 0
      BY DEF LineageOnce
    <2>1. backlinks[q][l] =
            IF l[2][2] \in memo[q] /\ l[1] \in LinksOf(l[2]) THEN 1 ELSE 0
      BY DEF Lineage, LineageOnce
    <2>2. CASE q # p
      BY <1>1, <1>2, <2>1, <2>2, IndexedCounts DEF Lineage
    <2>3. CASE q = p
      <3>1. backlinks'[p][l] =
              IF l[2] \in {Provenance(r), Root(Output[r])} /\ l[1] \in LinksOf(l[2])
              THEN backlinks[p][l] + 1 ELSE backlinks[p][l]
        BY <1>1, IndexedCounts DEF Lineage
      <3>2. l[2] \in Records
        BY DEF LinkPairs
      <3>3. PICK s \in Recipe : l[2] = Provenance(s)
        BY <3>2 DEF Records, Root, Testimony, Provenance
      <3>4. l[2][2] = s /\ (l[2] \in {Provenance(r), Root(Output[r])} <=> s = r)
        BY <3>3 DEF Provenance, Root
      <3> QED BY <1>2, <2>1, <2>3, <3>1, <3>4
    <2> QED BY <2>2, <2>3
  <1> QED BY <1>3, <1>4 DEF Lineage

\* A capture indexes only its testimony.
LEMMA CaptureKeepsLineage ==
  ASSUME Lineage, NEW p \in Peer, NEW t \in Take, Capture(p, t)
  PROVE  Lineage'
  <1>1. Indexed(p, {Testimony(t)}) /\ memo' = memo
    BY DEF Capture
  <1>2. Indexes'
    BY <1>1, IndexedCounts DEF Lineage, Indexes
  <1>3. ASSUME NEW q \in Peer, NEW l \in LinkPairs, l[2][1] = "provenance"
        PROVE  backlinks'[q][l] = backlinks[q][l]
    <2>1. l[2] # Testimony(t)
      BY <1>3 DEF Testimony
    <2> QED BY <1>1, <2>1, IndexedCounts DEF Lineage
  <1>4. LineageOnce'
    BY <1>1, <1>3 DEF Lineage, LineageOnce
  <1> QED BY <1>2, <1>4 DEF Lineage

\* Every operation of every store keeps the lineage.
LEMMA LineageInductive ==
  ASSUME Lineage, [Next]_vars PROVE Lineage'
  <1>1. ASSUME UNCHANGED <<memo, backlinks>> PROVE Lineage'
    BY <1>1 DEF Lineage, Indexes, LineageOnce
  <1>2. ASSUME NEW p \in Peer, NEW r \in Recipe, CommitDerivation(p, r)
        PROVE  Lineage'
    BY <1>1, <1>2, DeriveKeepsLineage DEF CommitDerivation, Repeat
  <1>3. ASSUME NEW p \in Peer, NEW r \in Recipe, Compile(p, r)
        PROVE  Lineage'
    BY <1>1, <1>3, DeriveKeepsLineage DEF Compile
  <1>4. ASSUME NEW p \in Peer, NEW t \in Take, Capture(p, t) PROVE Lineage'
    BY <1>4, CaptureKeepsLineage
  <1>5. ASSUME NEW p \in Peer,
               \/ \E b \in Blob, provide \in BOOLEAN : Put(p, b, provide)
               \/ \E r \in Recipe : CommitGraph(p, AppOf[r])
        PROVE  Lineage'
    BY <1>1, <1>5 DEF Put, CommitGraph
  <1>6. ASSUME MoveRef \/ Forget \/ CachePressure \/ Transfer \/ UNCHANGED vars
        PROVE  Lineage'
    <2>1. CASE MoveRef
      BY <1>1, <2>1 DEF MoveRef, UndoRef, BindRef
    <2>2. CASE Forget \/ CachePressure
      BY <1>1, <2>2 DEF Forget, UnprovideEverywhere, CachePressure, Evict
    <2>3. CASE Transfer
      BY <1>1, <2>3 DEF Transfer, Fetch
    <2>4. CASE UNCHANGED vars
      BY <1>1, <2>4 DEF vars, stores
    <2> QED BY <1>6, <2>1, <2>2, <2>3, <2>4
  <1> QED BY <1>2, <1>3, <1>4, <1>5, <1>6 DEF Next, Commit

\* store.cpp, commit_derivation: whatever was derived can be walked back and
\* forth, once, through evictions and repeated derivations.
THEOREM LineageIsIndexedOnce == Spec => []LineageOnce
  <1>1. Init => Lineage
    BY DEF Init, Lineage, Indexes, LineageOnce
  <1>2. Spec => []Lineage
    BY <1>1, LineageInductive, PTL DEF Spec
  <1> QED BY <1>2, PTL DEF Lineage

-----------------------------------------------------------------------------
(* Ref history                                                             *)

Trails == trail \in [Peer -> Seq(Roots)]

\* Appending to a trail keeps it as a prefix.
LEMMA AppendKeeps ==
  ASSUME Trails, NEW p \in Peer, NEW o \in Roots,
         trail' = [trail EXCEPT ![p] = Append(@, o)]
  PROVE  /\ Trails'
         /\ \A q \in Peer : /\ Len(trail[q]) <= Len(trail'[q])
                            /\ SubSeq(trail'[q], 1, Len(trail[q])) = trail[q]
  <1>1. Trails'
    BY DEF Trails
  <1>2. ASSUME NEW q \in Peer
        PROVE  /\ Len(trail[q]) <= Len(trail'[q])
               /\ SubSeq(trail'[q], 1, Len(trail[q])) = trail[q]
    <2> DEFINE s == trail[q]
    <2>1. s \in Seq(Roots) /\ (trail'[q] = s \/ trail'[q] = Append(s, o))
      BY DEF Trails
    <2> HIDE DEF s
    <2>2. SubSeq(s, 1, Len(s)) = s
      BY <2>1
    <2>3. SubSeq(Append(s, o), 1, Len(s)) = s /\ Len(s) <= Len(Append(s, o))
      BY <2>1
    <2> QED BY <2>1, <2>2, <2>3 DEF s
  <1> QED BY <1>1, <1>2

\* Every step leaves the trails alone or appends to one.
LEMMA StepKeepsTrails ==
  ASSUME Trails, [Next]_vars PROVE Trails' /\ (trail' # trail => HistoryKept)
  <1>1. CASE trail' = trail
    BY <1>1 DEF Trails
  <1>2. ASSUME NEW p \in Peer, NEW b \in Blob, BindRef(p, b) \/ CommitGraph(p, b)
        PROVE  Trails' /\ HistoryKept
    <2>1. Root(b) \in Roots /\ trail' = [trail EXCEPT ![p] = Append(@, Root(b))]
      BY <1>2 DEF BindRef, CommitGraph, Roots
    <2> QED BY <2>1, AppendKeeps DEF HistoryKept
  <1>3. ASSUME NEW p \in Peer, UndoRef(p) PROVE Trails' /\ HistoryKept
    <2>1. trail[p] \in Seq(Roots) /\ Len(trail[p]) - 1 \in 1..Len(trail[p])
      BY <1>3 DEF UndoRef, Trails
    <2>2. trail[p][Len(trail[p]) - 1] \in Roots
      BY <2>1
    <2>3. trail' = [trail EXCEPT ![p] = Append(@, trail[p][Len(trail[p]) - 1])]
      BY <1>3 DEF UndoRef
    <2> QED BY <2>2, <2>3, AppendKeeps DEF HistoryKept
  <1>4. ASSUME trail' # trail
        PROVE  \E p \in Peer : UndoRef(p) \/ \E b \in Blob : BindRef(p, b) \/ CommitGraph(p, b)
    <2>1. ASSUME NEW p \in Peer, NEW r \in Recipe, CommitGraph(p, AppOf[r])
          PROVE  \E b \in Blob : CommitGraph(p, b)
      BY <2>1, BlobAssumption
    <2> QED
      BY <1>4, <2>1 DEF Next, Commit, Put, CommitDerivation, Compile, Capture,
         MoveRef, Forget, UnprovideEverywhere, CachePressure, Evict, Transfer,
         Fetch, vars, stores
  <1> QED BY <1>1, <1>2, <1>3, <1>4

\* store.cpp, undo_ref: an append, never a pop, whatever else happens.
THEOREM HistoryOnlyGrows == Spec => TrailIsHistory
  <1>1. Init => Trails
    BY DEF Init, Trails
  <1>2. Trails /\ [Next]_vars => Trails'
    BY StepKeepsTrails
  <1>3. Trails /\ [Next]_vars => [HistoryKept]_trail
    BY StepKeepsTrails
  <1>4. Spec => [][HistoryKept]_trail
    BY <1>1, <1>2, <1>3, PTL DEF Spec
  <1> QED BY <1>4 DEF TrailIsHistory

-----------------------------------------------------------------------------
(* What a fetch moves                                                      *)

\* A set of naturals has a least member.
LEMMA LeastNatural ==
  ASSUME NEW S, S \subseteq Nat, S # {}
  PROVE  \E m \in S : \A k \in S : m <= k
  <1> DEFINE R == OpToRel(<, Nat)
  <1>1. IsWellFoundedOn(R, Nat)
    BY NatLessThanWellFounded
  <1>2. \A x, y \in Nat : x < y => <<x, y>> \in R
    BY DEF OpToRel
  <1> HIDE DEF R
  <1>3. PICK m \in S : \A k \in S : <<k, m>> \notin R
    BY <1>1, WFMin
  <1>4. \A k \in S : k \in Nat /\ m \in Nat /\ ~(k < m)
    BY <1>2, <1>3
  <1>5. \A k \in S : m <= k
    BY <1>4
  <1> QED BY <1>5

\* What the first m of the visited objects add up to.
Visits(p, wanted, visited, m) ==
  wanted = [n \in 0..m |-> IF n = 0 THEN << >>
                           ELSE AlsoWanted(p, wanted[n - 1], visited[n])]

\* It can be written down for every m.
LEMMA VisitExists ==
  ASSUME NEW p, NEW visited, NEW m \in Nat
  PROVE  \E wanted : Visits(p, wanted, visited, m)
  <1> DEFINE B == {k \in Nat : ~\E wanted : Visits(p, wanted, visited, k)}
  <1> SUFFICES ASSUME B # {}  PROVE FALSE
    OBVIOUS
  <1>1. B \subseteq Nat
    OBVIOUS
  <1>2. PICK b \in B : \A k \in B : b <= k
    BY <1>1, LeastNatural
  <1>3. b \in Nat /\ ~\E wanted : Visits(p, wanted, visited, b)
    OBVIOUS
  <1>4. CASE b = 0
    <2> DEFINE f == [n \in 0..0 |-> << >>]
    <2>1. Visits(p, f, visited, 0)
      BY DEF Visits
    <2> HIDE DEF f
    <2> QED BY <1>3, <1>4, <2>1
  <1>5. CASE b # 0
    <2>1. b - 1 \in Nat /\ ~(b <= b - 1)
      BY <1>3, <1>5
    <2>2. b - 1 \notin B
      BY <1>2, <2>1
    <2>3. PICK f : Visits(p, f, visited, b - 1)
      BY <2>1, <2>2
    <2> HIDE DEF B
    <2> DEFINE last == AlsoWanted(p, f[b - 1], visited[b])
               g == [n \in 0..b |-> IF n = b THEN last ELSE f[n]]
    <2>4. \A n \in 0..(b - 1) :
             f[n] = IF n = 0 THEN << >> ELSE AlsoWanted(p, f[n - 1], visited[n])
      BY <2>3 DEF Visits
    <2>5. \A n \in 0..b : g[n] = IF n = b THEN last ELSE f[n]
      OBVIOUS
    <2>6. DOMAIN g = 0..b /\ g = [n \in 0..b |-> g[n]]
      OBVIOUS
    <2>7. \A n \in 0..b :
             g[n] = IF n = 0 THEN << >> ELSE AlsoWanted(p, g[n - 1], visited[n])
      <3> HIDE DEF g
      <3> SUFFICES ASSUME NEW n \in 0..b
                   PROVE  g[n] = IF n = 0 THEN << >>
                                 ELSE AlsoWanted(p, g[n - 1], visited[n])
        OBVIOUS
      <3>1. CASE n = b
        <4>1. g[b] = last /\ g[b - 1] = f[b - 1]
          BY <1>3, <1>5, <2>5
        <4> QED BY <1>5, <3>1, <4>1
      <3>2. CASE n # b
        <4>1. n \in 0..(b - 1) /\ g[n] = f[n]
          BY <1>3, <2>5, <3>2
        <4>2. n # 0 => n - 1 \in 0..b /\ n - 1 # b
          BY <1>3
        <4>3. n # 0 => g[n - 1] = f[n - 1]
          BY <2>5, <4>2
        <4> QED BY <2>4, <4>1, <4>3
      <3> QED BY <3>1, <3>2
    <2> HIDE DEF g
    <2>8. Visits(p, g, visited, b)
      BY <2>6, <2>7 DEF Visits
    <2> QED BY <1>3, <2>8
  <1> QED BY <1>4, <1>5

\* A list of objects of T that are not on p, none of them twice.
Missing(p, T, w) ==
  /\ w \in Seq(T)
  /\ \A i \in 1..Len(w) : w[i] \notin objects[p]
  /\ \A i, j \in 1..Len(w) : w[i] = w[j] => i = j

\* One more object keeps it such a list.
LEMMA AlsoWantedMissing ==
  ASSUME NEW p, NEW T, NEW w, Missing(p, T, w), NEW o \in T
  PROVE  Missing(p, T, AlsoWanted(p, w, o))
  <1>1. CASE o \in objects[p] \/ \E i \in DOMAIN w : w[i] = o
    BY <1>1 DEF AlsoWanted
  <1>2. CASE ~(o \in objects[p] \/ \E i \in DOMAIN w : w[i] = o)
    <2>1. w \in Seq(T) /\ Len(w) \in Nat /\ DOMAIN w = 1..Len(w)
      BY DEF Missing
    <2> DEFINE a == AlsoWanted(p, w, o)
    <2>2. a = Append(w, o)
      BY <1>2 DEF AlsoWanted
    <2>3. /\ a \in Seq(T) /\ Len(a) = Len(w) + 1 /\ a[Len(w) + 1] = o
          /\ \A i \in 1..Len(w) : a[i] = w[i]
      BY <2>1, <2>2, AppendProperties
    <2> HIDE DEF a
    <2>4. \A i \in 1..Len(a) : i = Len(w) + 1 \/ i \in 1..Len(w)
      BY <2>1, <2>3
    <2>5. \A i \in 1..Len(a) : a[i] \notin objects[p]
      BY <1>2, <2>3, <2>4 DEF Missing
    <2>6. \A i \in 1..Len(w) : a[i] # o
      BY <1>2, <2>1, <2>3
    <2>7. \A i, j \in 1..Len(a) : a[i] = a[j] => i = j
      BY <2>3, <2>4, <2>6 DEF Missing
    <2> QED BY <2>3, <2>5, <2>7 DEF Missing, a
  <1> QED BY <1>1, <1>2

\* move_one over root and chunks: what is wanted is missing, none of it twice,
\* also when a blob repeats a chunk.
LEMMA WantedMissing ==
  ASSUME NEW p, NEW root \in Roots
  PROVE  \E T : Missing(p, T, Wanted(p, root))
  <1> DEFINE visited == <<root>> \o FanOut(root)
             m == Len(visited)
             T == {visited[i] : i \in 1..m}
  <1>1. m \in Nat
    <2>1. PICK b \in Blob : root = <<"blob", b>>
      BY DEF Roots, Root
    <2> DEFINE chunks == UNION {{ChunksOf[c][i] : i \in DOMAIN ChunksOf[c]} : c \in DOMAIN ChunksOf}
    <2>2. ChunksOf[b] \in Seq(chunks)
      BY BlobAssumption
    <2> HIDE DEF chunks
    <2>3. PICK k \in Nat : DOMAIN ChunksOf[b] = 1..k
      BY <2>2
    <2>4. FanOut(root) = [i \in 1..k |-> <<"chunk", ChunksOf[b][i]>>]
      BY <2>1, <2>3 DEF FanOut
    <2> DEFINE S == {<<"chunk", ChunksOf[b][i]>> : i \in 1..k} \cup {root}
    <2>5. FanOut(root) \in Seq(S)
      <3>1. \A i \in 1..k : <<"chunk", ChunksOf[b][i]>> \in S
        OBVIOUS
      <3> HIDE DEF S
      <3> QED BY <2>4, <3>1
    <2>6. <<root>> \in Seq(S)
      OBVIOUS
    <2> HIDE DEF S
    <2>7. visited \in Seq(S)
      BY <2>5, <2>6
    <2> QED BY <2>7
  <1>2. PICK w : Visits(p, w, visited, m) /\ Wanted(p, root) = w[m]
    <2> DEFINE w == CHOOSE f : Visits(p, f, visited, m)
    <2>1. Visits(p, w, visited, m)
      BY <1>1, VisitExists
    <2>2. Wanted(p, root) = w[m]
      BY DEF Wanted, Visits
    <2> HIDE DEF w
    <2> QED BY <2>1, <2>2
  <1>3. \A i \in 1..m : visited[i] \in T
    OBVIOUS
  <1> HIDE DEF visited, m, T
  <1> DEFINE B == {n \in 0..m : ~Missing(p, T, w[n])}
  <1>4. ASSUME B # {}  PROVE FALSE
    <2>1. B \subseteq Nat
      BY <1>1
    <2>2. PICK b \in B : \A k \in B : b <= k
      BY <1>4, <2>1, LeastNatural
    <2>3. b \in 0..m /\ ~Missing(p, T, w[b])
      OBVIOUS
    <2>4. Missing(p, T, << >>)
      BY DEF Missing
    <2>5. w[b] = IF b = 0 THEN << >> ELSE AlsoWanted(p, w[b - 1], visited[b])
      BY <1>2, <2>3 DEF Visits
    <2>6. b # 0
      BY <2>3, <2>4, <2>5
    <2>7. b - 1 \in 0..m /\ ~(b <= b - 1) /\ b \in 1..m
      BY <1>1, <2>3, <2>6
    <2>8. Missing(p, T, w[b - 1])
      BY <2>2, <2>7
    <2>9. visited[b] \in T
      BY <1>3, <2>7
    <2>10. Missing(p, T, AlsoWanted(p, w[b - 1], visited[b]))
      BY <2>8, <2>9, AlsoWantedMissing
    <2> QED BY <2>3, <2>5, <2>6, <2>10
  <1>5. m \in 0..m
    BY <1>1
  <1>6. Missing(p, T, w[m])
    BY <1>4, <1>5
  <1> QED BY <1>2, <1>6

\* A fetch stops somewhere: at the first place where nothing more can move.
LEMMA FetchStops ==
  ASSUME NEW len \in Nat, NEW budget \in Nat, NEW here
  PROVE  \E m \in 0..len :
           /\ m <= budget /\ \A i \in 1..m : i \in here
           /\ m = len \/ m = budget \/ ~(\A i \in 1..(m + 1) : i \in here)
  <1> DEFINE S == {m \in 0..len : m = len \/ m = budget \/ m + 1 \notin here}
  <1>1. S \subseteq Nat /\ len \in S
    OBVIOUS
  <1>2. PICK m \in S : \A k \in S : m <= k
    BY <1>1, LeastNatural
  <1>3. m \in 0..len /\ (m = len \/ m = budget \/ m + 1 \notin here)
    OBVIOUS
  <1>4. \A k \in 0..len : k < m => k # budget /\ k + 1 \in here
    BY <1>2, <1>3
  <1> HIDE DEF S
  <1>5. m <= budget
    BY <1>3, <1>4
  <1>6. ASSUME NEW i \in 1..m  PROVE i \in here
    <2>1. i - 1 \in 0..len /\ i - 1 < m /\ (i - 1) + 1 = i
      BY <1>3
    <2> QED BY <1>4, <2>1
  <1>7. m + 1 \notin here => ~(\A i \in 1..(m + 1) : i \in here)
    BY <1>3
  <1> QED BY <1>3, <1>5, <1>6, <1>7

\* The first n of a list that repeats nothing are n.
LEMMA FirstOnesCount ==
  ASSUME NEW p, NEW T, NEW w, Missing(p, T, w), NEW n \in 0..Len(w)
  PROVE  /\ Cardinality({w[i] : i \in 1..n}) = n
         /\ {w[i] : i \in 1..n} \cap objects[p] = {}
  <1> DEFINE S == {w[i] : i \in 1..n}
             f == [i \in 1..n |-> w[i]]
  <1>1. Len(w) \in Nat /\ \A i \in 1..n : i \in 1..Len(w)
    BY LenProperties DEF Missing
  <1>2. f \in Surjection(1..n, S)
    BY DEF Surjection
  <1>3. f \in Injection(1..n, S)
    BY <1>1 DEF Injection, IsInjective, Missing
  <1>4. IsFiniteSet(1..n) /\ Cardinality(1..n) = n
    BY <1>1, FS_Interval
  <1> HIDE DEF f, S
  <1>5. Cardinality(S) = n
    BY <1>2, <1>3, <1>4, FS_Surjection
  <1>6. S \cap objects[p] = {}
    BY <1>1 DEF S, Missing
  <1> QED BY <1>5, <1>6 DEF S

Counts == transfers = [p \in Peer |-> transfers[p]] /\ \A p \in Peer : transfers[p] \in Nat

\* What a step of the transfer counters must be.
Moved == \A p \in Peer : transfers'[p] # transfers[p] =>
           transfers'[p] - transfers[p] = Cardinality(objects'[p] \ objects[p])

\* One fetch counts what it brings.
LEMMA FetchCounts ==
  ASSUME Shaped, Counts, NEW p \in Peer, NEW q \in Peer, NEW root \in Roots,
         NEW budget \in Nat, Fetch(p, q, root, budget)
  PROVE  Counts' /\ Moved
  <1>1. PICK w : w = Wanted(p, root)
    OBVIOUS
  <1>2. PICK T : Missing(p, T, w)
    BY <1>1, WantedMissing
  <1>3. Len(w) \in Nat
    BY <1>2, LenProperties DEF Missing
  <1> DEFINE held(k) == \A i \in 1..k : w[i] \in objects[q]
             stops(m) == /\ m <= budget /\ held(m)
                         /\ m = Len(w) \/ m = budget \/ ~held(m + 1)
             n == CHOOSE m \in 0..Len(w) : stops(m)
             moved == {w[i] : i \in 1..n}
  <1>4. Stored(p, moved, FALSE) /\ transfers' = [transfers EXCEPT ![p] = @ + n]
    BY <1>1 DEF Fetch
  <1>5. \E m \in 0..Len(w) : stops(m)
    <2> DEFINE here == {i \in Nat : w[i] \in objects[q]}
    <2>1. \A k \in Nat : held(k) <=> \A i \in 1..k : i \in here
      OBVIOUS
    <2> HIDE DEF here
    <2>2. PICK m \in 0..Len(w) :
             /\ m <= budget /\ \A i \in 1..m : i \in here
             /\ m = Len(w) \/ m = budget \/ ~(\A i \in 1..(m + 1) : i \in here)
      BY <1>3, FetchStops
    <2>3. m \in Nat /\ m + 1 \in Nat
      BY <1>3
    <2>4. stops(m)
      BY <2>1, <2>2, <2>3
    <2> QED BY <2>4
  <1> HIDE DEF held, stops
  <1>6. n \in 0..Len(w)
    BY <1>5
  <1> HIDE DEF n
  <1>7. Cardinality(moved) = n /\ moved \cap objects[p] = {}
    BY <1>2, <1>6, FirstOnesCount
  <1> HIDE DEF moved
  <1>8. objects'[p] \ objects[p] = moved
    <2>1. objects'[p] = objects[p] \cup moved
      BY <1>4, StoredPuts
    <2> QED BY <1>7, <2>1
  <1>9. n \in Nat
    BY <1>3, <1>6
  <1>10. /\ transfers'[p] = transfers[p] + n
         /\ \A x \in Peer \ {p} : transfers'[x] = transfers[x]
         /\ transfers' = [x \in Peer |-> transfers'[x]]
    BY <1>4 DEF Counts
  <1>11. Counts'
    BY <1>9, <1>10 DEF Counts
  <1>12. transfers'[p] - transfers[p] = n
    BY <1>9, <1>10 DEF Counts
  <1>13. Moved
    BY <1>7, <1>8, <1>10, <1>12 DEF Moved
  <1> QED BY <1>11, <1>13

\* Nothing else moves anything.
LEMMA StepCounts ==
  ASSUME Shaped, Counts, [Next]_vars
  PROVE  Counts' /\ Moved
  <1>1. CASE Transfer
    <2>1. PICK p \in Peer, q \in Peer, o \in Roots, budget \in {1, Unlimited} : Fetch(p, q, o, budget)
      BY <1>1 DEF Transfer
    <2>2. budget \in Nat
      BY DEF Unlimited
    <2> QED BY <2>1, <2>2, FetchCounts
  <1>2. CASE ~Transfer
    <2>1. transfers' = transfers
      BY <1>2 DEF Next, Commit, Put, CommitGraph, CommitDerivation, Compile, Capture, MoveRef,
         BindRef, UndoRef, Forget, UnprovideEverywhere, CachePressure, Evict, vars, stores
    <2> QED BY <2>1 DEF Counts, Moved
  <1> QED BY <1>1, <1>2

\* store.cpp, fetch: what the counter of a destination gains is the number of
\* objects it gained, retried, interrupted or not.
THEOREM FetchesMoveOnlyMissing == Spec => FetchMovesOnlyMissing
  <1>1. Init => Counts
    BY DEF Init, Counts
  <1>2. Promises /\ Counts /\ [Next]_vars => Counts' /\ [Moved]_stores
    BY StepCounts DEF Promises
  <1>3. Spec => [][Moved]_stores
    BY <1>1, <1>2, PromisesInvariant, PTL DEF Spec
  <1> QED BY <1>3 DEF FetchMovesOnlyMissing, Moved

=============================================================================
