---------------------------- MODULE SignalGraphProofs ----------------------------
(***************************************************************************)
(* What probe1's signal graph keeps on both of its clocks: the frame's plan *)
(* and its ticks (TickPlan), and the boundary to the audio callback         *)
(* (AudioRegion), for any graphs, descriptors and arrays, and for any ring, *)
(* block and number of samples, events, values and swaps.                   *)
(*                                                                         *)
(* The plan is a pure function of the graph, so its theorems are about two  *)
(* loops.  A search whose stack is a path, whose done nodes lead only to    *)
(* done nodes except by back edges, marks edges that close a cycle and      *)
(* leaves none; a queue that holds each node once, when all that leads to   *)
(* it is in the order, puts producers first.  The ticks' invariants say how *)
(* old the outputs and the captures are, and that clones and their counts   *)
(* come and go together.                                                    *)
(*                                                                         *)
(* The boundary's invariant has one part per crossing: who holds the plan,  *)
(* the event counts, the latch and what it has shown, the counters of the   *)
(* ring and the copies the two threads work on, and what the ring holds.    *)
(* The ring's part leans on the plan's, since a swap resets it: a block     *)
(* that could run then would push into the fresh ring from old counters.    *)
(***************************************************************************)
EXTENDS TickPlan, AudioRegion, SequenceTheorems, FiniteSetTheorems, NaturalsInduction, TLAPS

-----------------------------------------------------------------------------
(* Lists                                                                   *)

\* A set of naturals has a least member.
LEMMA LeastNatural ==
  ASSUME NEW S, S \subseteq Nat, S # {}
  PROVE  \E m \in S : \A k \in S : m <= k
<1> DEFINE R == OpToRel(<, Nat)
<1>1. IsWellFoundedOn(R, Nat)
  BY NatLessThanWellFounded
<1>2. \A x, y \in Nat : x < y => <<x, y>> \in R
  BY DEF OpToRel
<1> HIDE DEF R
<1>3. PICK m \in S : \A k \in S : <<k, m>> \notin R
  BY <1>1, WFMin
<1>4. \A k \in S : k \in Nat /\ m \in Nat /\ ~(k < m)
  BY <1>2, <1>3
<1>5. \A k \in S : m <= k
  BY <1>4
<1> QED  BY <1>5

\* A nonempty set of places of a list has a last one.
LEMMA LastPlace ==
  ASSUME NEW n \in Nat, NEW S, S \subseteq 1..n, S # {}
  PROVE  \E m \in S : \A k \in S : k <= m
<1> DEFINE T == {n - k : k \in S}
<1>1. \A k \in S : n - k \in Nat
  OBVIOUS
<1>2. T \subseteq Nat /\ T # {}
  BY <1>1
<1> HIDE DEF T
<1>3. PICK t \in T : \A k \in T : t <= k
  BY <1>2, LeastNatural
<1>4. PICK m \in S : t = n - m
  BY DEF T
<1>5. \A k \in S : n - m <= n - k
  BY <1>3, <1>4 DEF T
<1> QED  BY <1>5

\* What holds at the start and from each round to the next holds up to the end.
LEMMA Along ==
  ASSUME NEW m \in Nat, NEW P, 0 \in P, \A n \in 1..m : n - 1 \in P => n \in P
  PROVE  0..m \subseteq P
<1> DEFINE B == (0..m) \ P
<1> SUFFICES ASSUME B # {}  PROVE FALSE
  OBVIOUS
<1>1. B \subseteq Nat
  OBVIOUS
<1>2. PICK b \in B : \A k \in B : b <= k
  BY <1>1, LeastNatural
<1>3. b \in Nat /\ b <= m /\ b \notin P /\ b # 0
  OBVIOUS
<1>4. b \in 1..m /\ b - 1 \in 0..m /\ ~(b <= b - 1)
  BY <1>3
<1>5. b - 1 \in P
  BY <1>2, <1>4
<1> QED  BY <1>3, <1>4, <1>5

\* Round after round of a loop, from a, over values of D.
Rounds(f, m, a, step) == f = [n \in 0..m |-> IF n = 0 THEN a ELSE step[<<n, f[n - 1]>>]]

\* The rounds of a loop can be written down.
LEMMA RoundsExist ==
  ASSUME NEW D, NEW a \in D, NEW m \in Nat, NEW step \in [(1..m) \X D -> D]
  PROVE  \E f \in [0..m -> D] : Rounds(f, m, a, step)
<1> DEFINE P == {k \in 0..m : \E f \in [0..k -> D] : Rounds(f, k, a, step)}
<1>1. 0 \in P
  <2> DEFINE f == [n \in 0..0 |-> a]
  <2>1. Rounds(f, 0, a, step)
    BY DEF Rounds
  <2>2. f \in [0..0 -> D]
    OBVIOUS
  <2> HIDE DEF f
  <2> QED  BY <2>1, <2>2
<1>2. ASSUME NEW b \in 1..m, b - 1 \in P  PROVE b \in P
  <2>1. PICK f \in [0..(b - 1) -> D] : Rounds(f, b - 1, a, step)
    BY <1>2
  <2> DEFINE last == step[<<b, f[b - 1]>>]
             g == [n \in 0..b |-> IF n = b THEN last ELSE f[n]]
  <2>2. b \in Nat /\ b # 0 /\ b - 1 \in Nat /\ b \in 0..m
    OBVIOUS
  <2>3. f[b - 1] \in D
    BY <2>1, <2>2
  <2>4. last \in D
    BY <2>3
  <2>5. \A n \in 0..b : g[n] = IF n = b THEN last ELSE f[n]
    OBVIOUS
  <2>6. \A n \in 0..b : n # b => n \in 0..(b - 1)
    BY <2>2
  <2>7. g \in [0..b -> D]
    BY <2>1, <2>4, <2>6
  <2>8. \A n \in 0..(b - 1) : f[n] = IF n = 0 THEN a ELSE step[<<n, f[n - 1]>>]
    BY <2>1 DEF Rounds
  <2>9. \A n \in 0..b : g[n] = IF n = 0 THEN a ELSE step[<<n, g[n - 1]>>]
    <3> HIDE DEF g
    <3> SUFFICES ASSUME NEW n \in 0..b
                 PROVE  g[n] = IF n = 0 THEN a ELSE step[<<n, g[n - 1]>>]
      OBVIOUS
    <3>1. CASE n = b
      <4>1. g[b] = last /\ g[b - 1] = f[b - 1]
        BY <2>2, <2>5
      <4> QED  BY <2>2, <3>1, <4>1
    <3>2. CASE n # b
      <4>1. n \in 0..(b - 1) /\ g[n] = f[n]
        BY <2>5, <2>6, <3>2
      <4>2. n # 0 => n - 1 \in 0..b /\ n - 1 # b
        BY <2>2
      <4>3. n # 0 => g[n - 1] = f[n - 1]
        BY <2>5, <4>2
      <4> QED  BY <2>8, <4>1, <4>3
    <3> QED  BY <3>1, <3>2
  <2>10. g = [n \in 0..b |-> g[n]]
    OBVIOUS
  <2> HIDE DEF g
  <2>11. Rounds(g, b, a, step)
    BY <2>9, <2>10 DEF Rounds
  <2> QED  BY <2>2, <2>7, <2>11
<1> HIDE DEF P
<1>3. 0..m \subseteq P
  BY <1>1, <1>2, Along
<1>4. m \in P
  BY <1>3
<1> QED  BY <1>4 DEF P

\* A list has no more members than places.
LEMMA MembersAreFew ==
  ASSUME NEW T, NEW s \in Seq(T)
  PROVE  IsFiniteSet(Members(s)) /\ Cardinality(Members(s)) <= Len(s)
         /\ Cardinality(Members(s)) \in Nat
<1>1. Len(s) \in Nat /\ DOMAIN s = 1..Len(s)
  OBVIOUS
<1>2. s \in [1..Len(s) -> Members(s)]
  BY <1>1 DEF Members
<1>3. \A t \in Members(s) : \E i \in 1..Len(s) : s[i] = t
  BY <1>1 DEF Members
<1>4. s \in Surjection(1..Len(s), Members(s))
  BY <1>2, <1>3 DEF Surjection
<1>5. ExistsSurjection(1..Len(s), Members(s))
  BY <1>4 DEF ExistsSurjection
<1>6. IsFiniteSet(Members(s))
  BY <1>1, <1>5, FS_NatSurjection
<1> QED  BY <1>1, <1>5, <1>6, FS_SurjCardinalityBound, FS_CardinalityType

\* An element more is a member more.
LEMMA MembersOfAppend ==
  ASSUME NEW T, NEW s \in Seq(T), NEW x \in T
  PROVE  Members(Append(s, x)) = Members(s) \cup {x}
<1> DEFINE a == Append(s, x)
<1>1. /\ a \in Seq(T) /\ Len(a) = Len(s) + 1 /\ Len(s) \in Nat
      /\ \A i \in 1..Len(s) : a[i] = s[i]
      /\ a[Len(s) + 1] = x
  BY AppendProperties
<1>2. DOMAIN a = 1..(Len(s) + 1) /\ DOMAIN s = 1..Len(s)
  <2> HIDE DEF a
  <2> QED  BY <1>1
<1> HIDE DEF a
<1>3. \A i \in DOMAIN a : a[i] \in Members(s) \cup {x}
  BY <1>1, <1>2 DEF Members
<1>4. \A i \in DOMAIN s : s[i] \in Members(a)
  BY <1>1, <1>2 DEF Members
<1>5. x \in Members(a)
  BY <1>1, <1>2 DEF Members
<1>6. Members(a) = Members(s) \cup {x}
  BY <1>3, <1>4, <1>5 DEF Members
<1> QED  BY <1>6 DEF a

\* The elements kept of the first n of a list.
KeptUpTo(kept, s, S, m) ==
  kept = [n \in 0..m |-> IF n = 0 THEN << >>
                         ELSE IF s[n] \in S THEN Append(kept[n - 1], s[n]) ELSE kept[n - 1]]

\* They can be written down for every list.
LEMMA KeptExists ==
  ASSUME NEW T, NEW s \in Seq(T), NEW S
  PROVE  \E kept : KeptUpTo(kept, s, S, Len(s))
<1>1. PICK N \in Nat : N = Len(s) /\ \A n \in 1..N : s[n] \in T
  OBVIOUS
<1> DEFINE take(q, n) == IF s[n] \in S THEN Append(q, s[n]) ELSE q
           step == [w \in (1..N) \X Seq(T) |-> take(w[2], w[1])]
<1>2. \A n \in 1..N, q \in Seq(T) : take(q, n) \in Seq(T)
  BY <1>1, AppendProperties
<1> HIDE DEF take
<1>3. step \in [(1..N) \X Seq(T) -> Seq(T)]
  BY <1>2
<1>4. \A n \in 1..N, q \in Seq(T) : step[<<n, q>>] = take(q, n)
  OBVIOUS
<1> HIDE DEF step
<1>5. << >> \in Seq(T)
  OBVIOUS
<1>6. PICK f \in [0..N -> Seq(T)] : Rounds(f, N, << >>, step)
  BY <1>3, <1>5, RoundsExist
<1>7. \A n \in 0..N : f[n] = IF n = 0 THEN << >> ELSE step[<<n, f[n - 1]>>]
  BY <1>6 DEF Rounds
<1>8. \A n \in 0..N : n # 0 => n \in 1..N /\ n - 1 \in 0..N
  OBVIOUS
<1>9. \A n \in 0..N : n # 0 => step[<<n, f[n - 1]>>] = take(f[n - 1], n)
  BY <1>4, <1>6, <1>8
<1>10. f = [n \in 0..N |-> IF n = 0 THEN << >> ELSE take(f[n - 1], n)]
  BY <1>6, <1>7, <1>9
<1>11. KeptUpTo(f, s, S, N)
  BY <1>10 DEF KeptUpTo, take
<1> QED  BY <1>1, <1>11

\* What is kept of a list is a list of what is in the kept set, and all of it.
LEMMA ThoseIs ==
  ASSUME NEW T, NEW s \in Seq(T), NEW S
  PROVE  Those(s, S) \in Seq(T \cap S) /\ Members(Those(s, S)) = Members(s) \cap S
<1>1. Len(s) \in Nat /\ DOMAIN s = 1..Len(s) /\ \A n \in 1..Len(s) : s[n] \in T
  OBVIOUS
<1>2. PICK kept : KeptUpTo(kept, s, S, Len(s)) /\ Those(s, S) = kept[Len(s)]
  <2> DEFINE kept == CHOOSE f : KeptUpTo(f, s, S, Len(s))
  <2>1. KeptUpTo(kept, s, S, Len(s))
    BY <1>1, KeptExists
  <2>2. Those(s, S) = kept[Len(s)]
    BY DEF Those, KeptUpTo
  <2> HIDE DEF kept
  <2> QED  BY <2>1, <2>2
<1>3. \A n \in 0..Len(s) :
         kept[n] = IF n = 0 THEN << >>
                   ELSE IF s[n] \in S THEN Append(kept[n - 1], s[n]) ELSE kept[n - 1]
  BY <1>2 DEF KeptUpTo
<1> DEFINE P == {n \in 0..Len(s) : /\ kept[n] \in Seq(T \cap S)
                                   /\ Members(kept[n]) = {s[i] : i \in 1..n} \cap S}
<1>4. 0 \in P
  <2>1. kept[0] = << >>
    BY <1>1, <1>3
  <2>2. Members(<< >>) = {} /\ << >> \in Seq(T \cap S)
    BY DEF Members
  <2>3. 0 \in 0..Len(s) /\ {s[i] : i \in 1..0} = {}
    BY <1>1
  <2> QED  BY <2>1, <2>2, <2>3
<1>5. ASSUME NEW n \in 1..Len(s), n - 1 \in P  PROVE n \in P
  <2>1. n \in 0..Len(s) /\ n - 1 \in Nat /\ n # 0 /\ s[n] \in T
    BY <1>1
  <2>2. kept[n - 1] \in Seq(T \cap S) /\ Members(kept[n - 1]) = {s[i] : i \in 1..(n - 1)} \cap S
    BY <1>5
  <2>3. {s[i] : i \in 1..n} = {s[i] : i \in 1..(n - 1)} \cup {s[n]}
    <3>1. 1..n = (1..(n - 1)) \cup {n}
      BY <2>1
    <3> QED  BY <3>1
  <2>4. CASE s[n] \in S
    <3>1. kept[n] = Append(kept[n - 1], s[n])
      BY <1>3, <2>1, <2>4
    <3>2. kept[n] \in Seq(T \cap S) /\ Members(kept[n]) = Members(kept[n - 1]) \cup {s[n]}
      <4>1. s[n] \in T \cap S
        BY <2>1, <2>4
      <4> QED  BY <2>2, <3>1, <4>1, AppendProperties, MembersOfAppend
    <3> QED  BY <2>1, <2>2, <2>3, <2>4, <3>2
  <2>5. CASE s[n] \notin S
    <3>1. kept[n] = kept[n - 1]
      BY <1>3, <2>1, <2>5
    <3> QED  BY <2>1, <2>2, <2>3, <2>5, <3>1
  <2> QED  BY <2>4, <2>5
<1> HIDE DEF P
<1>6. 0..Len(s) \subseteq P
  BY <1>1, <1>4, <1>5, Along
<1>7. Len(s) \in P
  BY <1>1, <1>6
<1>8. kept[Len(s)] \in Seq(T \cap S) /\ Members(kept[Len(s)]) = {s[i] : i \in 1..Len(s)} \cap S
  BY <1>7 DEF P
<1> QED  BY <1>1, <1>2, <1>8 DEF Members

\* A list that keeps some elements of another, place by place, in their order.
Thinned(t, s) ==
  \E h \in [1..Len(t) -> 1..Len(s)] :
    /\ \A k \in 1..Len(t) : t[k] = s[h[k]]
    /\ \A j, k \in 1..Len(t) : j < k => h[j] < h[k]

\* What is kept of a list keeps its order.
LEMMA ThoseAreThinned ==
  ASSUME NEW T, NEW s \in Seq(T), NEW S
  PROVE  Thinned(Those(s, S), s)
<1>1. PICK N \in Nat : N = Len(s) /\ DOMAIN s = 1..N /\ \A n \in 1..N : s[n] \in T
  OBVIOUS
<1>2. PICK kept : KeptUpTo(kept, s, S, N) /\ Those(s, S) = kept[N]
  <2> DEFINE kept == CHOOSE f : KeptUpTo(f, s, S, N)
  <2>1. KeptUpTo(kept, s, S, N)
    BY <1>1, KeptExists
  <2>2. Those(s, S) = kept[N]
    BY <1>1 DEF Those, KeptUpTo
  <2> HIDE DEF kept
  <2> QED  BY <2>1, <2>2
<1>3. \A n \in 0..N :
         kept[n] = IF n = 0 THEN << >>
                   ELSE IF s[n] \in S THEN Append(kept[n - 1], s[n]) ELSE kept[n - 1]
  BY <1>2 DEF KeptUpTo
<1> DEFINE InOrder(t, n) == \E h \in [1..Len(t) -> 1..n] :
              /\ \A k \in 1..Len(t) : t[k] = s[h[k]]
              /\ \A j, k \in 1..Len(t) : j < k => h[j] < h[k]
           P == {n \in 0..N : kept[n] \in Seq(T) /\ InOrder(kept[n], n)}
<1>4. 0 \in P
  <2>1. kept[0] = << >> /\ 0 \in 0..N
    BY <1>3
  <2>2. InOrder(<< >>, 0)
    <3>1. Len(<< >>) = 0 /\ 1..0 = {}
      OBVIOUS
    <3> DEFINE h == [k \in {} |-> 0]
    <3>2. h \in [{} -> 1..0]
      OBVIOUS
    <3> HIDE DEF h
    <3> QED  BY <3>1, <3>2
  <2>3. << >> \in Seq(T)
    OBVIOUS
  <2> HIDE DEF InOrder
  <2> QED  BY <2>1, <2>2, <2>3
<1>5. ASSUME NEW n \in 1..N, n - 1 \in P  PROVE n \in P
  <2>1. n \in 0..N /\ n - 1 \in Nat /\ n # 0 /\ s[n] \in T
    BY <1>1
  <2>2. kept[n - 1] \in Seq(T) /\ InOrder(kept[n - 1], n - 1)
    BY <1>5
  <2>3. PICK t \in Seq(T), L \in Nat : t = kept[n - 1] /\ L = Len(t)
    BY <2>2
  <2>4. PICK h \in [1..L -> 1..(n - 1)] :
          /\ \A k \in 1..L : t[k] = s[h[k]]
          /\ \A j, k \in 1..L : j < k => h[j] < h[k]
    BY <2>2, <2>3
  <2>5. CASE s[n] \in S
    <3> DEFINE a == Append(t, s[n])
               g == [k \in 1..(L + 1) |-> IF k = L + 1 THEN n ELSE h[k]]
    <3>1. /\ a \in Seq(T) /\ Len(a) = L + 1 /\ a[L + 1] = s[n]
          /\ \A k \in 1..L : a[k] = t[k]
      BY <2>1, <2>3, AppendProperties
    <3>2. kept[n] = a
      BY <1>3, <2>1, <2>3, <2>5
    <3> HIDE DEF a
    <3>3. \A k \in 1..(L + 1) : k = L + 1 \/ k \in 1..L
      OBVIOUS
    <3>4. \A k \in 1..L : h[k] \in 1..n /\ h[k] < n /\ g[k] = h[k]
      BY <2>1, <2>4
    <3>5. g[L + 1] = n
      OBVIOUS
    <3>6. g \in [1..(L + 1) -> 1..n]
      BY <2>1, <3>3, <3>4
    <3> HIDE DEF g
    <3>7. \A k \in 1..(L + 1) : a[k] = s[g[k]]
      BY <2>4, <3>1, <3>3, <3>4, <3>5
    <3>8. \A j, k \in 1..(L + 1) : j < k => g[j] < g[k]
      <4> SUFFICES ASSUME NEW j \in 1..(L + 1), NEW k \in 1..(L + 1), j < k
                   PROVE  g[j] < g[k]
        OBVIOUS
      <4>1. j \in 1..L
        BY <2>3
      <4>2. CASE k = L + 1
        BY <3>4, <3>5, <4>1, <4>2
      <4>3. CASE k \in 1..L
        BY <2>4, <3>4, <4>1, <4>3
      <4> QED  BY <3>3, <4>2, <4>3
    <3>9. InOrder(a, n)
      BY <3>1, <3>6, <3>7, <3>8
    <3> HIDE DEF InOrder
    <3> QED  BY <2>1, <3>1, <3>2, <3>9
  <2>6. CASE s[n] \notin S
    <3>1. kept[n] = t
      BY <1>3, <2>1, <2>3, <2>6
    <3>2. h \in [1..L -> 1..n]
      BY <2>1, <2>4
    <3>3. InOrder(t, n)
      BY <2>3, <2>4, <3>2
    <3> HIDE DEF InOrder
    <3> QED  BY <2>1, <2>3, <3>1, <3>3
  <2> QED  BY <2>5, <2>6
<1> HIDE DEF P
<1>6. 0..N \subseteq P
  BY <1>4, <1>5, Along
<1>7. N \in P
  BY <1>6
<1>8. InOrder(kept[N], N)
  BY <1>7 DEF P
<1> QED  BY <1>1, <1>2, <1>8 DEF Thinned

\* A list without repetition.
Distinct(s) == \A i, j \in DOMAIN s : s[i] = s[j] => i = j

\* A thinned list repeats nothing that its source does not repeat.
LEMMA ThinnedIsDistinct ==
  ASSUME NEW T, NEW s \in Seq(T), NEW t \in Seq(T), Thinned(t, s), Distinct(s)
  PROVE  Distinct(t)
<1>1. PICK h \in [1..Len(t) -> 1..Len(s)] :
         /\ \A k \in 1..Len(t) : t[k] = s[h[k]]
         /\ \A j, k \in 1..Len(t) : j < k => h[j] < h[k]
  BY DEF Thinned
<1>2. DOMAIN t = 1..Len(t) /\ Len(t) \in Nat /\ DOMAIN s = 1..Len(s) /\ Len(s) \in Nat
  OBVIOUS
<1> SUFFICES ASSUME NEW i \in 1..Len(t), NEW j \in 1..Len(t), t[i] = t[j]
             PROVE  i = j
  BY <1>2 DEF Distinct
<1>3. h[i] = h[j]
  <2>1. h[i] \in DOMAIN s /\ h[j] \in DOMAIN s /\ s[h[i]] = s[h[j]]
    BY <1>1, <1>2
  <2> QED  BY <2>1 DEF Distinct
<1>4. ~(i < j) /\ ~(j < i)
  BY <1>1, <1>2, <1>3
<1> QED  BY <1>2, <1>4

\* ... and what comes first in the source comes first in it.
LEMMA ThinnedKeepsOrder ==
  ASSUME NEW T, NEW s \in Seq(T), NEW t \in Seq(T), Thinned(t, s), Distinct(s),
         NEW a \in DOMAIN t, NEW b \in DOMAIN t, NEW i \in DOMAIN s, NEW j \in DOMAIN s,
         t[a] = s[i], t[b] = s[j], i < j
  PROVE  a < b
<1>1. PICK h \in [1..Len(t) -> 1..Len(s)] :
         /\ \A k \in 1..Len(t) : t[k] = s[h[k]]
         /\ \A u, v \in 1..Len(t) : u < v => h[u] < h[v]
  BY DEF Thinned
<1>2. DOMAIN t = 1..Len(t) /\ Len(t) \in Nat /\ DOMAIN s = 1..Len(s) /\ Len(s) \in Nat
  OBVIOUS
<1>3. h[a] = i /\ h[b] = j
  BY <1>1, <1>2 DEF Distinct
<1>4. a # b /\ ~(b < a)
  BY <1>1, <1>2, <1>3
<1> QED  BY <1>2, <1>4

-----------------------------------------------------------------------------
(* topo_sort                                                               *)

\* The edges join nodes of V.
Joins(edges, V) ==
  /\ \E E : edges \in Seq(E)
  /\ \A i \in DOMAIN edges : edges[i].src \in V /\ edges[i].dst \in V

\* What a node frees: each once, those that wait for nothing once it is done and
\* that an edge leads to from it.
Released(V, edges, done, v) ==
  {w \in V : /\ ~Waits(edges, done \cup {v}, w)
             /\ \E i \in DOMAIN edges : edges[i].src = v /\ edges[i].dst = w}
LEMMA FreedIs ==
  ASSUME NEW V, NEW edges, Joins(edges, V), NEW done, NEW v
  PROVE  /\ Freed(edges, done, v) \in Seq(V) /\ Distinct(Freed(edges, done, v))
         /\ Members(Freed(edges, done, v)) = Released(V, edges, done, v)
<1>1. PICK N \in Nat : N = Len(edges) /\ DOMAIN edges = 1..N
  BY DEF Joins
<1>2. \A i \in 1..N : edges[i].src \in V /\ edges[i].dst \in V
  BY <1>1 DEF Joins
<1> DEFINE all == [i \in 1..N |-> i]
           S == {i \in 1..N : LastInto(edges, v, i) /\ ~Waits(edges, done \cup {v}, edges[i].dst)}
           places == Those(all, S)
           freed == [k \in DOMAIN places |-> edges[places[k]].dst]
<1>3. Freed(edges, done, v) = freed
  BY <1>1 DEF Freed
<1>4. all \in Seq(Nat) /\ Len(all) = N /\ DOMAIN all = 1..N /\ Distinct(all) /\ Members(all) = 1..N
  BY <1>1 DEF Distinct, Members
<1>5. S \subseteq 1..N
  OBVIOUS
<1>6. \A i \in 1..N : i \in S <=> LastInto(edges, v, i) /\ ~Waits(edges, done \cup {v}, edges[i].dst)
  OBVIOUS
<1> HIDE DEF all, S
<1>7. places \in Seq(Nat \cap S) /\ Members(places) = S
  <2>1. places \in Seq(Nat \cap S) /\ Members(places) = Members(all) \cap S
    BY <1>4, ThoseIs
  <2>2. Members(all) \cap S = S
    BY <1>4, <1>5
  <2> QED  BY <2>1, <2>2
<1>8. Distinct(places)
  <2>1. Thinned(places, all)
    BY <1>4, ThoseAreThinned
  <2>2. places \in Seq(Nat)
    BY <1>7
  <2> QED  BY <1>4, <2>1, <2>2, ThinnedIsDistinct
<1> HIDE DEF places
<1>9. DOMAIN places = 1..Len(places) /\ Len(places) \in Nat /\ \A k \in 1..Len(places) : places[k] \in S
  BY <1>7
<1>10. freed \in Seq(V) /\ DOMAIN freed = 1..Len(places)
  <2>1. \A k \in 1..Len(places) : edges[places[k]].dst \in V
    BY <1>2, <1>5, <1>9
  <2>2. freed \in [1..Len(places) -> V]
    BY <1>9, <2>1
  <2> HIDE DEF freed
  <2> QED  BY <1>9, <2>2
<1>11. \A k \in 1..Len(places) : freed[k] = edges[places[k]].dst
  BY <1>9
<1> HIDE DEF freed
<1>12. Distinct(freed)
  <2> SUFFICES ASSUME NEW j \in 1..Len(places), NEW k \in 1..Len(places), freed[j] = freed[k]
               PROVE  j = k
    BY <1>10 DEF Distinct
  <2>1. places[j] \in 1..N /\ places[k] \in 1..N /\ LastInto(edges, v, places[j]) /\ LastInto(edges, v, places[k])
        /\ edges[places[j]].dst = edges[places[k]].dst
    BY <1>5, <1>6, <1>9, <1>11
  <2>2. ~(places[j] > places[k]) /\ ~(places[k] > places[j])
    BY <1>1, <2>1 DEF LastInto
  <2>3. places[j] = places[k]
    BY <2>1, <2>2
  <2> QED  BY <1>8, <1>9, <2>3 DEF Distinct
<1>13. ASSUME NEW w \in V, ~Waits(edges, done \cup {v}, w),
              NEW i \in 1..N, edges[i].src = v, edges[i].dst = w
       PROVE  w \in Members(freed)
  <2> DEFINE Into == {j \in 1..N : edges[j].src = v /\ edges[j].dst = w}
  <2>1. Into \subseteq 1..N /\ Into # {}
    BY <1>13
  <2>2. PICK m \in Into : \A j \in Into : j <= m
    <3> HIDE DEF Into
    <3> QED  BY <1>1, <2>1, LastPlace
  <2>3. m \in 1..N /\ edges[m].src = v /\ edges[m].dst = w
    OBVIOUS
  <2>4. \A j \in 1..N : j > m => edges[j].src # v \/ edges[j].dst # edges[m].dst
    BY <2>2, <2>3
  <2>5. m \in S
    BY <1>1, <1>6, <1>13, <2>3, <2>4 DEF LastInto
  <2>6. PICK k \in 1..Len(places) : places[k] = m
    BY <1>7, <1>9, <2>5 DEF Members
  <2> QED  BY <1>10, <1>11, <2>3, <2>6 DEF Members
<1>14. ASSUME NEW k \in 1..Len(places)
       PROVE  /\ freed[k] \in V /\ ~Waits(edges, done \cup {v}, freed[k])
              /\ \E i \in 1..N : edges[i].src = v /\ edges[i].dst = freed[k]
  BY <1>2, <1>5, <1>6, <1>9, <1>11 DEF LastInto
<1>15. Members(freed) = {w \in V : /\ ~Waits(edges, done \cup {v}, w)
                                  /\ \E i \in 1..N : edges[i].src = v /\ edges[i].dst = w}
  <2>1. Members(freed) = {freed[k] : k \in 1..Len(places)}
    BY <1>10 DEF Members
  <2> QED  BY <1>13, <1>14, <2>1
<1> QED  BY <1>1, <1>3, <1>10, <1>12, <1>15 DEF Released

\* Half-way: what is done and what waits in the queue are the nodes that wait for
\* nothing, each once, and every node done comes after what leads to it.
Sorting(V, edges, s) ==
  /\ s \in [order : Seq(V), queue : Seq(V)]
  /\ Distinct(s.order) /\ Distinct(s.queue)
  /\ Members(s.order) \cap Members(s.queue) = {}
  /\ \A w \in V : ~Waits(edges, Members(s.order), w) <=> w \in Members(s.order) \cup Members(s.queue)
  /\ \A k \in DOMAIN s.order, i \in DOMAIN edges :
       edges[i].dst = s.order[k] => \E j \in DOMAIN s.order : j < k /\ s.order[j] = edges[i].src

\* A list and one element more.
LEMMA OneMore ==
  ASSUME NEW V, NEW s \in Seq(V), NEW v \in V, Distinct(s), v \notin Members(s)
  PROVE  /\ Append(s, v) \in Seq(V) /\ Distinct(Append(s, v))
         /\ Members(Append(s, v)) = Members(s) \cup {v}
         /\ DOMAIN Append(s, v) = 1..(Len(s) + 1) /\ Append(s, v)[Len(s) + 1] = v
         /\ \A k \in 1..Len(s) : Append(s, v)[k] = s[k]
<1>1. PICK a \in Seq(V) : a = Append(s, v)
  BY AppendProperties
<1>2. Len(s) \in Nat /\ DOMAIN s = 1..Len(s) /\ DOMAIN a = 1..(Len(s) + 1)
      /\ a[Len(s) + 1] = v /\ \A k \in 1..Len(s) : a[k] = s[k]
  BY <1>1, AppendProperties
<1>3. Members(a) = Members(s) \cup {v}
  BY <1>1, MembersOfAppend
<1>4. Distinct(a)
  <2>1. \A k \in 1..Len(s) : a[k] \in Members(s) /\ a[k] # v
    BY <1>2 DEF Members
  <2>2. \A k \in DOMAIN a : k = Len(s) + 1 \/ k \in 1..Len(s)
    BY <1>2
  <2> QED  BY <1>2, <2>1, <2>2 DEF Distinct
<1> QED  BY <1>1, <1>2, <1>3, <1>4

\* One list after another.
LEMMA Joining ==
  ASSUME NEW V, NEW s \in Seq(V), NEW t \in Seq(V)
  PROVE  /\ s \o t \in Seq(V) /\ Members(s \o t) = Members(s) \cup Members(t)
         /\ DOMAIN (s \o t) = 1..(Len(s) + Len(t))
         /\ \A k \in DOMAIN s : (s \o t)[k] = s[k]
         /\ (Distinct(s) /\ Distinct(t) /\ Members(s) \cap Members(t) = {} => Distinct(s \o t))
<1>1. PICK c \in Seq(V) : c = s \o t
  BY ConcatProperties
<1>2. PICK m \in Nat, n \in Nat : m = Len(s) /\ n = Len(t) /\ DOMAIN s = 1..m /\ DOMAIN t = 1..n
  OBVIOUS
<1>3. DOMAIN c = 1..(m + n) /\ \A k \in 1..(m + n) : c[k] = IF k <= m THEN s[k] ELSE t[k - m]
  BY <1>1, <1>2, ConcatProperties
<1>4. \A k \in 1..m : k \in 1..(m + n) /\ c[k] = s[k]
  BY <1>2, <1>3
<1>5. \A k \in 1..n : k + m \in 1..(m + n) /\ c[k + m] = t[k]
  <2> SUFFICES ASSUME NEW k \in 1..n  PROVE k + m \in 1..(m + n) /\ c[k + m] = t[k]
    OBVIOUS
  <2>1. k + m \in 1..(m + n) /\ ~(k + m <= m) /\ (k + m) - m = k
    OBVIOUS
  <2> QED  BY <1>3, <2>1
<1>6. \A k \in 1..(m + n) : (k \in 1..m /\ c[k] = s[k]) \/ (k - m \in 1..n /\ c[k] = t[k - m])
  BY <1>3
<1>7. Members(c) = Members(s) \cup Members(t)
  <2>1. \A x \in Members(c) : x \in Members(s) \cup Members(t)
    BY <1>2, <1>3, <1>6 DEF Members
  <2>2. \A x \in Members(s) : x \in Members(c)
    BY <1>2, <1>3, <1>4 DEF Members
  <2>3. \A x \in Members(t) : x \in Members(c)
    <3> SUFFICES ASSUME NEW k \in 1..n  PROVE t[k] \in Members(c)
      BY <1>2 DEF Members
    <3> QED  BY <1>3, <1>5 DEF Members
  <2> QED  BY <2>1, <2>2, <2>3
<1>8. ASSUME Distinct(s), Distinct(t), Members(s) \cap Members(t) = {}  PROVE Distinct(c)
  <2> SUFFICES ASSUME NEW j \in 1..(m + n), NEW k \in 1..(m + n), c[j] = c[k]  PROVE j = k
    BY <1>3 DEF Distinct
  <2>1. (\A i \in 1..m : s[i] \in Members(s)) /\ (\A i \in 1..n : t[i] \in Members(t))
    BY <1>2 DEF Members
  <2>2. CASE j \in 1..m /\ k \in 1..m
    BY <1>2, <1>4, <1>8, <2>2 DEF Distinct
  <2>3. CASE j - m \in 1..n /\ k - m \in 1..n /\ c[j] = t[j - m] /\ c[k] = t[k - m]
    <3>1. j - m = k - m
      BY <1>2, <1>8, <2>3 DEF Distinct
    <3> QED  BY <3>1
  <2> QED  BY <1>6, <1>8, <2>1, <2>2, <2>3
<1> QED  BY <1>1, <1>2, <1>3, <1>4, <1>7, <1>8

\* A list and its first element.
LEMMA OneLess ==
  ASSUME NEW V, NEW s \in Seq(V), s # << >>, Distinct(s)
  PROVE  /\ Head(s) \in V /\ Tail(s) \in Seq(V) /\ Distinct(Tail(s))
         /\ Members(s) = {Head(s)} \cup Members(Tail(s)) /\ Head(s) \notin Members(Tail(s))
<1>1. PICK t \in Seq(V), n \in Nat : t = Tail(s) /\ n = Len(t)
  <2>1. Tail(s) \in Seq(V)
    BY HeadTailProperties
  <2>2. Len(Tail(s)) \in Nat
    BY <2>1
  <2> QED  BY <2>1, <2>2
<1>2. Len(s) = n + 1 /\ DOMAIN s = 1..(n + 1) /\ DOMAIN t = 1..n /\ Head(s) = s[1] /\ Head(s) \in V
  BY <1>1, HeadTailProperties
<1>3. \A i \in 1..n : t[i] = s[i + 1] /\ i + 1 \in 1..(n + 1) /\ i + 1 # 1
  BY <1>1, HeadTailProperties
<1>4. \A i \in 1..(n + 1) : i = 1 \/ (i - 1 \in 1..n /\ (i - 1) + 1 = i)
  OBVIOUS
<1>5. \A i \in 1..(n + 1) : i # 1 => s[i] = t[i - 1]
  BY <1>3, <1>4
<1>6. 1 \in 1..(n + 1)
  OBVIOUS
<1>7. Members(s) = {s[1]} \cup Members(t)
  <2>1. \A i \in 1..(n + 1) : s[i] \in {s[1]} \cup Members(t)
    BY <1>2, <1>4, <1>5 DEF Members
  <2>2. \A i \in 1..n : t[i] \in Members(s)
    BY <1>2, <1>3 DEF Members
  <2>3. s[1] \in Members(s)
    BY <1>2, <1>6 DEF Members
  <2> QED  BY <1>2, <2>1, <2>2, <2>3 DEF Members
<1>8. s[1] \notin Members(t)
  BY <1>2, <1>3, <1>6 DEF Members, Distinct
<1>9. Distinct(t)
  <2> SUFFICES ASSUME NEW i \in 1..n, NEW j \in 1..n, t[i] = t[j]  PROVE i = j
    BY <1>2 DEF Distinct
  <2>1. i + 1 = j + 1
    BY <1>2, <1>3 DEF Distinct
  <2> QED  BY <2>1
<1> QED  BY <1>1, <1>2, <1>7, <1>8, <1>9

\* One turn of the loop.
LEMMA EmitKeepsSorting ==
  ASSUME NEW V, NEW edges, Joins(edges, V), NEW s, Sorting(V, edges, s), s.queue # << >>
  PROVE  Sorting(V, edges, Emit(edges, s)) /\ Len(Emit(edges, s).order) = Len(s.order) + 1
<1>1. PICK o \in Seq(V), q \in Seq(V) : o = s.order /\ q = s.queue
  BY DEF Sorting
<1>2. PICK v, rest, f : v = Head(q) /\ rest = Tail(q) /\ f = Freed(edges, Members(o), v)
  OBVIOUS
<1>3. Emit(edges, s) = [order |-> Append(o, v), queue |-> rest \o f]
  BY <1>1, <1>2 DEF Emit
<1>4. /\ Distinct(o) /\ Distinct(q) /\ Members(o) \cap Members(q) = {}
      /\ \A w \in V : ~Waits(edges, Members(o), w) <=> w \in Members(o) \cup Members(q)
      /\ \A k \in DOMAIN o, i \in DOMAIN edges :
           edges[i].dst = o[k] => \E j \in DOMAIN o : j < k /\ o[j] = edges[i].src
  BY <1>1 DEF Sorting
<1>5. /\ v \in V /\ rest \in Seq(V) /\ Distinct(rest)
      /\ Members(q) = {v} \cup Members(rest) /\ v \notin Members(rest)
  BY <1>1, <1>2, <1>4, OneLess
<1>6. /\ f \in Seq(V) /\ Distinct(f)
      /\ Members(f) = {w \in V : /\ ~Waits(edges, Members(o) \cup {v}, w)
                                 /\ \E i \in DOMAIN edges : edges[i].src = v /\ edges[i].dst = w}
  <2>1. PICK done : done = Members(o)
    OBVIOUS
  <2>2. f = Freed(edges, done, v)
    BY <1>2, <2>1
  <2>3. /\ Freed(edges, done, v) \in Seq(V) /\ Distinct(Freed(edges, done, v))
        /\ Members(Freed(edges, done, v)) = Released(V, edges, done, v)
    BY FreedIs
  <2> QED  BY <2>1, <2>2, <2>3 DEF Released
<1>7. v \notin Members(o) /\ ~Waits(edges, Members(o), v)
  BY <1>4, <1>5
<1>8. PICK a \in Seq(V) : a = Append(o, v)
  BY <1>5, AppendProperties
<1>9. /\ Distinct(a) /\ Members(a) = Members(o) \cup {v} /\ DOMAIN a = 1..(Len(o) + 1)
      /\ a[Len(o) + 1] = v /\ \A k \in 1..Len(o) : a[k] = o[k]
  BY <1>4, <1>5, <1>7, <1>8, OneMore
<1>10. Len(o) \in Nat /\ DOMAIN o = 1..Len(o) /\ Len(a) = Len(o) + 1
  BY <1>5, <1>8, AppendProperties
<1>11. \A w \in Members(f) : Waits(edges, Members(o), w)
  BY <1>6, <1>7 DEF Waits
<1>12. Members(f) \cap (Members(o) \cup Members(q)) = {}
  BY <1>4, <1>6, <1>11
<1>13. /\ rest \o f \in Seq(V) /\ Distinct(rest \o f)
       /\ Members(rest \o f) = Members(rest) \cup Members(f)
  <2>1. rest \in Seq(V) /\ f \in Seq(V) /\ Distinct(rest) /\ Distinct(f)
        /\ Members(rest) \cap Members(f) = {}
    BY <1>5, <1>6, <1>12
  <2> QED  BY <2>1, Joining
<1>14. ASSUME NEW w \in V
       PROVE  ~Waits(edges, Members(a), w) <=> w \in Members(a) \cup Members(rest \o f)
  <2>1. CASE ~Waits(edges, Members(o), w)
    <3>1. ~Waits(edges, Members(a), w)
      BY <1>9, <2>1 DEF Waits
    <3>2. w \in Members(o) \cup Members(q)
      BY <1>4, <2>1
    <3> QED  BY <1>5, <1>9, <1>13, <3>1, <3>2
  <2>2. CASE Waits(edges, Members(o), w)
    <3>1. w \notin Members(o) \cup Members(q)
      BY <1>4, <2>2
    <3>2. ~Waits(edges, Members(o) \cup {v}, w)
            => \E i \in DOMAIN edges : edges[i].src = v /\ edges[i].dst = w
      BY <2>2 DEF Waits
    <3>3. ~Waits(edges, Members(o) \cup {v}, w) <=> w \in Members(f)
      BY <1>6, <3>2
    <3> QED  BY <1>5, <1>9, <1>13, <3>1, <3>3
  <2> QED  BY <2>1, <2>2
<1>15. ASSUME NEW k \in DOMAIN a, NEW i \in DOMAIN edges, edges[i].dst = a[k]
       PROVE  \E j \in DOMAIN a : j < k /\ a[j] = edges[i].src
  <2>1. CASE k \in 1..Len(o)
    <3>1. PICK j \in 1..Len(o) : j < k /\ o[j] = edges[i].src
      BY <1>4, <1>9, <1>10, <1>15, <2>1
    <3> QED  BY <1>9, <1>10, <3>1
  <2>2. CASE k = Len(o) + 1
    <3>1. edges[i].src \in Members(o)
      BY <1>7, <1>9, <1>15, <2>2 DEF Waits
    <3>2. PICK j \in 1..Len(o) : o[j] = edges[i].src
      BY <1>10, <3>1 DEF Members
    <3> QED  BY <1>9, <1>10, <2>2, <3>2
  <2> QED  BY <1>9, <1>10, <2>1, <2>2
<1>16. Members(a) \cap Members(rest \o f) = {}
  BY <1>4, <1>5, <1>9, <1>12, <1>13
<1>17. PICK e : e = Emit(edges, s) /\ e = [order |-> a, queue |-> rest \o f]
  BY <1>3, <1>8
<1>18. e.order = a /\ e.queue = rest \o f /\ e \in [order : Seq(V), queue : Seq(V)]
  BY <1>13, <1>17
<1>19. Sorting(V, edges, e)
  <2> SUFFICES
        /\ e \in [order : Seq(V), queue : Seq(V)]
        /\ Distinct(e.order) /\ Distinct(e.queue)
        /\ Members(e.order) \cap Members(e.queue) = {}
        /\ \A w \in V : ~Waits(edges, Members(e.order), w) <=> w \in Members(e.order) \cup Members(e.queue)
        /\ \A k \in DOMAIN e.order, i \in DOMAIN edges :
             edges[i].dst = e.order[k] => \E j \in DOMAIN e.order : j < k /\ e.order[j] = edges[i].src
    BY DEF Sorting
  <2>1. PICK c : c = rest \o f
    OBVIOUS
  <2>2. e.order = a /\ e.queue = c
    BY <1>18, <2>1
  <2>3. e \in [order : Seq(V), queue : Seq(V)] /\ Distinct(e.order) /\ Distinct(e.queue)
        /\ Members(e.order) \cap Members(e.queue) = {}
    BY <1>9, <1>13, <1>16, <1>18, <2>1, <2>2
  <2>4. \A w \in V : ~Waits(edges, Members(e.order), w) <=> w \in Members(e.order) \cup Members(e.queue)
    BY <1>14, <2>1, <2>2
  <2>5. \A k \in DOMAIN e.order, i \in DOMAIN edges :
          edges[i].dst = e.order[k] => \E j \in DOMAIN e.order : j < k /\ e.order[j] = edges[i].src
    BY <1>15, <2>2
  <2> QED  BY <2>3, <2>4, <2>5
<1> QED  BY <1>1, <1>10, <1>17, <1>18, <1>19

\* A list without repetition is no longer than what it lists.
LEMMA DistinctFits ==
  ASSUME NEW V, IsFiniteSet(V), NEW s \in Seq(V), Distinct(s)
  PROVE  Len(s) <= Cardinality(V)
<1>1. PICK n \in Nat : n = Len(s) /\ DOMAIN s = 1..n
  OBVIOUS
<1>2. s \in [1..n -> V]
  BY <1>1
<1>3. s \in Injection(1..n, V)
  BY <1>1, <1>2 DEF Injection, IsInjective, Distinct
<1>4. Cardinality(1..n) <= Cardinality(V)
  BY <1>3, FS_Injection
<1>5. Cardinality(1..n) = n
  BY FS_Interval
<1> QED  BY <1>1, <1>4, <1>5

\* The loop of topo_sort before its first turn.
Unsorted(ids, edges) ==
  [order |-> << >>, queue |-> Those(ids, {v \in Members(ids) : ~Waits(edges, {}, v)})]

LEMMA UnsortedIsSorting ==
  ASSUME NEW V, NEW ids \in Seq(V), Members(ids) = V, Distinct(ids), NEW edges, Joins(edges, V)
  PROVE  Sorting(V, edges, Unsorted(ids, edges)) /\ Len(Unsorted(ids, edges).order) = 0
<1> DEFINE ready == {v \in V : ~Waits(edges, {}, v)}
<1>1. PICK q : q = Those(ids, ready)
  OBVIOUS
<1>2. PICK s : s = Unsorted(ids, edges) /\ s = [order |-> << >>, queue |-> q]
  BY <1>1 DEF Unsorted
<1>3. \A v \in V : v \in ready <=> ~Waits(edges, {}, v)
  OBVIOUS
<1>4. ready \subseteq V
  OBVIOUS
<1> HIDE DEF ready
<1>5. q \in Seq(V) /\ Members(q) = ready
  <2>1. q \in Seq(V \cap ready) /\ Members(q) = Members(ids) \cap ready
    BY <1>1, ThoseIs
  <2> QED  BY <1>4, <2>1
<1>6. Distinct(q)
  BY <1>1, <1>5, ThoseAreThinned, ThinnedIsDistinct
<1>7. << >> \in Seq(V) /\ Members(<< >>) = {} /\ Distinct(<< >>) /\ DOMAIN << >> = {} /\ Len(<< >>) = 0
  BY DEF Members, Distinct
<1>8. PICK o : o = << >>
  OBVIOUS
<1>9. s.order = o /\ s.queue = q /\ s \in [order : Seq(V), queue : Seq(V)]
  BY <1>2, <1>5, <1>7, <1>8
<1>10. Distinct(s.order) /\ Distinct(s.queue) /\ Members(s.order) \cap Members(s.queue) = {}
  BY <1>6, <1>7, <1>8, <1>9
<1>11. \A w \in V : ~Waits(edges, Members(s.order), w) <=> w \in Members(s.order) \cup Members(s.queue)
  BY <1>3, <1>5, <1>7, <1>8, <1>9
<1>12. \A k \in DOMAIN s.order, i \in DOMAIN edges :
         edges[i].dst = s.order[k] => \E j \in DOMAIN s.order : j < k /\ s.order[j] = edges[i].src
  BY <1>7, <1>8, <1>9
<1> QED  BY <1>2, <1>7, <1>8, <1>9, <1>10, <1>11, <1>12 DEF Sorting

\* topo_sort: the loop ends with an empty queue, and the rest follows.
LEMMA TopoSortEnds ==
  ASSUME NEW V, NEW ids \in Seq(V), Members(ids) = V, Distinct(ids), NEW edges, Joins(edges, V)
  PROVE  \E s : /\ Sorting(V, edges, s) /\ s.queue = << >>
                /\ TopoSort(ids, edges) = s.order \o Those(ids, V \ Members(s.order))
<1>1. PICK N \in Nat : N = Len(ids)
  OBVIOUS
<1>2. IsFiniteSet(V) /\ Cardinality(V) <= N /\ Cardinality(V) \in Nat
  BY <1>1, MembersAreFew
<1>3. PICK start : start = Unsorted(ids, edges)
  OBVIOUS
<1>4. Sorting(V, edges, start) /\ Len(start.order) = 0
  BY <1>3, UnsortedIsSorting
<1> DEFINE D == {s \in [order : Seq(V), queue : Seq(V)] : Sorting(V, edges, s)}
           step == [w \in (1..N) \X D |-> Emit(edges, w[2])]
           Run(f) == f = [n \in 0..N |-> IF n = 0 THEN start ELSE Emit(edges, f[n - 1])]
<1>5. \A s \in D : Sorting(V, edges, s)
  OBVIOUS
<1>6. \A s : Sorting(V, edges, s) => s \in D
  BY DEF Sorting
<1> HIDE DEF D
<1>7. \A s \in D : Emit(edges, s) \in D
  <2> SUFFICES ASSUME NEW s \in D  PROVE Emit(edges, s) \in D
    OBVIOUS
  <2>1. CASE s.queue = << >>
    BY <2>1 DEF Emit
  <2>2. CASE s.queue # << >>
    BY <1>5, <1>6, <2>2, EmitKeepsSorting
  <2> QED  BY <2>1, <2>2
<1>8. step \in [(1..N) \X D -> D]
  BY <1>7
<1>9. \A n \in 1..N, s \in D : step[<<n, s>>] = Emit(edges, s)
  OBVIOUS
<1> HIDE DEF step
<1>10. \E f : Run(f)
  <2>1. start \in D
    BY <1>4, <1>6
  <2>2. PICK f \in [0..N -> D] : Rounds(f, N, start, step)
    BY <1>8, <2>1, RoundsExist
  <2>3. \A n \in 0..N : f[n] = IF n = 0 THEN start ELSE step[<<n, f[n - 1]>>]
    BY <2>2 DEF Rounds
  <2>4. \A n \in 0..N : n # 0 => n \in 1..N /\ n - 1 \in 0..N
    OBVIOUS
  <2>5. \A n \in 0..N : n # 0 => step[<<n, f[n - 1]>>] = Emit(edges, f[n - 1])
    BY <1>9, <2>2, <2>4
  <2>6. f = [n \in 0..N |-> IF n = 0 THEN start ELSE Emit(edges, f[n - 1])]
    BY <2>2, <2>3, <2>5
  <2> QED  BY <2>6
<1>11. PICK run : Run(run) /\ TopoSort(ids, edges) = run[N].order \o Those(ids, V \ Members(run[N].order))
  <2> DEFINE run == CHOOSE f : Run(f)
  <2>1. Run(run)
    BY <1>10
  <2>2. TopoSort(ids, edges) = run[N].order \o Those(ids, Members(ids) \ Members(run[N].order))
    BY <1>1, <1>3 DEF TopoSort, Unsorted
  <2> HIDE DEF run, Run
  <2> QED  BY <2>1, <2>2
<1>12. \A n \in 0..N : run[n] = IF n = 0 THEN start ELSE Emit(edges, run[n - 1])
  BY <1>11
<1> DEFINE P == {n \in 0..N : run[n] \in D /\ (run[n].queue # << >> => Len(run[n].order) = n)}
<1>13. 0 \in P
  BY <1>4, <1>6, <1>12
<1>14. ASSUME NEW n \in 1..N, n - 1 \in P  PROVE n \in P
  <2>1. n \in 0..N /\ n # 0 /\ n \in Nat
    BY <1>1
  <2>2. PICK s : s = run[n - 1]
    OBVIOUS
  <2>3. run[n] = Emit(edges, s)
    BY <1>12, <2>1, <2>2
  <2>4. s \in D /\ (s.queue # << >> => Len(s.order) = n - 1)
    BY <1>14, <2>2
  <2>5. CASE s.queue = << >>
    <3>1. run[n] = s
      BY <2>3, <2>5 DEF Emit
    <3> QED  BY <2>1, <2>4, <2>5, <3>1
  <2>6. CASE s.queue # << >>
    <3>1. Sorting(V, edges, Emit(edges, s)) /\ Len(Emit(edges, s).order) = Len(s.order) + 1
      BY <1>5, <2>4, <2>6, EmitKeepsSorting
    <3>2. Len(Emit(edges, s).order) = n
      BY <2>1, <2>4, <2>6, <3>1
    <3> QED  BY <1>6, <2>1, <2>3, <3>1, <3>2
  <2> QED  BY <2>5, <2>6
<1> HIDE DEF P
<1>15. 0..N \subseteq P
  BY <1>13, <1>14, Along
<1>16. N \in P
  BY <1>15
<1>17. PICK s : s = run[N] /\ Sorting(V, edges, s) /\ (s.queue # << >> => Len(s.order) = N)
  BY <1>5, <1>16 DEF P
<1>18. s.queue = << >>
  <2> SUFFICES ASSUME s.queue # << >>  PROVE FALSE
    OBVIOUS
  <2>1. PICK e : e = Emit(edges, s) /\ Sorting(V, edges, e) /\ Len(e.order) = N + 1
    BY <1>17, EmitKeepsSorting
  <2>2. e.order \in Seq(V) /\ Distinct(e.order)
    BY <2>1 DEF Sorting
  <2>3. Len(e.order) <= Cardinality(V)
    BY <1>2, <2>2, DistinctFits
  <2> QED  BY <1>2, <2>1, <2>3
<1> QED  BY <1>11, <1>17, <1>18

\* It lists every node once.
LEMMA TopoSortIs ==
  ASSUME NEW V, NEW ids \in Seq(V), Members(ids) = V, Distinct(ids), NEW edges, Joins(edges, V)
  PROVE  /\ TopoSort(ids, edges) \in Seq(V) /\ Distinct(TopoSort(ids, edges))
         /\ Members(TopoSort(ids, edges)) = V
<1>1. PICK s : /\ Sorting(V, edges, s) /\ s.queue = << >>
               /\ TopoSort(ids, edges) = s.order \o Those(ids, V \ Members(s.order))
  BY TopoSortEnds
<1>2. PICK o \in Seq(V) : o = s.order /\ Distinct(o)
  BY <1>1 DEF Sorting
<1>3. PICK left : left = V \ Members(o)
  OBVIOUS
<1>4. PICK rest : rest = Those(ids, left)
  OBVIOUS
<1>5. rest \in Seq(V \cap left) /\ Members(rest) = V \cap left
  BY <1>4, ThoseIs
<1>6. rest \in Seq(V)
  BY <1>3, <1>5
<1>7. Distinct(rest)
  BY <1>4, <1>6, ThoseAreThinned, ThinnedIsDistinct
<1>8. Members(o) \subseteq V
  BY <1>2 DEF Members
<1>9. Members(o) \cap Members(rest) = {} /\ Members(o) \cup Members(rest) = V
  BY <1>3, <1>5, <1>8
<1>10. TopoSort(ids, edges) = o \o rest
  BY <1>1, <1>2, <1>3, <1>4
<1>11. PICK c : c = o \o rest
  OBVIOUS
<1>12. c \in Seq(V) /\ Members(c) = Members(o) \cup Members(rest)
       /\ (Distinct(o) /\ Distinct(rest) /\ Members(o) \cap Members(rest) = {} => Distinct(c))
  BY <1>6, <1>11, Joining
<1> QED  BY <1>2, <1>7, <1>9, <1>10, <1>11, <1>12

\* U holds what the edges in S lead to from x and from U.
Holds(edges, S, U, x) == \A i \in S : edges[i].src \in U \cup {x} => edges[i].dst \in U

\* The edges in S close no cycle.
Acyclic(edges, S, V) == \A x \in V : \E U \in SUBSET V : Holds(edges, S, U, x) /\ x \notin U

\* Where there is no cycle, some node of any set has no source in it.
LEMMA SomeoneIsFirst ==
  ASSUME NEW V, IsFiniteSet(V), NEW edges, NEW S, Acyclic(edges, S, V),
         \A i \in S : edges[i].src \in V /\ edges[i].dst \in V,
         NEW W, W \subseteq V, W # {}
  PROVE  \E w \in W : \A i \in S : edges[i].dst = w => edges[i].src \notin W
<1> DEFINE R(x) == {y \in V : \A U \in SUBSET V : Holds(edges, S, U, x) => y \in U}
<1>1. ASSUME NEW x \in V  PROVE R(x) \in SUBSET V /\ Holds(edges, S, R(x), x) /\ x \notin R(x)
  <2>1. R(x) \in SUBSET V /\ \A y \in V : y \in R(x) <=> \A U \in SUBSET V : Holds(edges, S, U, x) => y \in U
    OBVIOUS
  <2> HIDE DEF R
  <2>2. x \notin R(x)
    BY <2>1 DEF Acyclic
  <2>3. ASSUME NEW i \in S, edges[i].src \in R(x) \cup {x}
        PROVE  edges[i].dst \in R(x)
    BY <2>1, <2>3 DEF Holds
  <2> QED  BY <2>1, <2>2, <2>3 DEF Holds
<1>2. ASSUME NEW x \in V, NEW U \in SUBSET V, Holds(edges, S, U, x)  PROVE R(x) \subseteq U
  BY <1>2
<1> HIDE DEF R
<1>3. ASSUME NEW i \in S
      PROVE  /\ edges[i].dst \in R(edges[i].src) /\ edges[i].dst \notin R(edges[i].dst)
             /\ R(edges[i].dst) \subseteq R(edges[i].src)
  <2>1. PICK p, x : p = edges[i].src /\ x = edges[i].dst /\ p \in V /\ x \in V
    OBVIOUS
  <2>2. R(p) \in SUBSET V /\ Holds(edges, S, R(p), p)
    BY <1>1, <2>1
  <2>3. x \in R(p)
    BY <2>1, <2>2 DEF Holds
  <2>4. Holds(edges, S, R(p), x)
    BY <2>2, <2>3 DEF Holds
  <2>5. R(x) \subseteq R(p)
    BY <1>2, <2>1, <2>2, <2>4
  <2> QED  BY <1>1, <2>1, <2>3, <2>5
<1> DEFINE N == Cardinality(V)
           Size(x) == N - Cardinality(R(x))
<1>4. N \in Nat
  BY FS_CardinalityType
<1>5. \A x \in V : IsFiniteSet(R(x)) /\ Cardinality(R(x)) \in Nat /\ Cardinality(R(x)) <= N
  BY <1>1, FS_Subset, FS_CardinalityType
<1>6. \A x \in V : Size(x) \in Nat
  BY <1>4, <1>5
<1> DEFINE Sizes == {Size(x) : x \in W}
<1>7. Sizes \subseteq Nat /\ Sizes # {}
  BY <1>6
<1>8. PICK m \in Sizes : \A k \in Sizes : m <= k
  <2> HIDE DEF Sizes
  <2> QED  BY <1>7, LeastNatural
<1>9. PICK w \in W : \A x \in W : Size(w) <= Size(x)
  <2>1. PICK w \in W : m = Size(w)
    OBVIOUS
  <2> QED  BY <1>8, <2>1
<1>10. ASSUME NEW i \in S, edges[i].dst = w, edges[i].src \in W  PROVE FALSE
  <2>1. PICK p : p = edges[i].src /\ p \in W /\ p \in V /\ w \in V
    BY <1>10
  <2>2. R(w) \in SUBSET R(p) /\ R(w) # R(p)
    BY <1>3, <1>10, <2>1
  <2>3. Cardinality(R(w)) <= Cardinality(R(p)) /\ (Cardinality(R(p)) = Cardinality(R(w)) => R(p) = R(w))
    BY <1>5, <2>1, <2>2, FS_Subset
  <2>4. Cardinality(R(w)) < Cardinality(R(p))
    BY <1>5, <2>1, <2>2, <2>3
  <2>5. N - Cardinality(R(w)) <= N - Cardinality(R(p))
    BY <1>9, <2>1
  <2> QED  BY <1>4, <1>5, <2>1, <2>4, <2>5
<1> QED  BY <1>10

\* Where there is no cycle, topo_sort puts every node after what leads to it.
LEMMA TopoSortRunsForward ==
  ASSUME NEW V, NEW ids \in Seq(V), Members(ids) = V, Distinct(ids), NEW edges, Joins(edges, V),
         Acyclic(edges, DOMAIN edges, V), NEW i \in DOMAIN edges
  PROVE  \E j, k \in DOMAIN TopoSort(ids, edges) :
           /\ j < k /\ TopoSort(ids, edges)[j] = edges[i].src /\ TopoSort(ids, edges)[k] = edges[i].dst
<1>1. PICK s : /\ Sorting(V, edges, s) /\ s.queue = << >>
               /\ TopoSort(ids, edges) = s.order \o Those(ids, V \ Members(s.order))
  BY TopoSortEnds
<1>2. PICK o \in Seq(V) : o = s.order
  BY <1>1 DEF Sorting
<1>3. /\ \A w \in V : ~Waits(edges, Members(o), w) <=> w \in Members(o)
      /\ \A k \in DOMAIN o, e \in DOMAIN edges :
           edges[e].dst = o[k] => \E j \in DOMAIN o : j < k /\ o[j] = edges[e].src
  <2>1. Members(<< >>) = {}
    BY DEF Members
  <2> QED  BY <1>1, <1>2, <2>1 DEF Sorting
<1>4. V \subseteq Members(o)
  <2> DEFINE W == V \ Members(o)
  <2> SUFFICES ASSUME W # {}  PROVE FALSE
    OBVIOUS
  <2>1. IsFiniteSet(V)
    BY MembersAreFew
  <2>2. W \subseteq V /\ \A e \in DOMAIN edges : edges[e].src \in V /\ edges[e].dst \in V
    BY DEF Joins
  <2>3. PICK w \in W : \A e \in DOMAIN edges : edges[e].dst = w => edges[e].src \notin W
    <3> HIDE DEF W
    <3> QED  BY <2>1, <2>2, SomeoneIsFirst
  <2>4. \A e \in DOMAIN edges : edges[e].dst = w => edges[e].src \in Members(o)
    BY <2>2, <2>3
  <2>5. ~Waits(edges, Members(o), w)
    BY <2>4 DEF Waits
  <2> QED  BY <1>3, <2>5
<1>5. PICK rest \in Seq(V) : rest = Those(ids, V \ Members(o))
  <2>1. Those(ids, V \ Members(o)) \in Seq(V \cap (V \ Members(o)))
    BY ThoseIs
  <2> QED  BY <2>1
<1>6. PICK c : c = TopoSort(ids, edges) /\ c = o \o rest
  BY <1>1, <1>2, <1>5
<1>7. DOMAIN c = 1..(Len(o) + Len(rest)) /\ \A k \in DOMAIN o : c[k] = o[k]
  BY <1>5, <1>6, Joining
<1>8. DOMAIN o \subseteq DOMAIN c
  BY <1>5, <1>7
<1>9. edges[i].dst \in Members(o)
  BY <1>4 DEF Joins
<1>10. PICK k \in DOMAIN o : o[k] = edges[i].dst
  BY <1>9 DEF Members
<1>11. PICK j \in DOMAIN o : j < k /\ o[j] = edges[i].src
  BY <1>3, <1>10
<1>12. j \in DOMAIN c /\ k \in DOMAIN c /\ j < k /\ c[j] = edges[i].src /\ c[k] = edges[i].dst
  BY <1>7, <1>8, <1>10, <1>11
<1> QED  BY <1>6, <1>12

-----------------------------------------------------------------------------
(* mark_back_edges                                                         *)

LEMMA LeastIs ==
  ASSUME NEW S, S \subseteq Nat, S # {}
  PROVE  Least(S) \in S
<1>1. \E m \in S : \A k \in S : m <= k
  BY LeastNatural
<1> QED  BY <1>1 DEF Least

\* What a graph is.
LEMMA GraphFacts ==
  ASSUME NEW g \in Graphs
  PROVE  /\ g.nodes \in Seq([id : Id, type : DOMAIN Desc]) /\ DOMAIN g.nodes = 1..Len(g.nodes)
         /\ Len(g.nodes) \in Nat
         /\ DOMAIN g.edges = 1..Len(g.edges) /\ Len(g.edges) \in Nat /\ Edges(g) = 1..Len(g.edges)
         /\ Joins(g.edges, Ids(g))
         /\ Ids(g) = {g.nodes[i].id : i \in DOMAIN g.nodes} /\ Ids(g) \subseteq Id
         /\ IdSeq(g) \in Seq(Ids(g)) /\ Members(IdSeq(g)) = Ids(g) /\ Distinct(IdSeq(g))
         /\ IsFiniteSet(Ids(g)) /\ Cardinality(Ids(g)) \in Nat /\ Cardinality(Ids(g)) <= Len(g.nodes)
<1>1. /\ g.nodes \in Seq([id : Id, type : DOMAIN Desc])
      /\ g.edges \in Seq([src : Id, dst : Id, in : Ports])
      /\ \A i, j \in DOMAIN g.nodes : g.nodes[i].id = g.nodes[j].id => i = j
      /\ \A e \in Members(g.edges) : {e.src, e.dst} \subseteq Ids(g)
  BY TickPlanAssumption
<1>2. PICK N \in Nat : N = Len(g.nodes) /\ DOMAIN g.nodes = 1..N
  BY <1>1
<1>3. DOMAIN g.edges = 1..Len(g.edges) /\ Len(g.edges) \in Nat /\ Edges(g) = 1..Len(g.edges)
  BY <1>1 DEF Edges
<1>4. Joins(g.edges, Ids(g))
  BY <1>1, <1>3 DEF Joins, Members
<1>5. Ids(g) = {g.nodes[i].id : i \in 1..N}
  BY <1>2 DEF Ids, Members
<1>6. Ids(g) \subseteq Id
  <2>1. PICK T : T = [id : Id, type : DOMAIN Desc]
    OBVIOUS
  <2>2. \A i \in 1..N : g.nodes[i] \in T
    <3>1. g.nodes \in Seq(T)
      BY <1>1, <2>1
    <3> QED  BY <1>2, <3>1
  <2>3. \A i \in 1..N : g.nodes[i].id \in Id
    BY <2>1, <2>2
  <2> QED  BY <1>5, <2>3
<1>7. PICK ids : ids = IdSeq(g) /\ ids = [i \in 1..N |-> g.nodes[i].id]
  BY <1>2 DEF IdSeq
<1>8. ids \in Seq(Ids(g)) /\ DOMAIN ids = 1..N /\ Len(ids) = N
  <2>1. \A i \in 1..N : g.nodes[i].id \in Ids(g)
    BY <1>5
  <2>2. ids \in [1..N -> Ids(g)]
    BY <1>7, <2>1
  <2> QED  BY <2>2
<1>9. Members(ids) = Ids(g)
  BY <1>5, <1>7, <1>8 DEF Members
<1>10. Distinct(ids)
  BY <1>1, <1>2, <1>7, <1>8 DEF Distinct
<1>11. IsFiniteSet(Ids(g)) /\ Cardinality(Ids(g)) \in Nat /\ Cardinality(Ids(g)) <= N
  BY <1>8, <1>9, MembersAreFew
<1> QED  BY <1>1, <1>2, <1>3, <1>4, <1>5, <1>6, <1>7, <1>8, <1>9, <1>10, <1>11

\* Half-way: new nodes n, stack t, edges left l, back edges b.
Done(g, n, t) == Ids(g) \ (n \cup Members(t))

\* Each stacked node but the last leads to the next.
ChainOf(g, t) ==
  \A k \in DOMAIN t : k + 1 \in DOMAIN t =>
    \E i \in Edges(g) : g.edges[i].src = t[k] /\ g.edges[i].dst = t[k + 1]

\* From new nodes no edge has been looked at, from nodes done all have; what has
\* been looked at leads back, to a node done, or along the stack.
Looked(g, n, t, l, b) ==
  \A i \in Edges(g) :
    /\ g.edges[i].src \in n => i \in l
    /\ i \in b => i \notin l
    /\ g.edges[i].src \in Done(g, n, t) => i \notin l /\ (i \in b \/ g.edges[i].dst \in Done(g, n, t))
    /\ \A k \in DOMAIN t :
         g.edges[i].src = t[k] /\ i \notin l /\ i \notin b =>
           g.edges[i].dst \in Done(g, n, t) \/ (k + 1 \in DOMAIN t /\ g.edges[i].dst = t[k + 1])

\* No cycle of edges that are not back edges is done.
NoCycle(g, n, t, b) ==
  \A x \in Done(g, n, t) : \E U \in SUBSET Done(g, n, t) :
    Holds(g.edges, Edges(g) \ b, U, x) /\ x \notin U

\* A back edge closes a cycle.
Closes(g, i) ==
  \/ g.edges[i].dst = g.edges[i].src
  \/ \A U \in SUBSET Ids(g) : Holds(g.edges, Edges(g), U, g.edges[i].dst) => g.edges[i].src \in U

Searching(g, n, t, l, b) ==
  /\ n \in SUBSET Ids(g) /\ t \in Seq(Ids(g)) /\ l \in SUBSET Edges(g) /\ b \in SUBSET Edges(g)
  /\ Distinct(t) /\ Members(t) \cap n = {}
  /\ ChainOf(g, t) /\ Looked(g, n, t, l, b) /\ NoCycle(g, n, t, b)
  /\ \A i \in b : Closes(g, i)

\* A new node goes on the stack: a root, or the next along an edge.
LEMMA EnterKeeps ==
  ASSUME NEW g \in Graphs, NEW n, NEW t, NEW l, NEW b, Searching(g, n, t, l, b),
         NEW x \in n, NEW k,
         \/ t = << >> /\ k = l
         \/ \E i \in l : /\ t # << >> /\ g.edges[i].src = t[Len(t)] /\ g.edges[i].dst = x
                         /\ k = l \ {i}
  PROVE  Searching(g, n \ {x}, Append(t, x), k, b)
<1>1. PICK L \in Nat : L = Len(t) /\ DOMAIN t = 1..L
  BY DEF Searching
<1>2. PICK u : u = Append(t, x)
  OBVIOUS
<1>3. /\ n \in SUBSET Ids(g) /\ t \in Seq(Ids(g)) /\ l \in SUBSET Edges(g) /\ b \in SUBSET Edges(g)
      /\ Distinct(t) /\ Members(t) \cap n = {} /\ \A i \in b : Closes(g, i)
  BY DEF Searching
<1>4. /\ u \in Seq(Ids(g)) /\ Distinct(u) /\ Members(u) = Members(t) \cup {x}
      /\ DOMAIN u = 1..(L + 1) /\ u[L + 1] = x /\ \A j \in 1..L : u[j] = t[j]
  BY <1>1, <1>2, <1>3, OneMore
<1>5. Done(g, n \ {x}, u) = Done(g, n, t)
  BY <1>4 DEF Done
<1>6. k \in SUBSET Edges(g) /\ k \subseteq l
  BY <1>3
<1>7. \A j \in 1..(L + 1) : j = L + 1 \/ j \in 1..L
  OBVIOUS
<1>8. \A i \in l \ k : L \in 1..L /\ g.edges[i].src = t[L] /\ g.edges[i].dst = x
  <2>1. t # << >> => L \in 1..L
    BY <1>1, <1>3
  <2> QED  BY <1>1, <2>1
<1>9. L = 0 \/ (L \in 1..L /\ \E i \in Edges(g) : g.edges[i].src = t[L] /\ g.edges[i].dst = x)
  BY <1>1, <1>3
<1>10. ChainOf(g, u)
  <2> SUFFICES ASSUME NEW j \in 1..(L + 1), j + 1 \in 1..(L + 1)
               PROVE  \E i \in Edges(g) : g.edges[i].src = u[j] /\ g.edges[i].dst = u[j + 1]
    BY <1>4 DEF ChainOf
  <2>1. j \in 1..L /\ (j + 1 = L + 1 \/ j + 1 \in 1..L)
    OBVIOUS
  <2>2. CASE j + 1 \in 1..L
    <3>1. ChainOf(g, t)
      BY DEF Searching
    <3> QED  BY <1>1, <1>4, <2>1, <2>2, <3>1 DEF ChainOf
  <2>3. CASE j + 1 = L + 1
    <3>1. j = L /\ L # 0
      BY <2>1, <2>3
    <3> QED  BY <1>4, <1>9, <2>1, <2>3, <3>1
  <2> QED  BY <2>1, <2>2, <2>3
<1>11. Looked(g, n, t, l, b)
  BY DEF Searching
<1>12. Looked(g, n \ {x}, u, k, b)
  <2> SUFFICES ASSUME NEW i \in Edges(g)
               PROVE  /\ g.edges[i].src \in n \ {x} => i \in k
                      /\ i \in b => i \notin k
                      /\ g.edges[i].src \in Done(g, n, t)
                           => i \notin k /\ (i \in b \/ g.edges[i].dst \in Done(g, n, t))
                      /\ \A j \in 1..(L + 1) :
                           g.edges[i].src = u[j] /\ i \notin k /\ i \notin b =>
                             g.edges[i].dst \in Done(g, n, t)
                             \/ (j + 1 \in 1..(L + 1) /\ g.edges[i].dst = u[j + 1])
    BY <1>4, <1>5 DEF Looked
  <2>1. /\ g.edges[i].src \in n => i \in l
        /\ i \in b => i \notin l
        /\ g.edges[i].src \in Done(g, n, t)
             => i \notin l /\ (i \in b \/ g.edges[i].dst \in Done(g, n, t))
    BY <1>11 DEF Looked
  <2>2. g.edges[i].src \in n \ {x} => i \in k
    <3>1. i \in l \ k => g.edges[i].src \in Members(t)
      BY <1>1, <1>8 DEF Members
    <3> QED  BY <1>3, <2>1, <3>1
  <2>3. ASSUME NEW j \in 1..(L + 1), g.edges[i].src = u[j], i \notin k, i \notin b
        PROVE  g.edges[i].dst \in Done(g, n, t) \/ (j + 1 \in 1..(L + 1) /\ g.edges[i].dst = u[j + 1])
    <3>1. CASE j = L + 1
      <4>1. i \in l
        BY <1>4, <2>1, <2>3, <3>1
      <4>2. t[L] = x /\ L \in 1..L
        BY <1>4, <1>8, <2>3, <3>1, <4>1
      <4>3. x \in Members(t)
        BY <1>1, <4>2 DEF Members
      <4> QED  BY <1>3, <4>3
    <3>2. CASE j \in 1..L /\ i \notin l
      <4>1. g.edges[i].dst \in Done(g, n, t) \/ (j + 1 \in 1..L /\ g.edges[i].dst = t[j + 1])
        BY <1>1, <1>4, <1>11, <2>3, <3>2 DEF Looked
      <4> QED  BY <1>4, <4>1
    <3>3. CASE j \in 1..L /\ i \in l
      <4>1. L \in 1..L /\ t[L] = t[j] /\ g.edges[i].dst = x
        BY <1>4, <1>8, <2>3, <3>3
      <4>2. j = L
        BY <1>1, <1>3, <3>3, <4>1 DEF Distinct
      <4> QED  BY <1>4, <4>1, <4>2
    <3> QED  BY <1>7, <3>1, <3>2, <3>3
  <2> QED  BY <1>6, <2>1, <2>2, <2>3
<1>13. NoCycle(g, n \ {x}, u, b)
  <2>1. NoCycle(g, n, t, b)
    BY DEF Searching
  <2> QED  BY <1>5, <2>1 DEF NoCycle
<1>14. Members(u) \cap (n \ {x}) = {} /\ n \ {x} \in SUBSET Ids(g)
  BY <1>3, <1>4
<1>15. Searching(g, n \ {x}, u, k, b)
  BY <1>3, <1>4, <1>6, <1>10, <1>12, <1>13, <1>14 DEF Searching
<1> QED  BY <1>2, <1>15

\* The last of a list and the rest.
LEMMA OffTheTop ==
  ASSUME NEW V, NEW t \in Seq(V), t # << >>, Distinct(t)
  PROVE  LET u == SubSeq(t, 1, Len(t) - 1)
         IN  /\ u \in Seq(V) /\ Distinct(u) /\ DOMAIN u = 1..(Len(t) - 1)
             /\ Len(t) \in 1..Len(t) /\ t[Len(t)] \notin Members(u)
             /\ Members(t) = Members(u) \cup {t[Len(t)]}
             /\ \A k \in DOMAIN u : k \in DOMAIN t /\ u[k] = t[k]
<1>1. PICK L \in Nat : L = Len(t) /\ DOMAIN t = 1..L /\ L # 0
  OBVIOUS
<1>2. PICK u : u = SubSeq(t, 1, L - 1)
  OBVIOUS
<1>3. \A k \in 1..(L - 1) : k \in 1..L /\ t[k] \in V /\ k # L
  BY <1>1
<1>4. /\ u \in Seq(V) /\ Len(u) = L - 1 /\ DOMAIN u = 1..(L - 1)
      /\ \A k \in 1..(L - 1) : u[k] = t[k]
  <2>1. u \in [1..(L - 1) -> V] /\ u = [k \in 1..(L - 1) |-> t[k]]
    <3>1. u = [k \in 1..(1 + (L - 1) - 1) |-> t[1 + k - 1]]
      BY <1>2
    <3>2. 1 + (L - 1) - 1 = L - 1 /\ \A k \in 1..(L - 1) : 1 + k - 1 = k
      BY <1>1
    <3> QED  BY <1>3, <3>1, <3>2
  <2>2. L - 1 \in Nat
    BY <1>1
  <2> QED  BY <2>1, <2>2
<1>5. Len(u) = L - 1 /\ DOMAIN u = 1..(L - 1)
  BY <1>4
<1>6. \A k \in 1..(L - 1) : u[k] = t[k]
  BY <1>4
<1>7. Distinct(u)
  BY <1>1, <1>3, <1>5, <1>6 DEF Distinct
<1>8. L \in 1..L /\ \A k \in 1..L : k = L \/ k \in 1..(L - 1)
  BY <1>1
<1>9. t[L] \notin Members(u)
  BY <1>1, <1>3, <1>5, <1>6, <1>8 DEF Distinct, Members
<1>10. Members(t) = Members(u) \cup {t[L]}
  <2>1. \A k \in 1..L : t[k] \in Members(u) \cup {t[L]}
    BY <1>5, <1>6, <1>8 DEF Members
  <2>2. \A k \in 1..(L - 1) : u[k] \in Members(t)
    BY <1>1, <1>3, <1>6 DEF Members
  <2>3. t[L] \in Members(t)
    BY <1>1, <1>8 DEF Members
  <2> QED  BY <1>1, <1>5, <2>1, <2>2, <2>3 DEF Members
<1> QED  BY <1>1, <1>2, <1>3, <1>4, <1>5, <1>6, <1>7, <1>8, <1>9, <1>10

\* A node without a next edge leaves the stack and is done.
LEMMA LeaveKeeps ==
  ASSUME NEW g \in Graphs, NEW n, NEW t, NEW l, NEW b, Searching(g, n, t, l, b), t # << >>,
         \A i \in l : g.edges[i].src # t[Len(t)]
  PROVE  Searching(g, n, SubSeq(t, 1, Len(t) - 1), l, b)
<1>1. /\ n \in SUBSET Ids(g) /\ t \in Seq(Ids(g)) /\ l \in SUBSET Edges(g) /\ b \in SUBSET Edges(g)
      /\ Distinct(t) /\ Members(t) \cap n = {} /\ \A i \in b : Closes(g, i)
      /\ ChainOf(g, t) /\ Looked(g, n, t, l, b) /\ NoCycle(g, n, t, b)
  BY DEF Searching
<1>2. PICK L \in Nat : L = Len(t) /\ DOMAIN t = 1..L
  BY <1>1
<1> DEFINE x == t[L]
           u == SubSeq(t, 1, L - 1)
<1>3. /\ u \in Seq(Ids(g)) /\ Distinct(u) /\ DOMAIN u = 1..(L - 1)
      /\ L \in 1..L /\ x \notin Members(u) /\ Members(t) = Members(u) \cup {x}
      /\ \A k \in 1..(L - 1) : k \in 1..L /\ u[k] = t[k]
  BY <1>1, <1>2, OffTheTop
<1>3a. x = t[Len(t)] /\ x = t[L] /\ u = SubSeq(t, 1, Len(t) - 1)
  BY <1>2
<1> HIDE DEF x, u
<1>4. x \in Members(t) /\ x \in Ids(g) /\ x \notin n
  BY <1>1, <1>2, <1>3, <1>3a
<1>5. Done(g, n, u) = Done(g, n, t) \cup {x} /\ x \notin Done(g, n, t)
  BY <1>3, <1>4 DEF Done
<1>6. ChainOf(g, u)
  BY <1>1, <1>2, <1>3 DEF ChainOf
<1>7. \A i \in Edges(g) : g.edges[i].src = x => i \notin l /\ (i \in b \/ g.edges[i].dst \in Done(g, n, t))
  <2> SUFFICES ASSUME NEW i \in Edges(g), g.edges[i].src = x, i \notin b
               PROVE  i \notin l /\ g.edges[i].dst \in Done(g, n, t)
    BY <1>3a
  <2>1. i \notin l
    BY <1>3a
  <2>2. g.edges[i].dst \in Done(g, n, t) \/ L + 1 \in 1..L
    BY <1>1, <1>2, <1>3, <1>3a, <2>1 DEF Looked
  <2> QED  BY <2>1, <2>2
<1>8. Looked(g, n, u, l, b)
  <2> SUFFICES ASSUME NEW i \in Edges(g)
               PROVE  /\ g.edges[i].src \in n => i \in l
                      /\ i \in b => i \notin l
                      /\ g.edges[i].src \in Done(g, n, u)
                           => i \notin l /\ (i \in b \/ g.edges[i].dst \in Done(g, n, u))
                      /\ \A k \in 1..(L - 1) :
                           g.edges[i].src = u[k] /\ i \notin l /\ i \notin b =>
                             g.edges[i].dst \in Done(g, n, u)
                             \/ (k + 1 \in 1..(L - 1) /\ g.edges[i].dst = u[k + 1])
    BY <1>3 DEF Looked
  <2>1. /\ g.edges[i].src \in n => i \in l
        /\ i \in b => i \notin l
        /\ g.edges[i].src \in Done(g, n, t)
             => i \notin l /\ (i \in b \/ g.edges[i].dst \in Done(g, n, t))
    BY <1>1 DEF Looked
  <2>2. ASSUME NEW k \in 1..(L - 1), g.edges[i].src = u[k], i \notin l, i \notin b
        PROVE  g.edges[i].dst \in Done(g, n, u) \/ (k + 1 \in 1..(L - 1) /\ g.edges[i].dst = u[k + 1])
    <3>1. g.edges[i].dst \in Done(g, n, t) \/ (k + 1 \in 1..L /\ g.edges[i].dst = t[k + 1])
      BY <1>1, <1>2, <1>3, <2>2 DEF Looked
    <3>2. k + 1 = L \/ k + 1 \in 1..(L - 1)
      OBVIOUS
    <3> QED  BY <1>3, <1>5, <1>3a, <3>1, <3>2
  <2> QED  BY <1>5, <1>7, <2>1, <2>2
<1>9. NoCycle(g, n, u, b)
  <2> SUFFICES ASSUME NEW y \in Done(g, n, u)
               PROVE  \E U \in SUBSET Done(g, n, u) : Holds(g.edges, Edges(g) \ b, U, y) /\ y \notin U
    BY DEF NoCycle
  <2>1. CASE y \in Done(g, n, t)
    BY <1>1, <1>5, <2>1 DEF NoCycle
  <2>2. CASE y = x
    <3>1. PICK U : U = Done(g, n, t)
      OBVIOUS
    <3>2. \A i \in Edges(g) \ b : g.edges[i].src \in U \cup {x} => g.edges[i].dst \in U
      BY <1>1, <1>7, <3>1 DEF Looked
    <3> QED  BY <1>5, <2>2, <3>1, <3>2 DEF Holds
  <2> QED  BY <1>5, <2>1, <2>2
<1>10. Members(u) \cap n = {}
  BY <1>1, <1>3
<1>11. Searching(g, n, u, l, b)
  BY <1>1, <1>3, <1>6, <1>8, <1>9, <1>10 DEF Searching
<1> QED  BY <1>11, <1>3a

\* What the stack holds above a node is reached from it.
LEMMA StackIsReached ==
  ASSUME NEW g \in Graphs, NEW t \in Seq(Ids(g)), ChainOf(g, t), NEW k \in DOMAIN t,
         NEW U, Holds(g.edges, Edges(g), U, t[k]), NEW m \in DOMAIN t, k < m
  PROVE  t[m] \in U
<1>1. PICK L \in Nat : L = Len(t) /\ DOMAIN t = 1..L
  OBVIOUS
<1> DEFINE P == {j \in 0..(m - k) : j = 0 \/ t[k + j] \in U}
<1>2. m - k \in Nat /\ k \in Nat /\ m \in Nat /\ m <= L
  BY <1>1
<1>3. 0 \in P
  BY <1>2
<1>4. ASSUME NEW j \in 1..(m - k), j - 1 \in P  PROVE j \in P
  <2>1. j \in 0..(m - k) /\ k + (j - 1) \in 1..L /\ k + j \in 1..L /\ (k + (j - 1)) + 1 = k + j
        /\ (j = 1 => k + (j - 1) = k)
    BY <1>1, <1>2
  <2>2. PICK c : c = k + (j - 1) /\ c \in 1..L /\ c + 1 = k + j
    BY <2>1
  <2>3. PICK i \in Edges(g) : g.edges[i].src = t[c] /\ g.edges[i].dst = t[k + j]
    BY <1>1, <2>1, <2>2 DEF ChainOf
  <2>4. t[c] \in U \cup {t[k]}
    BY <1>4, <2>1, <2>2
  <2>5. t[k + j] \in U
    BY <2>3, <2>4 DEF Holds
  <2> QED  BY <2>1, <2>5
<1> HIDE DEF P
<1>5. 0..(m - k) \subseteq P
  BY <1>2, <1>3, <1>4, Along
<1>6. m - k \in P
  BY <1>2, <1>5
<1>7. m - k # 0 /\ k + (m - k) = m
  BY <1>2
<1> QED  BY <1>6, <1>7 DEF P

\* An edge is looked at that leads back to the stack, or to a node done.
LEMMA LookKeeps ==
  ASSUME NEW g \in Graphs, NEW n, NEW t, NEW l, NEW b, Searching(g, n, t, l, b), t # << >>,
         NEW i \in l, g.edges[i].src = t[Len(t)], NEW c,
         \/ g.edges[i].dst \in Members(t) /\ c = b \cup {i}
         \/ g.edges[i].dst \in Done(g, n, t) /\ c = b
  PROVE  Searching(g, n, t, l \ {i}, c)
<1>1. /\ n \in SUBSET Ids(g) /\ t \in Seq(Ids(g)) /\ l \in SUBSET Edges(g) /\ b \in SUBSET Edges(g)
      /\ Distinct(t) /\ Members(t) \cap n = {} /\ \A j \in b : Closes(g, j)
      /\ ChainOf(g, t) /\ Looked(g, n, t, l, b) /\ NoCycle(g, n, t, b)
  BY DEF Searching
<1>2. PICK L \in Nat : L = Len(t) /\ DOMAIN t = 1..L /\ L \in 1..L
  BY <1>1
<1>3. t[L] \in Members(t) /\ t[L] \notin n /\ t[L] \notin Done(g, n, t)
  BY <1>1, <1>2 DEF Done, Members
<1>4. c \in SUBSET Edges(g) /\ b \subseteq c /\ c \subseteq b \cup {i}
  BY <1>1
<1>5. \A j \in c : Closes(g, j)
  <2> SUFFICES ASSUME g.edges[i].dst \in Members(t), g.edges[i].dst # g.edges[i].src,
                      NEW U \in SUBSET Ids(g), Holds(g.edges, Edges(g), U, g.edges[i].dst)
               PROVE  g.edges[i].src \in U
    BY <1>1, <1>4 DEF Closes
  <2>1. PICK k \in 1..L : t[k] = g.edges[i].dst
    BY <1>2 DEF Members
  <2>2. k < L
    BY <1>2, <2>1
  <2>3. t[L] \in U
    BY <1>1, <1>2, <2>1, <2>2, StackIsReached
  <2> QED  BY <1>2, <2>3
<1>6. Looked(g, n, t, l \ {i}, c)
  <2> SUFFICES ASSUME NEW e \in Edges(g)
               PROVE  /\ g.edges[e].src \in n => e \in l \ {i}
                      /\ e \in c => e \notin l \ {i}
                      /\ g.edges[e].src \in Done(g, n, t)
                           => e \notin l \ {i} /\ (e \in c \/ g.edges[e].dst \in Done(g, n, t))
                      /\ \A k \in 1..L :
                           g.edges[e].src = t[k] /\ e \notin l \ {i} /\ e \notin c =>
                             g.edges[e].dst \in Done(g, n, t)
                             \/ (k + 1 \in 1..L /\ g.edges[e].dst = t[k + 1])
    BY <1>2 DEF Looked
  <2>1. /\ g.edges[e].src \in n => e \in l
        /\ e \in b => e \notin l
        /\ g.edges[e].src \in Done(g, n, t)
             => e \notin l /\ (e \in b \/ g.edges[e].dst \in Done(g, n, t))
        /\ \A k \in 1..L :
             g.edges[e].src = t[k] /\ e \notin l /\ e \notin b =>
               g.edges[e].dst \in Done(g, n, t) \/ (k + 1 \in 1..L /\ g.edges[e].dst = t[k + 1])
    BY <1>1, <1>2 DEF Looked
  <2>2. CASE e = i
    BY <1>2, <1>3, <2>1, <2>2
  <2>3. CASE e # i
    BY <1>4, <2>1, <2>3
  <2> QED  BY <2>2, <2>3
<1>7. NoCycle(g, n, t, c)
  <2> SUFFICES ASSUME NEW y \in Done(g, n, t)
               PROVE  \E U \in SUBSET Done(g, n, t) : Holds(g.edges, Edges(g) \ c, U, y) /\ y \notin U
    BY DEF NoCycle
  <2>1. PICK U \in SUBSET Done(g, n, t) : Holds(g.edges, Edges(g) \ b, U, y) /\ y \notin U
    BY <1>1 DEF NoCycle
  <2>2. Holds(g.edges, Edges(g) \ c, U, y)
    BY <1>4, <2>1 DEF Holds
  <2> QED  BY <2>1, <2>2
<1> QED  BY <1>1, <1>4, <1>5, <1>6, <1>7 DEF Searching

\* The states of the search.
SearchStates(g) ==
  {s \in [new : SUBSET Ids(g), stack : Seq(Ids(g)), left : SUBSET Edges(g), back : SUBSET Edges(g)] :
     Searching(g, s.new, s.stack, s.left, s.back)}
StateOf(n, t, l, b) == [new |-> n, stack |-> t, left |-> l, back |-> b]
Weight(s) == 2 * Cardinality(s.new) + Len(s.stack) + Cardinality(s.left)

LEMMA StateIs ==
  ASSUME NEW g, NEW n, NEW t, NEW l, NEW b, Searching(g, n, t, l, b)
  PROVE  StateOf(n, t, l, b) \in SearchStates(g)
<1>1. n \in SUBSET Ids(g) /\ t \in Seq(Ids(g)) /\ l \in SUBSET Edges(g) /\ b \in SUBSET Edges(g)
  BY DEF Searching
<1> DEFINE s == StateOf(n, t, l, b)
<1>2. s.new = n /\ s.stack = t /\ s.left = l /\ s.back = b
  BY DEF StateOf
<1>3. PICK N, T, E : N = SUBSET Ids(g) /\ T = Seq(Ids(g)) /\ E = SUBSET Edges(g)
  OBVIOUS
<1>4. s \in [new : N, stack : T, left : E, back : E]
  BY <1>1, <1>3 DEF StateOf
<1>5. s \in [new : SUBSET Ids(g), stack : Seq(Ids(g)), left : SUBSET Edges(g), back : SUBSET Edges(g)]
  BY <1>3, <1>4
<1> HIDE DEF s
<1> QED  BY <1>2, <1>5 DEF SearchStates, s

\* Every turn but those after the end keeps the search going and comes nearer to it.
LEMMA SearchKeeps ==
  ASSUME NEW g \in Graphs, NEW s \in SearchStates(g)
  PROVE  /\ Search(g, s) \in SearchStates(g)
         /\ Weight(s) \in Nat /\ Weight(Search(g, s)) \in Nat
         /\ \/ s.stack = << >> /\ s.new = {} /\ Search(g, s) = s
            \/ Weight(Search(g, s)) <= Weight(s) - 1
<1>1. PICK n, t, l, b : s = StateOf(n, t, l, b) /\ Searching(g, n, t, l, b)
  <2>1. s = [new |-> s.new, stack |-> s.stack, left |-> s.left, back |-> s.back]
        /\ Searching(g, s.new, s.stack, s.left, s.back)
    BY DEF SearchStates
  <2> QED  BY <2>1 DEF StateOf
<1>2. /\ n \in SUBSET Ids(g) /\ t \in Seq(Ids(g)) /\ l \in SUBSET Edges(g) /\ b \in SUBSET Edges(g)
      /\ Distinct(t) /\ Len(t) \in Nat /\ DOMAIN t = 1..Len(t)
  BY <1>1 DEF Searching
<1>3. s.new = n /\ s.stack = t /\ s.left = l /\ s.back = b
  BY <1>1 DEF StateOf
<1>4. /\ IsFiniteSet(n) /\ Cardinality(n) \in Nat
      /\ \A x \in n : Cardinality(n \ {x}) = Cardinality(n) - 1 /\ Cardinality(n) - 1 \in Nat
  <2>1. IsFiniteSet(n) /\ Cardinality(n) \in Nat
    BY <1>2, GraphFacts, FS_Subset, FS_CardinalityType
  <2>2. ASSUME NEW x \in n  PROVE Cardinality(n \ {x}) = Cardinality(n) - 1 /\ Cardinality(n) - 1 \in Nat
    <3>1. IsFiniteSet(n \ {x}) /\ Cardinality(n \ {x}) = Cardinality(n) - 1
      BY <2>1, FS_RemoveElement
    <3>2. Cardinality(n \ {x}) \in Nat
      BY <3>1, FS_CardinalityType
    <3> QED  BY <3>1, <3>2
  <2> QED  BY <2>1, <2>2
<1>5. /\ IsFiniteSet(l) /\ Cardinality(l) \in Nat /\ l \subseteq Nat
      /\ \A x \in l : Cardinality(l \ {x}) = Cardinality(l) - 1 /\ Cardinality(l) - 1 \in Nat
  <2>1. Edges(g) = 1..Len(g.edges) /\ Len(g.edges) \in Nat /\ IsFiniteSet(Edges(g))
    <3>1. PICK E \in Nat : E = Len(g.edges) /\ Edges(g) = 1..E
      BY GraphFacts
    <3>2. IsFiniteSet(1..E)
      BY FS_Interval
    <3> QED  BY <3>1, <3>2
  <2>2. IsFiniteSet(l) /\ Cardinality(l) \in Nat /\ l \subseteq Nat
    BY <1>2, <2>1, FS_Subset, FS_CardinalityType
  <2>3. ASSUME NEW x \in l  PROVE Cardinality(l \ {x}) = Cardinality(l) - 1 /\ Cardinality(l) - 1 \in Nat
    <3>1. IsFiniteSet(l \ {x}) /\ Cardinality(l \ {x}) = Cardinality(l) - 1
      BY <2>2, FS_RemoveElement
    <3>2. Cardinality(l \ {x}) \in Nat
      BY <3>1, FS_CardinalityType
    <3> QED  BY <3>1, <3>2
  <2> QED  BY <2>2, <2>3
<1>6. ASSUME NEW m, NEW u, NEW k, NEW c, Search(g, s) = StateOf(m, u, k, c), Searching(g, m, u, k, c),
             \/ m = n /\ k = l /\ Len(u) = Len(t) - 1
             \/ (\E x \in n : m = n \ {x}) /\ k = l /\ Len(u) = Len(t) + 1
             \/ (\E x \in n : m = n \ {x}) /\ (\E i \in l : k = l \ {i}) /\ Len(u) = Len(t) + 1
             \/ m = n /\ (\E i \in l : k = l \ {i}) /\ Len(u) = Len(t)
      PROVE  /\ Search(g, s) \in SearchStates(g) /\ Weight(s) \in Nat
             /\ Weight(Search(g, s)) \in Nat /\ Weight(Search(g, s)) <= Weight(s) - 1
  <2>1. Search(g, s) \in SearchStates(g)
    BY <1>6, StateIs
  <2>2. u \in Seq(Ids(g)) /\ Len(u) \in Nat
    BY <1>6 DEF Searching
  <2>3. PICK cn \in Nat, ct \in Nat, cl \in Nat :
          cn = Cardinality(n) /\ ct = Len(t) /\ cl = Cardinality(l)
    BY <1>2, <1>4, <1>5
  <2>4. PICK cm \in Nat, cu \in Nat, ck \in Nat :
          /\ cm = Cardinality(m) /\ cu = Len(u) /\ ck = Cardinality(k)
          /\ \/ cm = cn /\ ck = cl /\ cu = ct - 1
             \/ cm = cn - 1 /\ ck = cl /\ cu = ct + 1
             \/ cm = cn - 1 /\ ck = cl - 1 /\ cu = ct + 1
             \/ cm = cn /\ ck = cl - 1 /\ cu = ct
    <3>1. m = n \/ \E x \in n : m = n \ {x}
      BY <1>6
    <3>2. k = l \/ \E i \in l : k = l \ {i}
      BY <1>6
    <3>3. Cardinality(m) \in Nat /\ Cardinality(k) \in Nat
      BY <1>4, <1>5, <3>1, <3>2
    <3> QED  BY <1>4, <1>5, <1>6, <2>2, <2>3, <3>3
  <2>5. Weight(s) = 2 * cn + ct + cl
    BY <1>3, <2>3 DEF Weight
  <2>6. Weight(Search(g, s)) = 2 * cm + cu + ck
    <3>1. PICK r : r = Search(g, s) /\ r.new = m /\ r.stack = u /\ r.left = k
      BY <1>6 DEF StateOf
    <3> QED  BY <2>4, <3>1 DEF Weight
  <2>7. 2 * cn + ct + cl \in Nat /\ 2 * cm + cu + ck \in Nat
    OBVIOUS
  <2>8. 2 * cm + cu + ck <= (2 * cn + ct + cl) - 1
    <3>1. CASE cm = cn /\ ck = cl /\ cu = ct - 1
      BY <3>1
    <3>2. CASE cm = cn - 1 /\ ck = cl /\ cu = ct + 1
      BY <3>2
    <3>3. CASE cm = cn - 1 /\ ck = cl - 1 /\ cu = ct + 1
      BY <3>3
    <3>4. CASE cm = cn /\ ck = cl - 1 /\ cu = ct
      BY <3>4
    <3> QED  BY <2>4, <3>1, <3>2, <3>3, <3>4
  <2> QED  BY <2>1, <2>5, <2>6, <2>7, <2>8
<1>6a. PICK along, e, to, root :
         /\ along = {i \in l : g.edges[i].src = t[Len(t)]}
         /\ e = Least(along)
         /\ to = g.edges[e].dst
         /\ root = g.nodes[Least({i \in DOMAIN g.nodes : g.nodes[i].id \in n})].id
  OBVIOUS
<1>7. /\ t = << >> /\ n = {} => Search(g, s) = s
      /\ t = << >> /\ n # {} => Search(g, s) = StateOf(n \ {root}, Append(t, root), l, b)
      /\ t # << >> /\ along = {} => Search(g, s) = StateOf(n, SubSeq(t, 1, Len(t) - 1), l, b)
      /\ t # << >> /\ along # {} /\ to \in Members(t)
           => Search(g, s) = StateOf(n, t, l \ {e}, b \cup {e})
      /\ t # << >> /\ along # {} /\ to \notin Members(t) /\ to \in n
           => Search(g, s) = StateOf(n \ {to}, Append(t, to), l \ {e}, b)
      /\ t # << >> /\ along # {} /\ to \notin Members(t) /\ to \notin n
           => Search(g, s) = StateOf(n, t, l \ {e}, b)
  BY <1>1, <1>6a DEF Search, StateOf
<1>8. n # {} => root \in n
  <2> DEFINE places == {i \in DOMAIN g.nodes : g.nodes[i].id \in n}
  <2>1. PICK N \in Nat : DOMAIN g.nodes = 1..N
    BY GraphFacts
  <2>1a. n \subseteq {g.nodes[i].id : i \in DOMAIN g.nodes}
    BY <1>2, GraphFacts
  <2>1b. places \subseteq Nat /\ (n # {} => places # {})
    BY <2>1, <2>1a
  <2>2. n # {} => Least(places) \in places
    <3> HIDE DEF places
    <3> QED  BY <2>1b, LeastIs
  <2> QED  BY <1>6a, <2>2
<1>9. along # {} => e \in l /\ g.edges[e].src = t[Len(t)]
  <2>1. along \subseteq Nat
    BY <1>5, <1>6a
  <2>2. along # {} => e \in along
    BY <1>6a, <2>1, LeastIs
  <2> QED  BY <1>6a, <2>2
<1>10. \A i \in l : i \in along <=> g.edges[i].src = t[Len(t)]
  BY <1>6a
<1>11. e \in l => to \in Ids(g)
  BY <1>2, <1>6a, GraphFacts DEF Joins, Edges
<1>12. CASE t = << >> /\ n = {}
  <2>1. Weight(s) \in Nat
    BY <1>2, <1>3, <1>4, <1>5 DEF Weight
  <2> QED  BY <1>3, <1>7, <1>12, <2>1
<1>13. CASE t = << >> /\ n # {}
  <2>1. Searching(g, n \ {root}, Append(t, root), l, b)
    BY <1>1, <1>8, <1>13, EnterKeeps
  <2>2. Len(Append(t, root)) = Len(t) + 1
    BY <1>2, <1>8, <1>13, AppendProperties
  <2> QED  BY <1>6, <1>7, <1>8, <1>13, <2>1, <2>2
<1>14. CASE t # << >> /\ along = {}
  <2>1. Searching(g, n, SubSeq(t, 1, Len(t) - 1), l, b)
    BY <1>1, <1>10, <1>14, LeaveKeeps
  <2>2. Len(SubSeq(t, 1, Len(t) - 1)) = Len(t) - 1
    <3>1. PICK u : u = SubSeq(t, 1, Len(t) - 1)
      OBVIOUS
    <3>2. u \in Seq(Ids(g)) /\ DOMAIN u = 1..(Len(t) - 1) /\ Len(t) \in 1..Len(t)
      BY <1>2, <1>14, <3>1, OffTheTop
    <3> QED  BY <1>2, <3>1, <3>2
  <2> QED  BY <1>6, <1>7, <1>14, <2>1, <2>2
<1>15. CASE t # << >> /\ along # {} /\ to \in Members(t)
  <2>1. Searching(g, n, t, l \ {e}, b \cup {e})
    BY <1>1, <1>6a, <1>9, <1>15, LookKeeps
  <2> QED  BY <1>6, <1>7, <1>9, <1>15, <2>1
<1>16. CASE t # << >> /\ along # {} /\ to \notin Members(t) /\ to \in n
  <2>1. Searching(g, n \ {to}, Append(t, to), l \ {e}, b)
    BY <1>1, <1>6a, <1>9, <1>16, EnterKeeps
  <2>2. Len(Append(t, to)) = Len(t) + 1
    BY <1>2, <1>16, AppendProperties
  <2> QED  BY <1>6, <1>7, <1>9, <1>16, <2>1, <2>2
<1>17. CASE t # << >> /\ along # {} /\ to \notin Members(t) /\ to \notin n
  <2>1. to \in Done(g, n, t)
    BY <1>9, <1>11, <1>17 DEF Done
  <2>2. Searching(g, n, t, l \ {e}, b)
    BY <1>1, <1>6a, <1>9, <1>17, <2>1, LookKeeps
  <2> QED  BY <1>6, <1>7, <1>9, <1>17, <2>2
<1> QED  BY <1>12, <1>13, <1>14, <1>15, <1>16, <1>17

\* The search ends with every node done and every edge looked at, and gives the back
\* edges it then has.
LEMMA BackEdgesEnd ==
  ASSUME NEW g \in Graphs
  PROVE  \E b : Searching(g, {}, << >>, {}, b) /\ BackEdges(g) = b
<1>1. PICK N \in Nat, E \in Nat : N = Len(g.nodes) /\ E = Len(g.edges)
  BY GraphFacts
<1>2. PICK turns \in Nat : turns = 2 * N + E
  OBVIOUS
<1> DEFINE start == [new |-> Ids(g), stack |-> << >>, left |-> Edges(g), back |-> {}]
           D == SearchStates(g)
           step == [w \in (1..turns) \X D |-> Search(g, w[2])]
           Turns(f) == f = [n \in 0..turns |-> IF n = 0 THEN start ELSE Search(g, f[n - 1])]
<1>3. start \in D
  <2>1. Searching(g, Ids(g), << >>, Edges(g), {})
    <3>1. << >> \in Seq(Ids(g)) /\ DOMAIN << >> = {} /\ Members(<< >>) = {}
      BY DEF Members
    <3>2. Done(g, Ids(g), << >>) = {}
      BY DEF Done
    <3>3. Distinct(<< >>) /\ ChainOf(g, << >>)
      BY <3>1 DEF Distinct, ChainOf
    <3>4. Looked(g, Ids(g), << >>, Edges(g), {})
      BY <3>1, <3>2 DEF Looked
    <3>5. NoCycle(g, Ids(g), << >>, {})
      BY <3>2 DEF NoCycle
    <3> QED  BY <3>1, <3>3, <3>4, <3>5 DEF Searching
  <2>2. StateOf(Ids(g), << >>, Edges(g), {}) \in SearchStates(g)
    BY <2>1, StateIs
  <2> QED  BY <2>2 DEF StateOf
<1>4. Weight(start) <= turns
  <2>1. PICK cn \in Nat : cn = Cardinality(Ids(g)) /\ cn <= N
    BY <1>1, GraphFacts
  <2>2. Cardinality(Edges(g)) = E
    <3>1. Edges(g) = 1..E
      BY <1>1, GraphFacts
    <3>2. Cardinality(1..E) = IF 1 > E THEN 0 ELSE E - 1 + 1
      BY FS_Interval
    <3> QED  BY <3>1, <3>2
  <2>3. start.new = Ids(g) /\ start.stack = << >> /\ start.left = Edges(g) /\ Len(<< >>) = 0
    OBVIOUS
  <2> HIDE DEF start
  <2>4. Weight(start) = 2 * cn + 0 + E
    BY <2>1, <2>2, <2>3 DEF Weight
  <2>5. 2 * cn + 0 + E <= 2 * N + E
    BY <2>1
  <2> QED  BY <1>2, <2>4, <2>5
<1> HIDE DEF start
<1>5. \A s \in D : Search(g, s) \in D
  BY SearchKeeps
<1> HIDE DEF D
<1>6. step \in [(1..turns) \X D -> D]
  BY <1>5
<1>7. \A n \in 1..turns, s \in D : step[<<n, s>>] = Search(g, s)
  OBVIOUS
<1> HIDE DEF step
<1>8. PICK f \in [0..turns -> D] : Rounds(f, turns, start, step)
  BY <1>3, <1>6, RoundsExist
<1>9. \A n \in 0..turns : f[n] = IF n = 0 THEN start ELSE step[<<n, f[n - 1]>>]
  BY <1>8 DEF Rounds
<1>10. \A n \in 0..turns : n # 0 => n \in 1..turns /\ n - 1 \in 0..turns
  OBVIOUS
<1>11. \A n \in 0..turns : n # 0 => step[<<n, f[n - 1]>>] = Search(g, f[n - 1])
  BY <1>7, <1>8, <1>10
<1>12. Turns(f)
  BY <1>8, <1>9, <1>11
<1>13. PICK searched : Turns(searched) /\ BackEdges(g) = searched[turns].back
  <2> DEFINE h == CHOOSE k : Turns(k)
  <2>1. Turns(h)
    BY <1>12
  <2>2. BackEdges(g) = h[turns].back
    BY <1>1, <1>2 DEF BackEdges, start
  <2> HIDE DEF h
  <2> QED  BY <2>1, <2>2
<1>14. \A n \in 0..turns : searched[n] = IF n = 0 THEN start ELSE Search(g, searched[n - 1])
  BY <1>13
<1> DEFINE ended(s) == s.stack = << >> /\ s.new = {}
           P == {n \in 0..turns : /\ searched[n] \in D
                                  /\ ended(searched[n]) \/ Weight(searched[n]) <= turns - n}
<1>15. 0 \in P
  BY <1>3, <1>4, <1>14
<1>16. ASSUME NEW n \in 1..turns, n - 1 \in P  PROVE n \in P
  <2>1. n \in 0..turns /\ n - 1 \in 0..turns /\ n # 0 /\ n \in Nat
    OBVIOUS
  <2>2. PICK s \in D : s = searched[n - 1] /\ (ended(s) \/ Weight(s) <= turns - (n - 1))
    BY <1>16
  <2>3. searched[n] = Search(g, s)
    BY <1>14, <2>1, <2>2
  <2>4. /\ Search(g, s) \in D /\ Weight(s) \in Nat /\ Weight(Search(g, s)) \in Nat
        /\ \/ s.stack = << >> /\ s.new = {} /\ Search(g, s) = s
           \/ Weight(Search(g, s)) <= Weight(s) - 1
    BY SearchKeeps DEF D
  <2>5. ASSUME ended(s)  PROVE ended(Search(g, s))
    <3>1. Search(g, s) = s
      BY <2>5 DEF Search
    <3> QED  BY <2>5, <3>1
  <2>6. ASSUME ~ended(s)  PROVE Weight(Search(g, s)) <= turns - n
    <3>1. PICK w \in Nat, v \in Nat : w = Weight(s) /\ v = Weight(Search(g, s))
      BY <2>4
    <3>2. w <= turns - (n - 1) /\ v <= w - 1
      BY <2>2, <2>4, <2>6, <3>1
    <3> QED  BY <2>1, <3>1, <3>2
  <2> HIDE DEF ended
  <2> QED  BY <2>1, <2>3, <2>4, <2>5, <2>6
<1> HIDE DEF P
<1>17. turns \in P
  <2>1. 0..turns \subseteq P
    BY <1>15, <1>16, Along
  <2> QED  BY <2>1
<1>18. PICK s \in D : s = searched[turns] /\ (ended(s) \/ Weight(s) <= 0)
  <2>1. turns - turns = 0
    OBVIOUS
  <2> HIDE DEF ended
  <2> QED  BY <1>17, <2>1 DEF P
<1>19. PICK n, t, l, b : n = s.new /\ t = s.stack /\ l = s.left /\ b = s.back
  OBVIOUS
<1>20. Searching(g, n, t, l, b)
  BY <1>18, <1>19 DEF D, SearchStates
<1>21. n = {} /\ t = << >>
  <2>1. t \in Seq(Ids(g)) /\ n \subseteq Ids(g) /\ l \subseteq Edges(g)
    BY <1>20 DEF Searching
  <2>2. IsFiniteSet(n) /\ Cardinality(n) \in Nat /\ Cardinality(l) \in Nat /\ Len(t) \in Nat
    <3>1. IsFiniteSet(Ids(g)) /\ IsFiniteSet(Edges(g))
      <4>1. Edges(g) = 1..E
        BY <1>1, GraphFacts
      <4>2. IsFiniteSet(1..E)
        BY FS_Interval
      <4> QED  BY <4>1, <4>2, GraphFacts
    <3>2. IsFiniteSet(n) /\ IsFiniteSet(l)
      BY <2>1, <3>1, FS_Subset
    <3> QED  BY <2>1, <3>2, FS_CardinalityType
  <2>3. ASSUME Weight(s) <= 0  PROVE Cardinality(n) = 0 /\ Len(t) = 0
    <3>1. PICK cn \in Nat, ct \in Nat, cl \in Nat :
            cn = Cardinality(n) /\ ct = Len(t) /\ cl = Cardinality(l)
      BY <2>2
    <3>2. Weight(s) = 2 * cn + ct + cl
      BY <1>19, <3>1 DEF Weight
    <3> QED  BY <2>3, <3>1, <3>2
  <2>4. Cardinality(n) = 0 => n = {}
    BY <2>2, FS_EmptySet
  <2>5. Len(t) = 0 => t = << >>
    BY <2>1, EmptySeq
  <2> QED  BY <1>18, <1>19, <2>3, <2>4, <2>5
<1>22. l = {}
  <2>1. l \subseteq Edges(g) /\ Looked(g, n, t, l, b)
    BY <1>20 DEF Searching
  <2>2. Done(g, n, t) = Ids(g)
    BY <1>21 DEF Done, Members
  <2>3. \A i \in Edges(g) : g.edges[i].src \in Ids(g)
    BY GraphFacts DEF Joins, Edges
  <2> QED  BY <2>1, <2>2, <2>3 DEF Looked
<1> QED  BY <1>13, <1>18, <1>19, <1>20, <1>21, <1>22

\* mark_back_edges marks edges that close a cycle; without them there is no cycle.
LEMMA BackEdgesAre ==
  ASSUME NEW g \in Graphs
  PROVE  /\ BackEdges(g) \subseteq Edges(g)
         /\ \A i \in BackEdges(g) : Closes(g, i)
         /\ Acyclic(g.edges, Edges(g) \ BackEdges(g), Ids(g))
<1>1. PICK b : Searching(g, {}, << >>, {}, b) /\ BackEdges(g) = b
  BY BackEdgesEnd
<1>2. Done(g, {}, << >>) = Ids(g)
  BY DEF Done, Members
<1>3. b \in SUBSET Edges(g) /\ NoCycle(g, {}, << >>, b) /\ \A i \in b : Closes(g, i)
  BY <1>1 DEF Searching
<1>4. Acyclic(g.edges, Edges(g) \ b, Ids(g))
  BY <1>2, <1>3 DEF NoCycle, Acyclic
<1> QED  BY <1>1, <1>3, <1>4

-----------------------------------------------------------------------------
(* The plan                                                                *)

\* The numbers of some edges, in order.
LEMMA IndicesIs ==
  ASSUME NEW g \in Graphs, NEW S
  PROVE  LET is == Those([i \in Edges(g) |-> i], S)
         IN  is \in Seq(Edges(g) \cap S) /\ Members(is) = Edges(g) \cap S
<1>1. PICK E \in Nat : Edges(g) = 1..E
  BY GraphFacts
<1>2. PICK s : s = [i \in 1..E |-> i]
  OBVIOUS
<1>3. s \in Seq(1..E) /\ DOMAIN s = 1..E /\ \A i \in 1..E : s[i] = i
  BY <1>2
<1>4. Members(s) = 1..E
  BY <1>3 DEF Members
<1>5. Those(s, S) \in Seq((1..E) \cap S) /\ Members(Those(s, S)) = (1..E) \cap S
  BY <1>3, <1>4, ThoseIs
<1> QED  BY <1>1, <1>2, <1>5

\* The edges of the order.
Sorted(g) ==
  LET mechanism == Mechanism(g)
      dag == Those([i \in Edges(g) |-> i], {i \in Edges(g) : mechanism[i] \in Ordering})
  IN  [k \in DOMAIN dag |-> g.edges[dag[k]]]

LEMMA SortedIs ==
  ASSUME NEW g \in Graphs
  PROVE  /\ Joins(Sorted(g), Ids(g))
         /\ \A i \in Edges(g) : Mechanism(g)[i] \in Ordering =>
              \E k \in DOMAIN Sorted(g) : Sorted(g)[k] = g.edges[i]
         /\ \A k \in DOMAIN Sorted(g) : \E i \in Edges(g) :
              Mechanism(g)[i] \in Ordering /\ Sorted(g)[k] = g.edges[i]
<1>1. PICK S : S = {i \in Edges(g) : Mechanism(g)[i] \in Ordering}
  OBVIOUS
<1>2. PICK dag : dag = Those([i \in Edges(g) |-> i], S)
  OBVIOUS
<1>3. dag \in Seq(Edges(g) \cap S) /\ Members(dag) = Edges(g) \cap S
  BY <1>2, IndicesIs
<1>4. Sorted(g) = [k \in DOMAIN dag |-> g.edges[dag[k]]]
  BY <1>1, <1>2 DEF Sorted
<1>5. PICK n \in Nat : DOMAIN dag = 1..n /\ \A k \in 1..n : dag[k] \in Edges(g) /\ dag[k] \in S
  BY <1>3
<1>6. PICK q : q = Sorted(g) /\ q = [k \in 1..n |-> g.edges[dag[k]]]
  BY <1>4, <1>5
<1>7. PICK E : E = {g.edges[i] : i \in Edges(g)}
  OBVIOUS
<1>8. q \in Seq(E) /\ DOMAIN q = 1..n /\ \A k \in 1..n : q[k] = g.edges[dag[k]]
  <2>1. \A k \in 1..n : g.edges[dag[k]] \in E
    BY <1>5, <1>7
  <2>2. q \in [1..n -> E]
    BY <1>6, <2>1
  <2> QED  BY <1>6, <2>2
<1>9. \A i \in Edges(g) : g.edges[i].src \in Ids(g) /\ g.edges[i].dst \in Ids(g)
  BY GraphFacts DEF Joins, Edges
<1>10. Joins(q, Ids(g))
  BY <1>5, <1>8, <1>9 DEF Joins
<1>11. \A i \in Edges(g) : Mechanism(g)[i] \in Ordering => \E k \in 1..n : q[k] = g.edges[i]
  BY <1>1, <1>3, <1>5, <1>8 DEF Members
<1>12. \A k \in 1..n : \E i \in Edges(g) : Mechanism(g)[i] \in Ordering /\ q[k] = g.edges[i]
  BY <1>1, <1>5, <1>8
<1> QED  BY <1>6, <1>8, <1>10, <1>11, <1>12

\* The order: the nodes outside the block region, each once.
LEMMA OrderIs ==
  ASSUME NEW g \in Graphs
  PROVE  /\ Order(g) \in Seq(Ids(g)) /\ Distinct(Order(g))
         /\ Members(Order(g)) = Ids(g) \ BlockRegion(g)
         /\ TopoSort(IdSeq(g), Sorted(g)) \in Seq(Ids(g))
         /\ Distinct(TopoSort(IdSeq(g), Sorted(g)))
         /\ Thinned(Order(g), TopoSort(IdSeq(g), Sorted(g)))
<1>1. PICK s : s = TopoSort(IdSeq(g), Sorted(g))
  OBVIOUS
<1>2. s \in Seq(Ids(g)) /\ Distinct(s) /\ Members(s) = Ids(g)
  BY <1>1, GraphFacts, SortedIs, TopoSortIs
<1>3. PICK S : S = Ids(g) \ BlockRegion(g)
  OBVIOUS
<1>4. Order(g) = Those(s, S)
  BY <1>1, <1>3 DEF Order, Sorted
<1>5. PICK o : o = Order(g) /\ o \in Seq(Ids(g) \cap S) /\ Members(o) = Ids(g) \cap S /\ Thinned(o, s)
  BY <1>2, <1>4, ThoseIs, ThoseAreThinned
<1>6. o \in Seq(Ids(g))
  BY <1>5
<1>7. Distinct(o)
  BY <1>2, <1>5, <1>6, ThinnedIsDistinct
<1> QED  BY <1>1, <1>2, <1>3, <1>5, <1>6, <1>7

\* Unless a back edge orders, every ordering edge of the order runs forward in it.
LEMMA OrderRunsForward ==
  ASSUME NEW g \in Graphs, \A i \in BackEdges(g) : Mechanism(g)[i] \notin Ordering,
         NEW i \in Edges(g), Mechanism(g)[i] \in Ordering,
         NEW a \in DOMAIN Order(g), NEW b \in DOMAIN Order(g),
         Order(g)[a] = g.edges[i].src, Order(g)[b] = g.edges[i].dst
  PROVE  a < b
<1>1. PICK q : q = Sorted(g)
  OBVIOUS
<1>2. PICK s, o : s = TopoSort(IdSeq(g), q) /\ o = Order(g)
  OBVIOUS
<1>3. /\ Joins(q, Ids(g))
      /\ \E k \in DOMAIN q : q[k] = g.edges[i]
      /\ \A k \in DOMAIN q : \E e \in Edges(g) : Mechanism(g)[e] \in Ordering /\ q[k] = g.edges[e]
  BY <1>1, SortedIs
<1>4. s \in Seq(Ids(g)) /\ o \in Seq(Ids(g)) /\ Distinct(s) /\ Thinned(o, s)
  BY <1>1, <1>2, OrderIs
<1>5. Acyclic(q, DOMAIN q, Ids(g))
  <2> SUFFICES ASSUME NEW x \in Ids(g)
               PROVE  \E U \in SUBSET Ids(g) : Holds(q, DOMAIN q, U, x) /\ x \notin U
    BY DEF Acyclic
  <2>1. PICK U \in SUBSET Ids(g) : Holds(g.edges, Edges(g) \ BackEdges(g), U, x) /\ x \notin U
    BY BackEdgesAre DEF Acyclic
  <2>2. Holds(q, DOMAIN q, U, x)
    BY <1>3, <2>1 DEF Holds
  <2> QED  BY <2>1, <2>2
<1>6. PICK k \in DOMAIN q : q[k] = g.edges[i]
  BY <1>3
<1>7. PICK c, d \in DOMAIN s : c < d /\ s[c] = g.edges[i].src /\ s[d] = g.edges[i].dst
  BY <1>2, <1>3, <1>5, <1>6, GraphFacts, TopoSortRunsForward
<1> QED  BY <1>2, <1>4, <1>7, ThinnedKeepsOrder

-----------------------------------------------------------------------------
(* Ticks                                                                   *)

LEMMA EdgeFacts ==
  ASSUME NEW g \in Graphs, NEW i \in Edges(g)
  PROVE  g.edges[i].src \in Id /\ g.edges[i].dst \in Id /\ g.edges[i].in \in Ports
<1>1. g.edges[i].src \in Id /\ g.edges[i].dst \in Id
  BY GraphFacts DEF Joins, Edges
<1>2. g.edges[i] \in Members(g.edges)
  BY DEF Edges, Members
<1>3. g.edges[i].in \in Ports
  BY <1>2 DEF Ports
<1> QED  BY <1>1, <1>3

\* What the tick finds in a plan.
LEMMA PlanFacts ==
  ASSUME NEW g \in Graphs
  PROVE  /\ Built(g).order = Order(g) /\ Built(g).back = BackEdges(g)
         /\ Built(g).mechanism = Mechanism(g) /\ Built(g).lift = LiftEdge(g)
         /\ \E n \in Nat : /\ DOMAIN Order(g) = 1..n
                           /\ \A k \in 1..n : Order(g)[k] \in Ids(g)
         /\ \A id \in DOMAIN LiftEdge(g) : LiftEdge(g)[id] \in Edges(g)
<1>1. \E n \in Nat : DOMAIN Order(g) = 1..n /\ \A k \in 1..n : Order(g)[k] \in Ids(g)
  <2>1. PICK o : o = Order(g) /\ o \in Seq(Ids(g))
    BY OrderIs
  <2> QED  BY <2>1
<1>2. ASSUME NEW id \in DOMAIN LiftEdge(g)  PROVE LiftEdge(g)[id] \in Edges(g)
  <2> DEFINE S == {j \in Edges(g) : g.edges[j].dst = id /\ Lifting(g, j)}
             first(i) == /\ g.edges[i].dst = id /\ Lifting(g, i)
                         /\ \A j \in 1..(i - 1) : g.edges[j].dst = id => ~Lifting(g, j)
  <2>1. \E j \in Edges(g) : Lifting(g, j) /\ g.edges[j].dst = id
    BY <1>2 DEF LiftEdge
  <2>2. PICK E \in Nat : Edges(g) = 1..E
    BY GraphFacts
  <2>3. S \subseteq Nat /\ S # {}
    BY <2>1, <2>2
  <2>4. \A j \in S : j \in Edges(g) /\ g.edges[j].dst = id /\ Lifting(g, j)
    OBVIOUS
  <2>5. \A j \in Edges(g) : g.edges[j].dst = id /\ Lifting(g, j) => j \in S
    OBVIOUS
  <2> HIDE DEF S
  <2>6. PICK i \in S : \A j \in S : i <= j
    BY <2>3, LeastNatural
  <2>7. \A j \in 1..(i - 1) : j \in Edges(g) /\ ~(i <= j)
    BY <2>2, <2>3, <2>4, <2>6
  <2>8. first(i)
    BY <2>4, <2>5, <2>6, <2>7
  <2>9. i \in Edges(g)
    BY <2>4
  <2>10. (CHOOSE k \in Edges(g) : first(k)) \in Edges(g)
    <3> HIDE DEF first
    <3> QED  BY <2>8, <2>9
  <2>11. LiftEdge(g)[id] = CHOOSE k \in Edges(g) : first(k)
    BY <1>2 DEF LiftEdge
  <2> QED  BY <2>10, <2>11
<1> QED  BY <1>1, <1>2 DEF Built

\* The plan is the one built for the graph.
Current == graph \in Graphs /\ plan = Built(graph) /\ at # 0 /\ TypeOK

\* What a row and its key may be.
LEMMA RowFacts ==
  ASSUME rows \in Rows, NEW id
  PROVE  /\ IsFiniteSet(DOMAIN rows)
         /\ \A r \in DOMAIN rows : rows[r] \in RowKeys /\ rows[r] \in Keys /\ r \in Keys
                                   /\ RowKey(id, r) \in Keys
         /\ \A key : /\ Cardinality(RowsOf(id, key)) \in Nat
                     /\ {rows[r] : r \in RowsOf(id, key)} \subseteq Keys
<1>1. rows \in Seq(Members(rows))
  BY TickPlanAssumption
<1>2. PICK n \in Nat : DOMAIN rows = 1..n
  BY <1>1
<1>3. IsFiniteSet(DOMAIN rows)
  BY <1>2, FS_Interval
<1>4. \A r \in DOMAIN rows : rows[r] \in RowKeys
  BY DEF RowKeys, Members
<1>5. \A r \in DOMAIN rows : rows[r] \in Keys /\ r \in Keys /\ RowKey(id, r) \in Keys
  BY <1>4 DEF Keys, RowKey
<1>6. \A key : RowsOf(id, key) \subseteq DOMAIN rows
  BY DEF RowsOf
<1>7. \A key : Cardinality(RowsOf(id, key)) \in Nat
  BY <1>3, <1>6, FS_Subset, FS_CardinalityType
<1>8. \A key : {rows[r] : r \in RowsOf(id, key)} \subseteq Keys
  BY <1>5, <1>6
<1> QED  BY <1>3, <1>4, <1>5, <1>7, <1>8

LEMMA CappedIs ==
  ASSUME NEW n \in Nat
  PROVE  Capped(n) \in 0..MaxTicks
BY TickPlanAssumption DEF Capped

\* A node of the graph is an instance of a descriptor.
LEMMA NodeFacts ==
  ASSUME NEW g \in Graphs, NEW id \in Ids(g)
  PROVE  NodeAt(g, id).type \in DOMAIN Desc
<1>1. PICK T : T = [id : Id, type : DOMAIN Desc]
  OBVIOUS
<1>2. g.nodes \in Seq(T)
  BY <1>1, GraphFacts
<1>3. \A i \in DOMAIN g.nodes : g.nodes[i] \in T
  BY <1>2
<1>4. \E i \in DOMAIN g.nodes : g.nodes[i].id = id
  BY GraphFacts
<1>5. NodeAt(g, id) \in T
  BY <1>3, <1>4 DEF NodeAt
<1> QED  BY <1>1, <1>5

\* The clones that are not of one host's port, those its rows have, and one of them
\* fed its rows.
Others(id, port) == {k \in DOMAIN store : k[1] # id \/ k[2] # port}
Live(id, port) == {<<id, port, RowKey(id, r)>> : r \in DOMAIN rows}
FedTo(id, c, key) ==
  [c EXCEPT !.ticks = Capped(@ + Cardinality(RowsOf(id, key))),
            !.served = @ \cup {rows[r] : r \in RowsOf(id, key)}]

\* The clones of one host's port in one tick: which there are, and what becomes of them.
LEMMA TickClonesIs ==
  ASSUME NEW id, NEW port, TickClones(id, port)
  PROVE  /\ DOMAIN store' = Others(id, port) \cup Live(id, port)
         /\ \A k \in DOMAIN store' : k[1] # id \/ k[2] # port =>
              k \in DOMAIN store /\ store'[k] = store[k]
         /\ \A k \in DOMAIN store' : k[1] = id /\ k[2] = port =>
              /\ k = <<id, port, k[3]>> /\ \E r \in DOMAIN rows : k[3] = RowKey(id, r)
              /\ store'[k] = FedTo(id, CloneOf(id, port, k[3]), k[3])
<1> DEFINE live == {RowKey(id, r) : r \in DOMAIN rows}
           others == {k \in DOMAIN store : k[1] # id \/ k[2] # port}
           D == others \cup {<<id, port, key>> : key \in live}
           fedTo(c, key) == [c EXCEPT !.ticks = Capped(@ + Cardinality(RowsOf(id, key))),
                                      !.served = @ \cup {rows[r] : r \in RowsOf(id, key)}]
           new(k) == IF k[1] = id /\ k[2] = port /\ k[3] \in live
                     THEN fedTo(CloneOf(id, port, k[3]), k[3]) ELSE store[k]
<1>1. store' = [k \in D |-> new(k)]
  BY DEF TickClones, KeepOthers
<1>2. DOMAIN store' = D /\ \A k \in D : store'[k] = new(k)
  <2> HIDE DEF new, D
  <2> QED  BY <1>1
<1>3. \A k \in D : k[1] = id /\ k[2] = port => k = <<id, port, k[3]>> /\ k[3] \in live
  <2>1. \A k \in others : k[1] # id \/ k[2] # port
    OBVIOUS
  <2>2. \A key \in live : <<id, port, key>>[3] = key
    OBVIOUS
  <2> HIDE DEF others, live
  <2> QED  BY <2>1, <2>2
<1>4. \A k \in D : k[1] # id \/ k[2] # port => k \in DOMAIN store
  <2>1. \A key \in live : <<id, port, key>>[1] = id /\ <<id, port, key>>[2] = port
    OBVIOUS
  <2>2. \A k \in others : k \in DOMAIN store
    OBVIOUS
  <2> HIDE DEF others, live
  <2> QED  BY <2>1, <2>2
<1>5. D = Others(id, port) \cup Live(id, port)
  <2>1. others = Others(id, port)
    BY DEF Others
  <2>2. {<<id, port, key>> : key \in live} = Live(id, port)
    BY DEF Live
  <2> HIDE DEF others, live
  <2> QED  BY <2>1, <2>2
<1>6. \A k \in D : k[1] # id \/ k[2] # port => new(k) = store[k]
  <2> HIDE DEF D, live, fedTo
  <2> QED  OBVIOUS
<1>7. \A k \in D : k[1] = id /\ k[2] = port => new(k) = FedTo(id, CloneOf(id, port, k[3]), k[3])
  <2>1. \A c, key : fedTo(c, key) = FedTo(id, c, key)
    BY DEF FedTo
  <2> HIDE DEF D, live, fedTo
  <2> QED  BY <1>3, <2>1
<1>8. \A key \in live : \E r \in DOMAIN rows : key = RowKey(id, r)
  OBVIOUS
<1> HIDE DEF D, new, live
<1>9. \A k \in D : k[1] = id /\ k[2] = port => \E r \in DOMAIN rows : k[3] = RowKey(id, r)
  BY <1>3, <1>8
<1> QED  BY <1>2, <1>3, <1>4, <1>5, <1>6, <1>7, <1>9

\* A clone found or created is typed.
LEMMA CloneIsTyped ==
  ASSUME NEW id \in Ids(graph), graph \in Graphs, NEW port, NEW key,
         \A k \in DOMAIN store : store[k] \in [type : DOMAIN Desc, ticks : 0..MaxTicks, served : SUBSET Keys]
  PROVE  CloneOf(id, port, key) \in [type : DOMAIN Desc, ticks : 0..MaxTicks, served : SUBSET Keys]
<1>1. CASE <<id, port, key>> \in DOMAIN store
  BY <1>1 DEF CloneOf
<1>2. CASE <<id, port, key>> \notin DOMAIN store
  <2>1. NodeAt(graph, id).type \in DOMAIN Desc
    BY NodeFacts
  <2>2. 0 \in 0..MaxTicks
    BY TickPlanAssumption
  <2> QED  BY <1>2, <2>1, <2>2 DEF CloneOf
<1> QED  BY <1>1, <1>2

\* They are typed.
LEMMA ClonesAreTyped ==
  ASSUME NEW id \in Ids(graph), graph \in Graphs, rows \in Rows, NEW port \in Ports,
         DOMAIN store \subseteq Id \X Ports \X Keys,
         \A k \in DOMAIN store : store[k] \in [type : DOMAIN Desc, ticks : 0..MaxTicks, served : SUBSET Keys],
         TickClones(id, port)
  PROVE  /\ DOMAIN store' \subseteq Id \X Ports \X Keys
         /\ \A k \in DOMAIN store' :
              store'[k] \in [type : DOMAIN Desc, ticks : 0..MaxTicks, served : SUBSET Keys]
<1>1. PICK R : R = [type : DOMAIN Desc, ticks : 0..MaxTicks, served : SUBSET Keys]
  OBVIOUS
<1>2. id \in Id
  BY GraphFacts
<1>3. \A r \in DOMAIN rows : RowKey(id, r) \in Keys
  BY RowFacts
<1>4. DOMAIN store' \subseteq Id \X Ports \X Keys
  <2>1. DOMAIN store' = Others(id, port) \cup Live(id, port)
    BY TickClonesIs
  <2> QED  BY <1>2, <1>3, <2>1 DEF Others, Live
<1>5. \A key : CloneOf(id, port, key) \in R
  BY <1>1, CloneIsTyped
<1>6. ASSUME NEW c \in R, NEW key
      PROVE  FedTo(id, c, key) \in R
  <2>1. PICK n, S : /\ n \in Nat /\ n = Cardinality(RowsOf(id, key))
                    /\ S = {rows[r] : r \in RowsOf(id, key)} /\ S \subseteq Keys
    BY RowFacts
  <2>2. c.ticks \in Nat /\ c.served \subseteq Keys
    BY <1>1, TickPlanAssumption
  <2>3. Capped(c.ticks + n) \in 0..MaxTicks
    <3>1. PICK m : m = c.ticks + n /\ m \in Nat
      BY <2>1, <2>2
    <3>2. Capped(m) \in 0..MaxTicks
      BY <3>1, CappedIs
    <3> QED  BY <3>1, <3>2
  <2>4. [c EXCEPT !.ticks = Capped(@ + n), !.served = @ \cup S] \in R
    BY <1>1, <2>1, <2>2, <2>3
  <2> QED  BY <2>1, <2>4 DEF FedTo
<1>6a. \A k \in DOMAIN store' : k[1] = id /\ k[2] = port =>
         store'[k] = FedTo(id, CloneOf(id, port, k[3]), k[3])
  BY TickClonesIs
<1>7. \A k \in DOMAIN store' : store'[k] \in R
  <2> SUFFICES ASSUME NEW k \in DOMAIN store'  PROVE store'[k] \in R
    OBVIOUS
  <2>1. CASE k[1] # id \/ k[2] # port
    <3>1. k \in DOMAIN store /\ store'[k] = store[k]
      BY <2>1, TickClonesIs
    <3> QED  BY <1>1, <3>1
  <2>2. CASE k[1] = id /\ k[2] = port
    <3>1. store'[k] = FedTo(id, CloneOf(id, port, k[3]), k[3])
      BY <1>6a, <2>2
    <3> QED  BY <1>5, <1>6, <3>1
  <2> QED  BY <2>1, <2>2
<1> QED  BY <1>1, <1>4, <1>7

\* What a host's tick leaves.
Refed(id, port) ==
  [k \in {k \in DOMAIN fed : k[1] # id \/ k[2] # port}
           \cup {<<id, port, RowKey(id, r)>> : r \in DOMAIN rows} |->
     IF k[1] # id \/ k[2] # port THEN fed[k]
     ELSE Capped((IF k \in DOMAIN fed THEN fed[k] ELSE 0) + Cardinality(RowsOf(id, k[3])))]

LEMMA TickLiftedIs ==
  ASSUME TickLifted
  PROVE  /\ pc = "tick" /\ at \in DOMAIN plan.order /\ plan.order[at] \in DOMAIN plan.lift
         /\ got' = [i \in Edges(graph) |->
                     IF plan.mechanism[i] = "lift" /\ graph.edges[i].dst = plan.order[at]
                     THEN age[graph.edges[i].src] ELSE got[i]]
         /\ age' = [age EXCEPT ![plan.order[at]] = 0]
         /\ at' = at + 1 /\ UNCHANGED <<graph, plan, pc, prev, rows>>
         /\ LET port == graph.edges[plan.lift[plan.order[at]]].in
            IN  \/ TickClones(plan.order[at], port) /\ fed' = Refed(plan.order[at], port)
                \/ UNCHANGED <<store, fed>>
<1> DEFINE id == plan.order[at]
           port == graph.edges[plan.lift[id]].in
<1>1. IF DescOf(graph, id).lift = "clones"
      THEN TickClones(id, port) /\ fed' = Refed(id, port)
      ELSE UNCHANGED <<store, fed>>
  BY DEF TickLifted, Refed
<1>2. \/ TickClones(id, port) /\ fed' = Refed(id, port)
      \/ UNCHANGED <<store, fed>>
  <2> HIDE DEF id, port
  <2> QED  BY <1>1
<1>3. /\ pc = "tick" /\ at \in DOMAIN plan.order /\ id \in DOMAIN plan.lift
      /\ got' = [i \in Edges(graph) |->
                  IF plan.mechanism[i] = "lift" /\ graph.edges[i].dst = id
                  THEN age[graph.edges[i].src] ELSE got[i]]
      /\ age' = [age EXCEPT ![id] = 0]
      /\ at' = at + 1 /\ UNCHANGED <<graph, plan, pc, prev, rows>>
  BY DEF TickLifted
<1> QED  BY <1>2, <1>3

\* All variables are typed, and the plan is the graph's.
LEMMA CurrentAtFirst == Init => Current
<1> SUFFICES ASSUME Init PROVE Current
  OBVIOUS
<1>1. graph \in Graphs /\ plan = Built(graph) /\ at # 0 /\ at \in Nat
  BY DEF Init
<1>2. pc \in {"idle", "between", "tick"} /\ age \in [Id -> 0..2]
  BY DEF Init
<1>3. prev \in [Edges(graph) -> 0..3] /\ got \in [Edges(graph) -> 0..2]
  BY DEF Init, None
<1>4. rows \in Rows /\ DOMAIN store = {}
  BY TickPlanAssumption DEF Init
<1> QED  BY <1>1, <1>2, <1>3, <1>4 DEF Current, TypeOK

\* What is delivered is as old as a value may be.
LEMMA DeliveredIsAnAge ==
  ASSUME Current, NEW i \in Edges(graph)
  PROVE  Delivered(i) \in 0..2
<1>1. prev[i] \in 0..3 /\ got[i] \in 0..2 /\ age[graph.edges[i].src] \in 0..2
  BY EdgeFacts DEF Current, TypeOK
<1>2. prev[i] # None => prev[i] \in 0..2
  BY <1>1 DEF None
<1> QED  BY <1>1, <1>2 DEF Delivered

LEMMA CurrentKept == Current /\ [Next]_vars => Current'
<1> SUFFICES ASSUME Current, [Next]_vars PROVE Current'
  OBVIOUS
<1>1. /\ graph \in Graphs /\ plan = Built(graph) /\ at # 0 /\ at \in Nat
      /\ pc \in {"idle", "between", "tick"}
      /\ age \in [Id -> 0..2] /\ prev \in [Edges(graph) -> 0..3] /\ got \in [Edges(graph) -> 0..2]
      /\ rows \in Rows /\ DOMAIN store \subseteq Id \X Ports \X Keys
      /\ \A k \in DOMAIN store :
           store[k] \in [type : DOMAIN Desc, ticks : 0..MaxTicks, served : SUBSET Keys]
  BY DEF Current, TypeOK
<1>2. CASE UNCHANGED vars
  BY <1>1, <1>2 DEF vars, Current, TypeOK
<1>3. CASE TickBegins
  <2>1. age' \in [Id -> 0..2]
    BY <1>1, <1>3 DEF TickBegins, Older
  <2>2. prev' \in [Edges(graph) -> 0..3] /\ got' \in [Edges(graph) -> 0..2]
    BY <1>1, <1>3 DEF TickBegins, Older
  <2> QED  BY <1>1, <1>3, <2>1, <2>2 DEF TickBegins, Current, TypeOK
<1>4. CASE TickNode
  <2>1. plan.order[at] \in Id
    BY <1>1, <1>4, PlanFacts, GraphFacts DEF TickNode
  <2>2. age' \in [Id -> 0..2]
    BY <1>1, <1>4, <2>1 DEF TickNode
  <2>3. got' \in [Edges(graph) -> 0..2]
    BY <1>1, <1>4, DeliveredIsAnAge DEF TickNode
  <2>4. rows' \in Rows
    BY <1>1, <1>4 DEF TickNode
  <2> QED  BY <1>1, <1>4, <2>2, <2>3, <2>4 DEF TickNode, Current, TypeOK
<1>5. CASE TickLifted
  <2>1. PICK id, port : id = plan.order[at] /\ port = graph.edges[plan.lift[id]].in
    OBVIOUS
  <2>2. /\ at \in DOMAIN plan.order /\ id \in DOMAIN plan.lift
        /\ got' = [i \in Edges(graph) |->
                    IF plan.mechanism[i] = "lift" /\ graph.edges[i].dst = id
                    THEN age[graph.edges[i].src] ELSE got[i]]
        /\ age' = [age EXCEPT ![id] = 0]
        /\ at' = at + 1 /\ UNCHANGED <<graph, plan, pc, prev, rows>>
        /\ TickClones(id, port) \/ UNCHANGED store
    BY <1>5, <2>1, TickLiftedIs
  <2>3. id \in Ids(graph) /\ id \in Id
    BY <1>1, <2>1, <2>2, PlanFacts, GraphFacts
  <2>4. port \in Ports
    BY <1>1, <2>1, <2>2, PlanFacts, EdgeFacts
  <2>5. age' \in [Id -> 0..2]
    BY <1>1, <2>2, <2>3
  <2>6. got' \in [Edges(graph) -> 0..2]
    <3>1. \A i \in Edges(graph) : age[graph.edges[i].src] \in 0..2
      BY <1>1, EdgeFacts
    <3> QED  BY <1>1, <2>2, <3>1
  <2>7. /\ DOMAIN store' \subseteq Id \X Ports \X Keys
        /\ \A k \in DOMAIN store' :
             store'[k] \in [type : DOMAIN Desc, ticks : 0..MaxTicks, served : SUBSET Keys]
    <3>1. CASE TickClones(id, port)
      BY <1>1, <2>3, <2>4, <3>1, ClonesAreTyped
    <3>2. CASE UNCHANGED store
      BY <1>1, <3>2
    <3> QED  BY <2>2, <3>1, <3>2
  <2>8. at' \in Nat /\ at' # 0
    BY <1>1, <2>2
  <2> QED  BY <1>1, <2>2, <2>5, <2>6, <2>7, <2>8 DEF Current, TypeOK
<1>6. CASE TickEnds
  <2>1. \A i \in Edges(graph) : age[graph.edges[i].src] \in 0..2
    BY <1>1, EdgeFacts
  <2>2. prev' \in [Edges(graph) -> 0..3]
    BY <1>1, <1>6, <2>1 DEF TickEnds, Capture
  <2> QED  BY <1>1, <1>6, <2>2 DEF TickEnds, Current, TypeOK
<1>7. ASSUME NEW g \in Played, Edit(g)  PROVE Current'
  <2>1. g \in Graphs
    BY TickPlanAssumption
  <2>2. age' \in [Id -> 0..2]
    BY <1>1, <1>7 DEF Edit
  <2>3. prev' \in [Edges(g) -> 0..3] /\ got' \in [Edges(g) -> 0..2]
    BY <1>7 DEF Edit, None
  <2> QED  BY <1>1, <1>7, <2>1, <2>2, <2>3 DEF Edit, Current, TypeOK
<1> QED  BY <1>2, <1>3, <1>4, <1>5, <1>6, <1>7 DEF Next

\* All variables are typed.
THEOREM TickTypesOK == Spec => []TypeOK
<1>1. Current => TypeOK
  BY DEF Current
<1> QED  BY CurrentAtFirst, CurrentKept, <1>1, PTL DEF Spec

\* The plan of every graph is sound: what mark_back_edges marks closes a cycle and
\* breaks all, and the order runs forward along what is left.
LEMMA PlansAreSound == Current => PlanIsSound
<1> SUFFICES ASSUME Current  PROVE PlanIsSound
  OBVIOUS
<1>1. /\ graph \in Graphs /\ TypeOK /\ plan.order = Order(graph) /\ plan.back = BackEdges(graph)
      /\ plan.mechanism = Mechanism(graph)
  BY PlanFacts DEF Current
<1>2. ASSUME NEW id \in Ids(graph)  PROVE ~Leads(Edges(graph) \ plan.back, id, id)
  <2>1. PICK U \in SUBSET Ids(graph) :
          Holds(graph.edges, Edges(graph) \ plan.back, U, id) /\ id \notin U
    BY <1>1, BackEdgesAre DEF Acyclic
  <2> QED  BY <2>1 DEF Leads, Holds
<1>3. ASSUME NEW i \in plan.back
      PROVE  \/ Leads(Edges(graph), graph.edges[i].dst, graph.edges[i].src)
             \/ graph.edges[i].dst = graph.edges[i].src
  <2>1. Closes(graph, i)
    BY <1>1, BackEdgesAre
  <2> QED  BY <2>1 DEF Closes, Leads, Holds
<1>4. ASSUME ~Tangled, NEW i \in Edges(graph), Scheduled(i)
      PROVE  Position(graph.edges[i].src) < Position(graph.edges[i].dst)
  <2>1. \A j \in BackEdges(graph) : Mechanism(graph)[j] \notin Ordering
    BY <1>1, <1>4 DEF Tangled
  <2>2. /\ Mechanism(graph)[i] \in Ordering
        /\ \E k \in DOMAIN Order(graph) : Order(graph)[k] = graph.edges[i].src
        /\ \E k \in DOMAIN Order(graph) : Order(graph)[k] = graph.edges[i].dst
    BY <1>1, <1>4 DEF Scheduled, Members
  <2>3. PICK a, b : a = Position(graph.edges[i].src) /\ b = Position(graph.edges[i].dst)
    OBVIOUS
  <2>4. /\ a \in DOMAIN Order(graph) /\ Order(graph)[a] = graph.edges[i].src
        /\ b \in DOMAIN Order(graph) /\ Order(graph)[b] = graph.edges[i].dst
    BY <1>1, <2>2, <2>3 DEF Position
  <2>5. a < b
    BY <1>1, <2>1, <2>2, <2>4, OrderRunsForward
  <2> QED  BY <2>3, <2>5
<1> QED  BY <1>1, <1>2, <1>3, <1>4 DEF PlanIsSound

\* mark_back_edges and topo_sort, for every graph: an edge is delayed only if it closes
\* a cycle, the rest has none, and the order puts producers before their consumers.
THEOREM PlansStaySound == Spec => []PlanIsSound
BY CurrentAtFirst, CurrentKept, PlansAreSound, PTL DEF Spec

-----------------------------------------------------------------------------
(* Delays                                                                  *)

\* Of the nodes of the order, those reached in this tick have processed; and what a
\* delay has captured is one tick old in a tick, and fresh between two.
Reached == pc = "tick" => \A k \in DOMAIN plan.order : k < at => age[plan.order[k]] = 0
CapturedInTime ==
  \A i \in Edges(graph) : prev[i] # None =>
    /\ plan.mechanism[i] = "delay" /\ graph.edges[i].dst \in Members(plan.order)
    /\ prev[i] = IF pc = "tick" THEN 1 ELSE 0
Lateness == Current /\ Reached /\ CapturedInTime

\* A delay does not cross the regions: with its consumer its producer is in the order.
LEMMA DelaysStayInside ==
  ASSUME NEW g \in Graphs, NEW i \in Edges(g), Mechanism(g)[i] = "delay",
         g.edges[i].dst \in Members(Order(g))
  PROVE  g.edges[i].src \in Members(Order(g))
<1>1. (g.edges[i].src \in BlockRegion(g)) = (g.edges[i].dst \in BlockRegion(g))
  BY DEF Mechanism
<1>2. Members(Order(g)) = Ids(g) \ BlockRegion(g)
  BY OrderIs
<1>3. g.edges[i].src \in Ids(g)
  BY GraphFacts DEF Joins, Edges
<1> QED  BY <1>1, <1>2, <1>3

LEMMA LatenessAtFirst == Init => Lateness
<1> SUFFICES ASSUME Init  PROVE Lateness
  OBVIOUS
<1>1. pc # "tick" /\ \A i \in Edges(graph) : prev[i] = None
  BY DEF Init
<1> QED  BY <1>1, CurrentAtFirst DEF Lateness, Reached, CapturedInTime

LEMMA LatenessKept == Lateness /\ [Next]_vars => Lateness'
<1> SUFFICES ASSUME Lateness, [Next]_vars  PROVE Lateness'
  OBVIOUS
<1>1. Current /\ Current' /\ Reached /\ CapturedInTime
  BY CurrentKept DEF Lateness
<1>2. /\ graph \in Graphs /\ at \in Nat /\ at # 0
      /\ age \in [Id -> 0..2] /\ prev \in [Edges(graph) -> 0..3]
      /\ plan.order = Order(graph) /\ plan.mechanism = Mechanism(graph)
  BY <1>1, PlanFacts DEF Current, TypeOK
<1>3. PICK n \in Nat : DOMAIN plan.order = 1..n /\ \A k \in 1..n : plan.order[k] \in Id
  BY <1>2, PlanFacts, GraphFacts
<1>4. CASE UNCHANGED vars
  BY <1>1, <1>4 DEF vars, Lateness, Reached, CapturedInTime
<1>5. CASE TickBegins
  <2>1. Reached'
    BY <1>3, <1>5 DEF TickBegins, Reached
  <2>2. CapturedInTime'
    <3> SUFFICES ASSUME NEW i \in Edges(graph), prev'[i] # None
                 PROVE  /\ plan.mechanism[i] = "delay" /\ graph.edges[i].dst \in Members(plan.order)
                        /\ prev'[i] = 1
      BY <1>5 DEF TickBegins, CapturedInTime
    <3>1. prev'[i] = Older(prev[i]) /\ pc = "between"
      BY <1>2, <1>5 DEF TickBegins
    <3>2. prev[i] # None
      BY <3>1 DEF None, Older
    <3>3. /\ plan.mechanism[i] = "delay" /\ graph.edges[i].dst \in Members(plan.order) /\ prev[i] = 0
      BY <1>1, <3>1, <3>2 DEF CapturedInTime
    <3> QED  BY <3>1, <3>3 DEF Older
  <2> QED  BY <1>1, <2>1, <2>2 DEF Lateness
<1>6. ASSUME pc = "tick", pc' = "tick", at \in DOMAIN plan.order, at' = at + 1,
             age' = [age EXCEPT ![plan.order[at]] = 0], UNCHANGED <<graph, plan, prev>>
      PROVE  Lateness'
  <2>1. Reached'
    <3> SUFFICES ASSUME NEW k \in 1..n, k < at + 1  PROVE age'[plan.order[k]] = 0
      BY <1>3, <1>6 DEF Reached
    <3>1. k = at \/ k < at
      BY <1>2
    <3>2. k < at => age[plan.order[k]] = 0
      BY <1>1, <1>3, <1>6 DEF Reached
    <3>3. plan.order[k] \in Id
      BY <1>3
    <3> QED  BY <1>2, <1>6, <3>1, <3>2, <3>3
  <2>2. CapturedInTime'
    BY <1>1, <1>6 DEF CapturedInTime
  <2> QED  BY <1>1, <2>1, <2>2 DEF Lateness
<1>7. CASE TickNode
  BY <1>6, <1>7 DEF TickNode
<1>8. CASE TickLifted
  BY <1>6, <1>8, TickLiftedIs
<1>9. CASE TickEnds
  <2>1. Reached'
    BY <1>9 DEF TickEnds, Reached
  <2>2. \A k \in 1..n : age[plan.order[k]] = 0
    <3>1. \A k \in 1..n : k < at
      BY <1>2, <1>3, <1>9 DEF TickEnds
    <3> QED  BY <1>1, <1>3, <1>9, <3>1 DEF TickEnds, Reached
  <2>3. CapturedInTime'
    <3> SUFFICES ASSUME NEW i \in Edges(graph), prev'[i] # None
                 PROVE  /\ plan.mechanism[i] = "delay" /\ graph.edges[i].dst \in Members(plan.order)
                        /\ prev'[i] = 0
      BY <1>9 DEF TickEnds, CapturedInTime
    <3>1. /\ prev'[i] = IF plan.mechanism[i] = "delay" /\ graph.edges[i].dst \in Members(plan.order)
                        THEN age[graph.edges[i].src] ELSE prev[i]
          /\ pc = "tick"
      BY <1>9 DEF TickEnds, Capture
    <3>2. plan.mechanism[i] = "delay" /\ graph.edges[i].dst \in Members(plan.order)
      BY <1>1, <3>1 DEF CapturedInTime
    <3>3. graph.edges[i].src \in Members(plan.order)
      BY <1>2, <3>2, DelaysStayInside
    <3>4. age[graph.edges[i].src] = 0
      BY <1>3, <2>2, <3>3 DEF Members
    <3> QED  BY <3>1, <3>2, <3>4
  <2> QED  BY <1>1, <2>1, <2>3 DEF Lateness
<1>10. ASSUME NEW g \in Played, Edit(g)  PROVE Lateness'
  <2>1. Reached'
    BY <1>10 DEF Edit, Reached
  <2>2. CapturedInTime'
    BY <1>10 DEF Edit, CapturedInTime
  <2> QED  BY <1>1, <2>1, <2>2 DEF Lateness
<1> QED  BY <1>4, <1>5, <1>7, <1>8, <1>9, <1>10 DEF Next

\* A delayed edge delivers exactly the last tick's value.
THEOREM DelaysAreOneTickLate == Spec => OneTickLate
<1>1. Lateness /\ [Next]_vars =>
        [TickNode => \A i \in Edges(graph) :
           /\ graph.edges[i].dst = plan.order[at] /\ plan.mechanism[i] = "delay"
           /\ prev[i] # None /\ Settable(i)
           => got'[i] = 1]_vars
  <2> SUFFICES ASSUME Lateness, TickNode, NEW i \in Edges(graph), graph.edges[i].dst = plan.order[at],
                      plan.mechanism[i] = "delay", prev[i] # None, Settable(i)
               PROVE  got'[i] = 1
    OBVIOUS
  <2>1. pc = "tick" /\ got'[i] = Delivered(i)
    BY DEF TickNode
  <2>2. Delivered(i) = prev[i]
    BY DEF Delivered
  <2>3. prev[i] = 1
    BY <2>1 DEF Lateness, CapturedInTime
  <2> QED  BY <2>1, <2>2, <2>3
<1> QED  BY LatenessAtFirst, LatenessKept, <1>1, PTL DEF Spec, OneTickLate

-----------------------------------------------------------------------------
(* Clones                                                                  *)

\* There is a clone for every key that is counted, and it has processed as often.
Fed ==
  /\ DOMAIN fed = DOMAIN store
  /\ \A k \in DOMAIN store : store[k].ticks = fed[k]
Served == \A k \in DOMAIN store : k[3] \in RowKeys => store[k].served = {k[3]}
Conformed == Current /\ Fed /\ Served

LEMMA ConformedAtFirst == Init => Conformed
<1> SUFFICES ASSUME Init  PROVE Conformed
  OBVIOUS
<1>1. DOMAIN store = {} /\ DOMAIN fed = {}
  BY DEF Init
<1> QED  BY <1>1, CurrentAtFirst DEF Conformed, Fed, Served

\* A tick of a host's clones keeps both.
LEMMA TickClonesConforms ==
  ASSUME Conformed, NEW id \in Ids(graph), NEW port, TickClones(id, port), fed' = Refed(id, port)
  PROVE  Fed' /\ Served'
<1>1. /\ rows \in Rows /\ DOMAIN fed = DOMAIN store /\ \A k \in DOMAIN store : store[k].ticks = fed[k]
      /\ \A k \in DOMAIN store : k[3] \in RowKeys => store[k].served = {k[3]}
  BY DEF Conformed, Current, TypeOK, Fed, Served
<1>2. PICK D : D = Others(id, port) \cup Live(id, port)
  OBVIOUS
<1>3. DOMAIN store' = D
  BY <1>2, TickClonesIs
<1>4. \A k \in D : k[1] # id \/ k[2] # port => k \in DOMAIN store /\ store'[k] = store[k]
  BY <1>3, TickClonesIs
<1>5. \A k \in D : k[1] = id /\ k[2] = port =>
        /\ k = <<id, port, k[3]>> /\ \E r \in DOMAIN rows : k[3] = RowKey(id, r)
        /\ store'[k] = FedTo(id, CloneOf(id, port, k[3]), k[3])
  BY <1>3, TickClonesIs
<1> DEFINE count(k) == IF k[1] # id \/ k[2] # port THEN fed[k]
                       ELSE Capped((IF k \in DOMAIN fed THEN fed[k] ELSE 0) + Cardinality(RowsOf(id, k[3])))
<1>6. fed' = [k \in D |-> count(k)]
  <2>1. D = {k \in DOMAIN fed : k[1] # id \/ k[2] # port}
            \cup {<<id, port, RowKey(id, r)>> : r \in DOMAIN rows}
    BY <1>1, <1>2 DEF Others, Live
  <2> QED  BY <2>1 DEF Refed
<1>7. DOMAIN fed' = D /\ \A k \in D : fed'[k] = count(k)
  <2> HIDE DEF count
  <2> QED  BY <1>6
<1>8. ASSUME NEW k \in D, k[1] # id \/ k[2] # port
      PROVE  /\ store'[k].ticks = fed'[k]
             /\ k[3] \in RowKeys => store'[k].served = {k[3]}
  BY <1>1, <1>4, <1>7, <1>8
<1>9. ASSUME NEW k \in D, k[1] = id, k[2] = port
      PROVE  /\ store'[k].ticks = fed'[k]
             /\ k[3] \in RowKeys => store'[k].served = {k[3]}
  <2>1. PICK c : c = CloneOf(id, port, k[3])
    OBVIOUS
  <2>2. PICK key : key = k[3] /\ k = <<id, port, key>> /\ store'[k] = FedTo(id, c, key)
    BY <1>5, <1>9, <2>1
  <2>3. c \in [type : DOMAIN Desc, ticks : 0..MaxTicks, served : SUBSET Keys]
    BY <2>1, CloneIsTyped DEF Conformed, Current, TypeOK
  <2>4. /\ store'[k].ticks = Capped(c.ticks + Cardinality(RowsOf(id, key)))
        /\ store'[k].served = c.served \cup {rows[r] : r \in RowsOf(id, key)}
    BY <2>2, <2>3 DEF FedTo
  <2>5. /\ c.ticks = IF k \in DOMAIN fed THEN fed[k] ELSE 0
        /\ key \in RowKeys => c.served = {key} \/ c.served = {}
    <3>1. CASE k \in DOMAIN store
      BY <1>1, <2>1, <2>2, <3>1 DEF CloneOf
    <3>2. CASE k \notin DOMAIN store
      BY <1>1, <2>1, <2>2, <3>2 DEF CloneOf
    <3> QED  BY <3>1, <3>2
  <2>6. store'[k].ticks = fed'[k]
    BY <1>7, <1>9, <2>2, <2>4, <2>5
  <2>7. ASSUME key \in RowKeys  PROVE {rows[r] : r \in RowsOf(id, key)} = {key}
    <3>1. PICK r \in DOMAIN rows : key = RowKey(id, r)
      BY <1>5, <1>9, <2>2
    <3>2. DescOf(graph, id).key # NoPort
      <4>1. \A i \in DOMAIN rows : i \notin RowKeys
        BY <1>1, TickPlanAssumption DEF RowKeys
      <4> QED  BY <2>7, <3>1, <4>1 DEF RowKey
    <3>3. \A i \in DOMAIN rows : RowKey(id, i) = rows[i]
      BY <3>2 DEF RowKey
    <3>4. RowsOf(id, key) = {i \in DOMAIN rows : rows[i] = key} /\ rows[r] = key
      BY <3>1, <3>3 DEF RowsOf
    <3> QED  BY <3>4
  <2> QED  BY <2>2, <2>4, <2>5, <2>6, <2>7
<1> QED  BY <1>1, <1>3, <1>7, <1>8, <1>9 DEF Fed, Served

LEMMA ConformedKept == Conformed /\ [Next]_vars => Conformed'
<1> SUFFICES ASSUME Conformed, [Next]_vars  PROVE Conformed'
  OBVIOUS
<1>1. Current /\ Current' /\ Fed /\ Served
  BY CurrentKept DEF Conformed
<1>2. CASE UNCHANGED <<store, fed>>
  BY <1>1, <1>2 DEF Conformed, Fed, Served
<1>3. CASE TickLifted
  <2>1. PICK id, port : id = plan.order[at] /\ port = graph.edges[plan.lift[id]].in
    OBVIOUS
  <2>2. /\ at \in DOMAIN plan.order
        /\ (TickClones(id, port) /\ fed' = Refed(id, port)) \/ UNCHANGED <<store, fed>>
    BY <1>3, <2>1, TickLiftedIs
  <2>3. id \in Ids(graph)
    BY <1>1, <2>1, <2>2, PlanFacts DEF Current
  <2>4. Fed' /\ Served'
    BY <1>1, <1>2, <2>2, <2>3, TickClonesConforms DEF Conformed
  <2> QED  BY <1>1, <2>4 DEF Conformed
<1>4. CASE ~TickLifted
  <2>1. UNCHANGED <<store, fed>>
    BY <1>4 DEF vars, Next, TickBegins, TickNode, TickEnds, Edit
  <2> QED  BY <1>2, <2>1
<1> QED  BY <1>3, <1>4

\* conformability, for every descriptor, array and edit: a clone has processed the rows
\* of its key, as often as there were any since the array last went without it.
THEOREM ClonesAlwaysKeepState == Spec => []ClonesKeepState
<1>1. Conformed => ClonesKeepState
  BY DEF Conformed, Fed, Served, ClonesKeepState
<1> QED  BY ConformedAtFirst, ConformedKept, <1>1, PTL DEF Spec

-----------------------------------------------------------------------------
(* The boundary of the audio region                                        *)

\* Who holds the plan, and that a block has the live graph.
Exclusive ==
  /\ frame \in {"frame", "swap", "drain", "draining", "receive", "take", "lower", "tick", "raise",
                "latch", "capture", "collect"}
  /\ audio \in {"block", "latch", "receive", "take", "lower", "push", "pushing", "raise"}
  /\ plan_mutex \in {"free", "frame", "audio"}
  /\ generation \in Nat /\ playing \in 0..generation
  /\ plan_mutex = "audio" <=> audio # "block"
  /\ plan_mutex = "frame" <=> frame = "swap"
  /\ BlockPlaysLiveGraph

\* The event queues, as numbers and per direction.
CountTypes ==
  /\ events \in [Direction -> 0..MaxEvents] /\ applied \in [Direction -> Nat]
  /\ pending \in [Direction -> Nat]
  /\ applied_high \in [Direction -> BOOLEAN] /\ gate \in [Direction -> BOOLEAN]

\* What a consumer has found waiting goes on waiting until it takes it, and all that
\* is applied or waits was raised.
Counted ==
  /\ CountTypes
  /\ \A d \in Direction : applied[d] + pending[d] <= events[d]
  /\ frame = "take" => pending["into_frame"] > 0
  /\ audio = "take" => pending["into_block"] > 0

\* The latch holds a value the control has had, and none older than any a block had.
Latched ==
  /\ latch \in [held : BOOLEAN, value : 0..MaxValues, set : BOOLEAN]
  /\ fresh \in [waiting : BOOLEAN, param : 0..MaxValues]
  /\ control \in 0..MaxValues /\ peak \in 0..control /\ param \in 0..peak
  /\ fresh.param <= peak
  /\ latch.set => peak <= latch.value /\ latch.value <= control

\* The ring's counters: each thread's copy of the other's lags behind it.
Ordered ==
  /\ {head, tail} \subseteq Nat
  /\ producer \in [head : Nat, tail : Nat, left : 0..BlockSize]
  /\ consumer \in [head : Nat, tail : Nat]
  /\ tail <= head /\ head - tail <= Capacity
  /\ audio = "pushing" =>
       /\ head <= producer.head /\ producer.tail <= tail
       /\ producer.head - producer.tail <= Capacity
  /\ Draining => tail <= consumer.tail /\ consumer.tail <= consumer.head /\ consumer.head <= head

\* The storage, and the samples that may still be written.
Sample == 0..MaxSamples
Stored ==
  /\ buf \in [0..(Capacity - 1) -> Sample]
  /\ produced \in Sample
  /\ audio = "pushing" => produced + producer.left <= MaxSamples
  /\ accepted \in Seq(Sample) /\ taken \in Seq(Sample)

\* What lies in slots from..to-1 of a ring, and where the render thread reads.
Window(b, from, to) == [i \in 1..(to - from) |-> b[(from + i - 1) % Capacity]]
From == IF Draining THEN consumer.tail ELSE tail
Intact == accepted = taken \o Window(buf, From, head)

RingInv == Ordered /\ Stored /\ Intact
RegionInv == Exclusive /\ Counted /\ Latched /\ RingInv

-----------------------------------------------------------------------------
(* Who holds the plan                                                      *)

\* A swap and a block exclude each other, so the generation a block noted stays.
LEMMA ExclusiveInductive ==
  ASSUME Exclusive, [RegionNext]_regionVars
  PROVE  Exclusive'
  <1> USE DEF Exclusive, BlockPlaysLiveGraph
  <1>1. CASE KeepGraph \/ PauseBlocks \/ Swap
    BY <1>1 DEF KeepGraph, PauseBlocks, Swap, Frame, playback
  <1>2. CASE \/ Drain \/ LoadIntoFrame \/ ReceiveIntoFrame \/ Tick \/ RaiseIntoBlock
             \/ LockLatch \/ CaptureLatch \/ CollectEdits
    BY <1>2 DEF Drain, DrainBegins, DrainOne, DrainEnds, LoadIntoFrame, Loaded, ReceiveIntoFrame,
                Tick, RaiseIntoBlock, LockLatch, CaptureLatch, CollectEdits, Frame, playback
  <1>3. CASE Callback
    BY <1>3 DEF Callback, BlockBegins, ApplyLatch, LoadIntoBlock, Loaded, ReceiveIntoBlock, Push,
                PushBegins, PushOne, PushEnds, BlockEnds, Audio, playback
  <1>4. CASE UNCHANGED regionVars
    BY <1>4 DEF regionVars, playback
  <1> QED BY <1>1, <1>2, <1>3, <1>4 DEF RegionNext, RenderThread

\* The callback works on the active graph in every block, never on one that a swap
\* has freed.
THEOREM NeverPlaysAFreedGraph == RegionSpec => []BlockPlaysLiveGraph
  <1>1. RegionInit => Exclusive
    BY DEF RegionInit, Exclusive, BlockPlaysLiveGraph
  <1>2. Exclusive => BlockPlaysLiveGraph
    BY DEF Exclusive
  <1> QED BY <1>1, <1>2, ExclusiveInductive, PTL DEF RegionSpec

-----------------------------------------------------------------------------
(* Events                                                                  *)

\* A consumer that takes an event it found waiting applies it.
LEMMA TakeCounts ==
  ASSUME NEW d \in Direction, CountTypes, pending[d] > 0, Take(d)
  PROVE  /\ CountTypes'
         /\ \A e \in Direction : /\ applied'[e] + pending'[e] = applied[e] + pending[e]
                                 /\ e # d => pending'[e] = pending[e]
         /\ events' = events
  <1>1. /\ pending' = [pending EXCEPT ![d] = @ - 1] /\ applied' = [applied EXCEPT ![d] = @ + 1]
        /\ gate' = [gate EXCEPT ![d] = TRUE] /\ applied_high' = [applied_high EXCEPT ![d] = TRUE]
        /\ events' = events
    BY DEF Take
  <1>2. pending[d] - 1 \in Nat /\ applied[d] + 1 \in Nat
    BY DEF CountTypes
  <1>3. CountTypes'
    <2>1. pending' \in [Direction -> Nat] /\ applied' \in [Direction -> Nat]
      BY <1>1, <1>2 DEF CountTypes
    <2>2. gate' \in [Direction -> BOOLEAN] /\ applied_high' \in [Direction -> BOOLEAN]
      BY <1>1 DEF CountTypes
    <2> QED BY <1>1, <2>1, <2>2 DEF CountTypes
  <1>4. ASSUME NEW e \in Direction
        PROVE  /\ applied'[e] + pending'[e] = applied[e] + pending[e]
               /\ e # d => pending'[e] = pending[e]
    <2>1. /\ pending'[e] = IF e = d THEN pending[e] - 1 ELSE pending[e]
          /\ applied'[e] = IF e = d THEN applied[e] + 1 ELSE applied[e]
      BY <1>1 DEF CountTypes
    <2>2. pending[e] \in Nat /\ applied[e] \in Nat
      BY DEF CountTypes
    <2> QED BY <2>1, <2>2
  <1> QED BY <1>1, <1>3, <1>4

\* One that lowers its param counts nothing.
LEMMA LowerCounts ==
  ASSUME NEW d \in Direction, CountTypes, Lower(d)
  PROVE  CountTypes' /\ UNCHANGED <<events, applied, pending>>
  <1>1. /\ gate' = [gate EXCEPT ![d] = gate[d] /\ ~applied_high[d]]
        /\ applied_high' = [applied_high EXCEPT ![d] = FALSE]
        /\ UNCHANGED <<events, applied, pending>>
    BY Zenon DEF Lower
  <1>2. (gate[d] /\ ~applied_high[d]) \in BOOLEAN
    OBVIOUS
  <1>3. gate' \in [Direction -> BOOLEAN]
    BY <1>1, <1>2, Zenon DEF CountTypes
  <1>4. applied_high' \in [Direction -> BOOLEAN]
    BY <1>1, Zenon DEF CountTypes
  <1> QED BY <1>1, <1>3, <1>4 DEF CountTypes

\* A producer adds one to what is raised and to what waits, or nothing to either.
LEMMA RaiseCounts ==
  ASSUME NEW d \in Direction, CountTypes, Raise(d)
  PROVE  /\ CountTypes' /\ applied' = applied
         /\ \A e \in Direction : /\ events'[e] - pending'[e] = events[e] - pending[e]
                                 /\ pending'[e] >= pending[e]
  <1> USE RegionBounds
  <1>1. CASE UNCHANGED queues
    BY <1>1 DEF queues, CountTypes
  <1>2. CASE ~UNCHANGED queues
    <2>1. /\ events["into_block"] + events["into_frame"] < MaxEvents
          /\ events' = [events EXCEPT ![d] = @ + 1] /\ pending' = [pending EXCEPT ![d] = @ + 1]
          /\ UNCHANGED <<applied_high, gate, applied>>
      BY <1>2 DEF Raise
    <2>2. events[d] < MaxEvents /\ events[d] \in Nat
      <3>1. events["into_block"] \in Nat /\ events["into_frame"] \in Nat
        BY DEF CountTypes, Direction
      <3>2. d = "into_block" \/ d = "into_frame"
        BY DEF Direction
      <3> QED BY <2>1, <3>1, <3>2
    <2>5. events[d] + 1 \in 0..MaxEvents /\ pending[d] + 1 \in Nat
      BY <2>2 DEF CountTypes
    <2>3. events' \in [Direction -> 0..MaxEvents] /\ pending' \in [Direction -> Nat]
      BY <2>1, <2>5 DEF CountTypes
    <2>4. ASSUME NEW e \in Direction
          PROVE  events'[e] - pending'[e] = events[e] - pending[e] /\ pending'[e] >= pending[e]
      BY <2>1 DEF CountTypes
    <2> QED BY <2>1, <2>3, <2>4 DEF CountTypes
  <1> QED BY <1>1, <1>2

\* What the property says of a step.
KeepsCount ==
  \A d \in Direction : IF generation' = generation THEN Lost(d)' = Lost(d)
                                                  ELSE Lost(d)' >= Lost(d)

\* A step that is neither a swap nor touches the queues, but for what a load finds.
LEMMA QueuesRest ==
  ASSUME Counted, UNCHANGED <<queues, generation>>,
         frame' = "take" => frame = "take" \/ pending["into_frame"] > 0,
         audio' = "take" => audio = "take" \/ pending["into_block"] > 0
  PROVE  Counted' /\ KeepsCount
  BY DEF queues, Counted, CountTypes, KeepsCount, Lost

\* Steps that end a load or begin at one keep the count, and a swap, during which no
\* block is between its load and its fetch_sub, only forgets.
LEMMA CountedInductive ==
  ASSUME Exclusive, Counted, [RegionNext]_regionVars
  PROVE  Counted' /\ KeepsCount
  <1> USE DEF Counted
  <1>1. "into_frame" \in Direction /\ "into_block" \in Direction
    BY DEF Direction
  <1>2. CASE Swap
    <2>1. /\ pending' = NoEvents /\ applied_high' = AllLow
          /\ UNCHANGED <<audio, events, applied, gate>>
          /\ frame' = "drain" /\ audio' # "take"
      BY <1>2 DEF Swap, Migrate, Frame, Exclusive
    <2>2. CountTypes'
      BY <2>1 DEF CountTypes, NoEvents, AllLow
    <2>3. ASSUME NEW d \in Direction
          PROVE  applied'[d] + pending'[d] <= events'[d] /\ Lost(d)' >= Lost(d)
      <3>1. pending'[d] = 0 /\ applied'[d] = applied[d] /\ events'[d] = events[d]
        BY <2>1 DEF NoEvents
      <3>2. events[d] \in Int /\ applied[d] \in Nat /\ pending[d] \in Nat
        BY DEF CountTypes
      <3> QED BY <3>1, <3>2 DEF Lost
    <2>4. generation' # generation
      BY <1>2 DEF Swap, Exclusive
    <2> QED BY <2>1, <2>2, <2>3, <2>4 DEF KeepsCount
  <1>3. ASSUME NEW d \in Direction, Take(d), UNCHANGED generation,
               \/ frame' # "take" /\ audio' = audio /\ d = "into_frame" /\ frame = "take"
               \/ audio' # "take" /\ frame' = frame /\ d = "into_block" /\ audio = "take"
        PROVE  Counted' /\ KeepsCount
    <2>1. pending[d] > 0
      BY <1>3
    <2>2. /\ CountTypes' /\ events' = events
          /\ \A e \in Direction : /\ applied'[e] + pending'[e] = applied[e] + pending[e]
                                  /\ e # d => pending'[e] = pending[e]
      BY <1>3, <2>1, TakeCounts
    <2> HIDE DEF Counted
    <2>3. ASSUME NEW e \in Direction
          PROVE  /\ applied'[e] + pending'[e] = applied[e] + pending[e]
                 /\ e # d => pending'[e] = pending[e]
      BY <2>2, Zenon
    <2>4. ASSUME NEW e \in Direction
          PROVE  applied'[e] + pending'[e] <= events'[e] /\ Lost(e)' = Lost(e)
      <3>1. /\ events[e] \in Int /\ applied[e] \in Nat /\ pending[e] \in Nat
            /\ applied'[e] \in Nat /\ pending'[e] \in Nat
        BY <2>2 DEF CountTypes, Counted
      <3>2. applied'[e] + pending'[e] = applied[e] + pending[e] /\ events'[e] = events[e]
        BY <2>2, <2>3, Zenon
      <3>3. applied[e] + pending[e] <= events[e]
        BY DEF Counted
      <3> QED BY <3>1, <3>2, <3>3 DEF Lost
    <2>5. \A e \in Direction : applied'[e] + pending'[e] <= events'[e]
      BY <2>4
    <2>6. KeepsCount
      BY <1>3, <2>4 DEF KeepsCount
    <2>7. CASE d = "into_frame"
      <3>1. "into_block" # d
        BY <2>7
      <3>2. pending'["into_block"] = pending["into_block"]
        BY <1>1, <2>3, <3>1, Zenon
      <3>3. frame' # "take" /\ audio' = audio
        BY <1>3, <2>7
      <3> QED BY <2>2, <2>5, <2>6, <3>2, <3>3 DEF Counted
    <2>8. CASE d = "into_block"
      <3>1. "into_frame" # d
        BY <2>8
      <3>2. pending'["into_frame"] = pending["into_frame"]
        BY <1>1, <2>3, <3>1, Zenon
      <3>3. audio' # "take" /\ frame' = frame
        BY <1>3, <2>8
      <3> QED BY <2>2, <2>5, <2>6, <3>2, <3>3 DEF Counted
    <2> QED BY <2>7, <2>8 DEF Direction
  <1>4. ASSUME NEW d \in Direction, Lower(d), UNCHANGED generation,
               \/ frame' # "take" /\ audio' = audio
               \/ audio' # "take" /\ frame' = frame
        PROVE  Counted' /\ KeepsCount
    <2>1. CountTypes' /\ UNCHANGED <<events, applied, pending>>
      BY <1>4, LowerCounts
    <2> QED BY <1>4, <2>1 DEF KeepsCount, Lost
  <1>5. ASSUME NEW d \in Direction, Raise(d), UNCHANGED generation,
               \/ frame' # "take" /\ audio' = audio
               \/ audio' # "take" /\ frame' = frame
        PROVE  Counted' /\ KeepsCount
    <2>1. /\ CountTypes' /\ applied' = applied
          /\ \A e \in Direction : /\ events'[e] - pending'[e] = events[e] - pending[e]
                                  /\ pending'[e] >= pending[e]
      BY <1>5, RaiseCounts
    <2>2. ASSUME NEW e \in Direction
          PROVE  /\ applied'[e] + pending'[e] <= events'[e] /\ Lost(e)' = Lost(e)
                 /\ pending[e] > 0 => pending'[e] > 0
      <3>1. /\ events[e] \in Int /\ applied[e] \in Nat /\ pending[e] \in Nat
            /\ events'[e] \in Int /\ pending'[e] \in Nat
        BY <2>1 DEF CountTypes
      <3> QED BY <2>1, <3>1 DEF Lost
    <2> QED BY <1>1, <1>5, <2>1, <2>2 DEF KeepsCount
  <1>6. CASE ReceiveIntoFrame
    BY <1>1, <1>3, <1>4, <1>6 DEF ReceiveIntoFrame, Frame, playback
  <1>7. CASE ReceiveIntoBlock
    BY <1>1, <1>3, <1>4, <1>7 DEF ReceiveIntoBlock, Audio, playback
  <1>8. CASE RaiseIntoBlock \/ BlockEnds
    BY <1>1, <1>5, <1>8 DEF RaiseIntoBlock, BlockEnds, Frame, Audio, playback
  <1>9. CASE \/ KeepGraph \/ PauseBlocks \/ Drain \/ LoadIntoFrame \/ Tick \/ LockLatch
             \/ CaptureLatch \/ CollectEdits \/ UNCHANGED regionVars
    <2>1. /\ UNCHANGED <<queues, generation, audio>>
          /\ frame' = "take" => frame = "take" \/ pending["into_frame"] > 0
      BY <1>9 DEF KeepGraph, PauseBlocks, Drain, DrainBegins, DrainOne, DrainEnds, LoadIntoFrame,
                  Loaded, Tick, LockLatch, CaptureLatch, CollectEdits, regionVars, playback, Frame
    <2> QED BY <2>1, QueuesRest
  <1>10. CASE BlockBegins \/ ApplyLatch \/ LoadIntoBlock \/ Push
    <2>1. /\ UNCHANGED <<queues, generation, frame>>
          /\ audio' = "take" => audio = "take" \/ pending["into_block"] > 0
      BY <1>10 DEF BlockBegins, ApplyLatch, LoadIntoBlock, Loaded, Push, PushBegins, PushOne,
                   PushEnds, playback, Audio
    <2> QED BY <2>1, QueuesRest
  <1> QED BY <1>2, <1>6, <1>7, <1>8, <1>9, <1>10 DEF RegionNext, RenderThread, Callback

\* In either direction, as long as the graph stays, an event raised is applied once or
\* waits: with the producer adding between the consumer's load and its fetch_sub none is
\* lost and none is applied twice.  A swap may lose what waits and brings nothing back.
THEOREM EventsAlwaysConserved == RegionSpec => EventsConserved
  <1>1. RegionInit => Exclusive /\ Counted
    BY RegionBounds DEF RegionInit, Exclusive, BlockPlaysLiveGraph, Counted, CountTypes, NoEvents, AllLow
  <1>2. Exclusive /\ Counted /\ [RegionNext]_regionVars
          => Exclusive' /\ Counted' /\ [KeepsCount]_regionVars
    BY ExclusiveInductive, CountedInductive
  <1>3. RegionSpec => [][KeepsCount]_regionVars
    BY <1>1, <1>2, PTL DEF RegionSpec
  <1> QED BY <1>3 DEF EventsConserved, KeepsCount

-----------------------------------------------------------------------------
(* The latch                                                               *)

\* The newest value a block had, the latched value and the control never pass each
\* other; a swap takes back the param, not the peak.
LEMMA LatchedInductive ==
  ASSUME Exclusive, Latched, [RegionNext]_regionVars
  PROVE  Latched' /\ (generation' = generation /\ param' # param => param' >= peak)
  <1> USE RegionBounds DEF Latched
  <1>1. CASE UNCHANGED <<latches, fresh>>
    BY <1>1 DEF latches
  <1>2. CASE Swap
    <2>1. generation' # generation
      BY <1>2 DEF Swap, Exclusive
    <2> QED BY <1>2, <2>1 DEF Swap, Migrate, FreshLatch, NoneWaits
  <1>3. CASE Tick
    BY <1>3 DEF Tick
  <1>4. CASE LockLatch
    BY <1>4 DEF LockLatch
  <1>5. CASE CaptureLatch
    BY <1>5 DEF CaptureLatch
  <1>6. CASE ApplyLatch
    BY <1>6 DEF ApplyLatch
  <1>7. CASE CollectEdits
    <2>1. UNCHANGED latches
      BY <1>7 DEF CollectEdits
    <2>2. CASE UNCHANGED fresh
      BY <1>1, <2>1, <2>2
    <2>3. CASE fresh' = [waiting |-> TRUE, param |-> param]
      BY <2>1, <2>3 DEF latches
    <2> QED BY <1>7, <2>2, <2>3 DEF CollectEdits
  <1>8. CASE \/ KeepGraph \/ PauseBlocks \/ Drain \/ LoadIntoFrame \/ ReceiveIntoFrame
             \/ RaiseIntoBlock \/ UNCHANGED regionVars
    BY <1>1, <1>8 DEF KeepGraph, PauseBlocks, Drain, DrainBegins, DrainOne, DrainEnds,
                      LoadIntoFrame, ReceiveIntoFrame, RaiseIntoBlock, regionVars
  <1>9. CASE BlockBegins \/ LoadIntoBlock \/ ReceiveIntoBlock \/ Push \/ BlockEnds
    BY <1>1, <1>9 DEF BlockBegins, LoadIntoBlock, ReceiveIntoBlock, Push, PushBegins, PushOne,
                      PushEnds, BlockEnds
  <1> QED BY <1>2, <1>3, <1>4, <1>5, <1>6, <1>7, <1>8, <1>9 DEF RegionNext, RenderThread, Callback

\* Although a swap may put the param back to what an edit had read, whatever a block
\* applies is at least as new as all that any block has had, under any graph.
THEOREM LatchStaysInOrder == RegionSpec => LatchInOrder
  <1> DEFINE Newer == generation' = generation /\ param' # param => param' >= peak
  <1>1. RegionInit => Exclusive /\ Latched
    BY RegionBounds DEF RegionInit, Exclusive, BlockPlaysLiveGraph, Latched, FreshLatch, NoneWaits
  <1>2. Exclusive /\ Latched /\ [RegionNext]_regionVars
          => Exclusive' /\ Latched' /\ [Newer]_regionVars
    BY ExclusiveInductive, LatchedInductive
  <1>3. RegionSpec => [][Newer]_regionVars
    BY <1>1, <1>2, PTL DEF RegionSpec
  <1> QED BY <1>3 DEF LatchInOrder

-----------------------------------------------------------------------------
(* Slots of the ring                                                       *)

\* Two counters less than a lap apart never share a slot.
LEMMA SlotsDiffer ==
  ASSUME NEW x \in Nat, NEW y \in Nat, x < y, y - x < Capacity
  PROVE  x % Capacity # y % Capacity
  <1> DEFINE C == Capacity
             d == (y \div C) - (x \div C)
  <1>0. C \in Nat \ {0}
    BY RingAssumption
  <1> HIDE DEF C
  <1> SUFFICES ASSUME x % C = y % C PROVE FALSE
    BY DEF C
  <1>1. x = C * (x \div C) + (x % C) /\ x \div C \in Int
    BY <1>0
  <1>2. y = C * (y \div C) + (y % C) /\ y \div C \in Int
    BY <1>0
  <1>3. d \in Int /\ y - x = C * d
    BY <1>0, <1>1, <1>2
  <1> HIDE DEF d
  <1>4. d > 0 => C * d >= C
    BY <1>0, <1>3
  <1>5. d <= 0 => C * d <= 0
    BY <1>0, <1>3
  <1>6. y - x > 0 /\ y - x < C
    BY DEF C
  <1> QED BY <1>0, <1>3, <1>4, <1>5, <1>6

\* Every counter has a slot.
LEMMA SlotOf == ASSUME NEW x \in Nat PROVE x % Capacity \in 0..(Capacity - 1)
  BY RingAssumption

\* A window is the sequence of its slots.
LEMMA WindowIs ==
  ASSUME NEW b \in [0..(Capacity - 1) -> Sample], NEW from \in Nat, NEW to \in Nat, from <= to
  PROVE  /\ Window(b, from, to) \in Seq(Sample)
         /\ Len(Window(b, from, to)) = to - from
         /\ \A i \in 1..(to - from) : Window(b, from, to)[i] = b[(from + i - 1) % Capacity]
  <1>1. \A i \in 1..(to - from) : from + i - 1 \in Nat
    OBVIOUS
  <1>2. \A i \in 1..(to - from) : b[(from + i - 1) % Capacity] \in Sample
    BY <1>1, SlotOf
  <1>3. to - from \in Nat
    OBVIOUS
  <1> HIDE DEF Sample
  <1> QED BY <1>2, <1>3 DEF Window

\* A window read from its first slot on.
LEMMA WindowHead ==
  ASSUME NEW b \in [0..(Capacity - 1) -> Sample], NEW from \in Nat, NEW to \in Nat, from < to
  PROVE  Window(b, from, to) = << b[from % Capacity] >> \o Window(b, from + 1, to)
  <1> DEFINE w == Window(b, from, to)
             first == << b[from % Capacity] >>
             rest == Window(b, from + 1, to)
  <1>1. /\ w \in Seq(Sample) /\ Len(w) = to - from
        /\ \A i \in 1..(to - from) : w[i] = b[(from + i - 1) % Capacity]
    <2>1. from <= to
      OBVIOUS
    <2> QED BY <2>1, WindowIs
  <1>2. /\ rest \in Seq(Sample) /\ Len(rest) = to - (from + 1)
        /\ \A i \in 1..(to - (from + 1)) : rest[i] = b[(from + 1 + i - 1) % Capacity]
    <2>1. from + 1 \in Nat /\ from + 1 <= to
      OBVIOUS
    <2> QED BY <2>1, WindowIs
  <1>3. first \in Seq(Sample) /\ Len(first) = 1 /\ first[1] = b[from % Capacity]
    <2>1. b[from % Capacity] \in Sample
      BY SlotOf
    <2> HIDE DEF Sample
    <2> QED BY <2>1
  <1> HIDE DEF w, first, rest
  <1>4. /\ first \o rest \in Seq(Sample) /\ Len(first \o rest) = to - from
        /\ \A i \in 1..(to - from) : (first \o rest)[i] = IF i <= 1 THEN first[i] ELSE rest[i - 1]
    <2>1. Len(first) + Len(rest) = to - from
      BY <1>2, <1>3
    <2>2. \A i \in 1..(Len(first) + Len(rest)) :
            (first \o rest)[i] = IF i <= Len(first) THEN first[i] ELSE rest[i - Len(first)]
      BY <1>2, <1>3, ConcatProperties
    <2>3. first \o rest \in Seq(Sample) /\ Len(first \o rest) = Len(first) + Len(rest)
      BY <1>2, <1>3, ConcatProperties
    <2>4. Len(first) = 1
      BY <1>3
    <2>5. \A i \in 1..(to - from) : (first \o rest)[i] = IF i <= 1 THEN first[i] ELSE rest[i - 1]
      BY <2>1, <2>2, <2>4
    <2> QED BY <2>1, <2>3, <2>5
  <1>5. ASSUME NEW i \in 1..(to - from) PROVE w[i] = (first \o rest)[i]
    <2>1. CASE i = 1
      BY <1>1, <1>3, <1>4, <2>1
    <2>2. CASE i # 1
      <3>1. i - 1 \in 1..(to - (from + 1)) /\ from + 1 + (i - 1) - 1 = from + i - 1
        BY <2>2
      <3>2. (first \o rest)[i] = rest[i - 1]
        BY <1>4, <2>2
      <3>3. rest[i - 1] = b[(from + i - 1) % Capacity]
        BY <1>2, <3>1
      <3> QED BY <1>1, <3>2, <3>3
    <2> QED BY <2>1, <2>2
  <1>6. w = first \o rest
    BY <1>1, <1>4, <1>5, SeqEqual
  <1> QED BY <1>6 DEF w, first, rest

\* Two windows side by side are one.
LEMMA WindowJoin ==
  ASSUME NEW b \in [0..(Capacity - 1) -> Sample],
         NEW from \in Nat, NEW mid \in Nat, NEW to \in Nat, from <= mid, mid <= to
  PROVE  Window(b, from, mid) \o Window(b, mid, to) = Window(b, from, to)
  <1> DEFINE w == Window(b, from, to)
             l == Window(b, from, mid)
             r == Window(b, mid, to)
  <1>1. /\ w \in Seq(Sample) /\ Len(w) = to - from
        /\ \A i \in 1..(to - from) : w[i] = b[(from + i - 1) % Capacity]
    <2>1. from <= to
      OBVIOUS
    <2> QED BY <2>1, WindowIs
  <1>2. /\ l \in Seq(Sample) /\ Len(l) = mid - from
        /\ \A i \in 1..(mid - from) : l[i] = b[(from + i - 1) % Capacity]
    BY WindowIs
  <1>3. /\ r \in Seq(Sample) /\ Len(r) = to - mid
        /\ \A i \in 1..(to - mid) : r[i] = b[(mid + i - 1) % Capacity]
    BY WindowIs
  <1> HIDE DEF w, l, r
  <1>4. /\ l \o r \in Seq(Sample) /\ Len(l \o r) = to - from
        /\ \A i \in 1..(to - from) : (l \o r)[i] = IF i <= mid - from THEN l[i] ELSE r[i - (mid - from)]
    BY <1>2, <1>3, ConcatProperties
  <1>5. ASSUME NEW i \in 1..(to - from) PROVE w[i] = (l \o r)[i]
    <2>1. CASE i <= mid - from
      <3>1. i \in 1..(mid - from)
        BY <2>1
      <3> QED BY <1>1, <1>2, <1>4, <2>1, <3>1
    <2>2. CASE ~(i <= mid - from)
      <3>1. i - (mid - from) \in 1..(to - mid) /\ mid + (i - (mid - from)) - 1 = from + i - 1
        BY <2>2
      <3> QED BY <1>1, <1>3, <1>4, <2>2, <3>1
    <2> QED BY <2>1, <2>2
  <1>6. w = l \o r
    BY <1>1, <1>4, <1>5, SeqEqual
  <1> QED BY <1>6 DEF w, l, r

\* A write ahead of a window, less than a lap from its start, leaves it alone.
LEMMA WindowKeeps ==
  ASSUME NEW b \in [0..(Capacity - 1) -> Sample], NEW x \in Sample,
         NEW from \in Nat, NEW to \in Nat, NEW j \in Nat,
         from <= to, to <= j, j - from < Capacity
  PROVE  Window([b EXCEPT ![j % Capacity] = x], from, to) = Window(b, from, to)
  <1> DEFINE c == [b EXCEPT ![j % Capacity] = x]
  <1>1. ASSUME NEW i \in 1..(to - from) PROVE c[(from + i - 1) % Capacity] = b[(from + i - 1) % Capacity]
    <2>1. from + i - 1 \in Nat /\ from + i - 1 < j /\ j - (from + i - 1) < Capacity
      BY RingAssumption
    <2>2. (from + i - 1) % Capacity # j % Capacity
      BY <2>1, SlotsDiffer
    <2>3. (from + i - 1) % Capacity \in 0..(Capacity - 1)
      BY <2>1, SlotOf
    <2> QED BY <2>2, <2>3
  <1> HIDE DEF c
  <1>2. Window(c, from, to) = Window(b, from, to)
    BY <1>1 DEF Window
  <1> QED BY <1>2 DEF c

-----------------------------------------------------------------------------
(* The ring                                                                *)

\* The ring's variables in the parts that its steps use one by one.
LEMMA RingFacts ==
  ASSUME RingInv
  PROVE  /\ head \in Nat /\ tail \in Nat
         /\ producer.head \in Nat /\ producer.tail \in Nat /\ producer.left \in 0..BlockSize
         /\ consumer.head \in Nat /\ consumer.tail \in Nat
         /\ produced \in Nat /\ produced <= MaxSamples
         /\ From \in Nat /\ tail <= From /\ From <= head
  <1>1. /\ head \in Nat /\ tail \in Nat
        /\ producer.head \in Nat /\ producer.tail \in Nat /\ producer.left \in 0..BlockSize
        /\ consumer.head \in Nat /\ consumer.tail \in Nat
    BY DEF RingInv, Ordered
  <1>2. produced \in Nat /\ produced <= MaxSamples
    BY RegionBounds DEF RingInv, Stored, Sample
  <1>3. From \in Nat /\ tail <= From /\ From <= head
    BY <1>1 DEF RingInv, Ordered, From
  <1> QED BY <1>1, <1>2, <1>3

\* What one more sample does to the producer's numbers.
LEMMA OneMoreSample ==
  ASSUME NEW h \in Nat, NEW t \in Nat, NEW ph \in Nat, NEW pt \in Nat, NEW from \in Nat,
         NEW left \in 0..BlockSize, NEW p \in Nat,
         h <= ph, pt <= t, t <= from, ph - pt < Capacity,
         left > 0, p + left <= MaxSamples
  PROVE  /\ h <= ph + 1 /\ ph + 1 - pt <= Capacity /\ ph - from < Capacity
         /\ left - 1 \in 0..BlockSize
         /\ p + 1 \in Sample /\ p + 1 + (left - 1) <= MaxSamples
  <1> USE RingAssumption, RegionBounds
  <1>1. h <= ph + 1 /\ ph + 1 - pt <= Capacity
    OBVIOUS
  <1>2. ph - from < Capacity
    OBVIOUS
  <1>3. left - 1 \in 0..BlockSize
    OBVIOUS
  <1>4. p + 1 \in Sample
    BY DEF Sample
  <1>5. p + 1 + (left - 1) <= MaxSamples
    OBVIOUS
  <1> QED BY <1>1, <1>2, <1>3, <1>4, <1>5

\* The callback's half: it copies the counters, fills slots that are free, and
\* makes them visible.
LEMMA PushKeepsRing ==
  ASSUME Exclusive, RingInv, Push
  PROVE  RingInv'
  <1>0. /\ BlockSize \in Nat /\ Capacity \in Nat /\ MaxSamples \in Nat
        /\ buf \in [0..(Capacity - 1) -> Sample] /\ accepted \in Seq(Sample) /\ taken \in Seq(Sample)
        /\ consumer \in [head : Nat, tail : Nat]
    BY RegionBounds, RingAssumption DEF RingInv, Ordered, Stored
  <1>1. CASE PushBegins
    <2>1. PICK n \in {0, BlockSize} :
            /\ produced + n <= MaxSamples
            /\ producer' = [head |-> head, tail |-> tail, left |-> n]
      BY <1>1 DEF PushBegins
    <2>2. n \in 0..BlockSize
      BY <1>0
    <2>3. UNCHANGED <<frame, buf, head, tail, consumer, accepted, taken, produced>>
      BY <1>1 DEF PushBegins
    <2>4. tail <= head /\ head - tail <= Capacity /\ head <= head /\ tail <= tail
      BY RingFacts DEF RingInv, Ordered
    <2>5. Ordered'
      <3>1. producer' \in [head : Nat, tail : Nat, left : 0..BlockSize]
        BY <2>1, <2>2, RingFacts
      <3>2. producer'.head = head /\ producer'.tail = tail
        BY <2>1
      <3> QED BY <2>3, <2>4, <3>1, <3>2 DEF RingInv, Ordered, Draining
    <2>6. Stored'
      BY <2>1, <2>3 DEF RingInv, Stored
    <2>7. Intact'
      BY <2>3 DEF RingInv, Intact, From, Draining
    <2> QED BY <2>5, <2>6, <2>7 DEF RingInv
  <1>2. CASE PushOne
    <2> DEFINE ph == producer.head
               pt == producer.tail
               left == producer.left
               slot == ph % Capacity
    <2>1. /\ audio = "pushing" /\ audio' = "pushing"
          /\ left > 0 /\ ph - pt < Capacity
          /\ buf' = [buf EXCEPT ![slot] = produced + 1]
          /\ produced' = produced + 1
          /\ UNCHANGED <<frame, head, tail, consumer, accepted, taken>>
      BY <1>2 DEF PushOne, HasRoom, Audio
    <2>2. producer' = [head |-> ph + 1, tail |-> pt, left |-> left - 1]
      <3>1. producer' = [producer EXCEPT !.head = ph + 1, !.left = left - 1]
        BY <1>2 DEF PushOne
      <3>2. producer \in [head : Nat, tail : Nat, left : 0..BlockSize]
        BY DEF RingInv, Ordered
      <3> QED BY <3>1, <3>2
    <2>3. head <= ph /\ pt <= tail /\ produced + left <= MaxSamples
      BY <2>1 DEF RingInv, Ordered, Stored
    <2>4. /\ head \in Nat /\ tail \in Nat /\ From \in Nat /\ tail <= From /\ From <= head
          /\ produced \in Nat /\ ph \in Nat /\ pt \in Nat /\ left \in 0..BlockSize
      BY RingFacts
    <2> HIDE DEF ph, pt, left
    <2>5. /\ head <= ph + 1 /\ ph + 1 - pt <= Capacity /\ ph - From < Capacity
          /\ left - 1 \in 0..BlockSize
          /\ produced + 1 \in Sample /\ produced + 1 + (left - 1) <= MaxSamples
      BY <2>1, <2>3, <2>4, OneMoreSample
    <2>6. /\ producer' \in [head : Nat, tail : Nat, left : 0..BlockSize]
          /\ producer'.head = ph + 1 /\ producer'.tail = pt /\ producer'.left = left - 1
      BY <2>2, <2>4, <2>5
    <2>7. Ordered'
      <3>1. /\ head <= producer'.head /\ producer'.tail <= tail
            /\ producer'.head - producer'.tail <= Capacity
        <4>1. ph \in Nat /\ pt \in Nat /\ Capacity \in Nat
          BY <1>0, <2>4
        <4>2. producer'.head = ph + 1 /\ producer'.tail = pt
          BY <2>6
        <4>3. head <= producer'.head
          BY <2>5, <4>2
        <4>4. producer'.tail <= tail
          BY <2>3, <4>2
        <4>5. producer'.head - producer'.tail <= Capacity
          BY <2>5, <4>1, <4>2
        <4> QED BY <4>3, <4>4, <4>5
      <3>2. /\ consumer \in [head : Nat, tail : Nat] /\ tail <= head /\ head - tail <= Capacity
            /\ frame = "draining" =>
                 tail <= consumer.tail /\ consumer.tail <= consumer.head /\ consumer.head <= head
        BY DEF RingInv, Ordered, Draining
      <3> QED BY <2>1, <2>4, <2>6, <3>1, <3>2 DEF Ordered, Draining
    <2>8. Stored'
      <3>1. buf' \in [0..(Capacity - 1) -> Sample]
        BY <1>0, <2>1, <2>5
      <3> QED BY <1>0, <2>1, <2>5, <2>6, <3>1 DEF Stored
    <2>9. Intact'
      <3>1. Window([buf EXCEPT ![ph % Capacity] = produced + 1], From, head)
              = Window(buf, From, head)
        <4>1. /\ buf \in [0..(Capacity - 1) -> Sample] /\ From <= head /\ head <= ph /\ ph - From < Capacity
              /\ From \in Nat /\ head \in Nat /\ ph \in Nat /\ produced + 1 \in Sample
          BY <1>0, <2>3, <2>4, <2>5
        <4> QED BY <4>1, WindowKeeps, ZenonT(60)
      <3>2. accepted = taken \o Window(buf', From, head)
        BY <2>1, <3>1 DEF RingInv, Intact
      <3> QED BY <2>1, <3>2 DEF Intact, From, Draining
    <2> QED BY <2>7, <2>8, <2>9 DEF RingInv
  <1>3. CASE PushEnds
    <2>1. /\ audio = "pushing" /\ audio' = "raise"
          /\ head' = producer.head /\ producer' = NotPushing
          /\ produced' = produced + producer.left
          /\ accepted' = accepted \o Window(buf, head, producer.head)
          /\ UNCHANGED <<frame, buf, tail, consumer, taken>>
      BY <1>3 DEF PushEnds, Audio, Window
    <2>2. /\ head <= producer.head /\ producer.tail <= tail
          /\ producer.head - producer.tail <= Capacity
          /\ produced + producer.left <= MaxSamples
      BY <2>1 DEF RingInv, Ordered, Stored
    <2>3. /\ Window(buf, head, producer.head) \in Seq(Sample)
          /\ Window(buf, From, head) \in Seq(Sample)
      BY <1>0, <2>2, RingFacts, WindowIs
    <2>4. Ordered'
      <3>1. tail <= producer.head /\ producer.head - tail <= Capacity
        BY <1>0, <2>2, RingFacts
      <3>2. producer' \in [head : Nat, tail : Nat, left : 0..BlockSize]
        BY <1>0, <2>1 DEF NotPushing
      <3>3. Draining => /\ tail <= consumer.tail /\ consumer.tail <= consumer.head
                        /\ consumer.head <= producer.head
        BY <2>2, RingFacts DEF RingInv, Ordered
      <3> QED BY <1>0, <2>1, <3>1, <3>2, <3>3, RingFacts DEF Ordered, Draining
    <2>5. Stored'
      <3>1. accepted' \in Seq(Sample)
        BY <1>0, <2>1, <2>3, ConcatProperties
      <3>2. produced + producer.left \in Sample
        BY <1>0, <2>2, RingFacts DEF Sample
      <3> QED BY <1>0, <2>1, <3>1, <3>2 DEF Stored
    <2>6. Intact'
      <3> DEFINE w == Window(buf, From, head)
                 more == Window(buf, head, producer.head)
      <3>1. accepted = taken \o w /\ accepted' = accepted \o more
        BY <2>1 DEF RingInv, Intact
      <3>2. w \o more = Window(buf, From, producer.head)
        BY <1>0, <2>2, RingFacts, WindowJoin
      <3>3. w \in Seq(Sample) /\ more \in Seq(Sample)
        BY <2>3
      <3> HIDE DEF w, more, Sample
      <3>4. accepted' = taken \o (w \o more)
        <4>1. taken \in Seq(Sample)
          BY <1>0
        <4>2. (taken \o w) \o more = taken \o (w \o more)
          BY <3>3, <4>1, ConcatAssociative
        <4> QED BY <3>1, <4>2
      <3> QED BY <2>1, <3>2, <3>4 DEF Intact, From, Draining
    <2> QED BY <2>4, <2>5, <2>6 DEF RingInv
  <1> QED BY <1>1, <1>2, <1>3 DEF Push

\* The render thread's half: it copies the counters, reads slot after slot, and
\* frees them.
LEMMA DrainKeepsRing ==
  ASSUME Exclusive, RingInv, Drain
  PROVE  RingInv'
  <1>1. CASE DrainBegins \/ DrainEnds
    <2> USE RingAssumption DEF RingInv, Ordered, Stored, Frame, Draining
    <2>1. UNCHANGED <<audio, buf, head, producer, accepted, taken, produced>>
      BY <1>1 DEF DrainBegins, DrainEnds
    <2>2. From' = From
      BY <1>1 DEF DrainBegins, DrainEnds, From
    <2>3. Ordered'
      BY <1>1 DEF DrainBegins, DrainEnds, NotDraining
    <2>4. Stored' /\ Intact'
      BY <2>1, <2>2 DEF Intact
    <2> QED BY <2>3, <2>4
  <1>2. CASE DrainOne
    <2>1. /\ Draining /\ Draining' /\ consumer.tail < consumer.head
          /\ taken' = Append(taken, buf[consumer.tail % Capacity])
          /\ UNCHANGED <<audio, buf, head, tail, producer, accepted, produced>>
      BY <1>2 DEF DrainOne, Frame, Draining
    <2>2. consumer' = [head |-> consumer.head, tail |-> consumer.tail + 1]
      BY <1>2 DEF DrainOne, RingInv, Ordered
    <2>3. Ordered'
      BY <2>1, <2>2 DEF RingInv, Ordered, Draining
    <2> DEFINE from == consumer.tail
               next == buf[from % Capacity]
               rest == Window(buf, from + 1, head)
    <2>4. /\ from \in Nat /\ from + 1 \in Nat /\ from < head /\ from + 1 <= head
          /\ From = from /\ From' = from + 1
      BY <2>1, <2>2, RingFacts DEF From, RingInv, Ordered
    <2>5. /\ buf \in [0..(Capacity - 1) -> Sample] /\ next \in Sample
          /\ taken \in Seq(Sample) /\ head \in Nat
      BY <2>4, SlotOf, RingFacts DEF RingInv, Stored
    <2>6. taken' \in Seq(Sample) /\ taken' = taken \o << next >> /\ << next >> \in Seq(Sample)
      <3>1. taken' = Append(taken, next)
        BY <2>1
      <3> HIDE DEF next, Sample
      <3> QED BY <2>5, <3>1
    <2>7. Stored'
      BY <2>1, <2>6 DEF RingInv, Stored
    <2>8. Intact'
      <3>1. Window(buf, from, head) = << next >> \o rest
        BY <2>4, <2>5, WindowHead
      <3>2. rest \in Seq(Sample)
        BY <2>4, <2>5, WindowIs
      <3>3. accepted = taken \o (<< next >> \o rest)
        BY <2>4, <3>1 DEF RingInv, Intact
      <3> HIDE DEF rest, next, from, Sample
      <3>4. accepted = (taken \o << next >>) \o rest
        BY <2>5, <2>6, <3>2, <3>3, ConcatAssociative
      <3> QED BY <2>1, <2>4, <2>6, <3>4 DEF Intact, rest
    <2> QED BY <2>3, <2>7, <2>8 DEF RingInv
  <1> QED BY <1>1, <1>2 DEF Drain

\* A swap finds no block running and leaves an empty ring; nothing else touches it.
LEMMA RingInductive ==
  ASSUME Exclusive, RingInv, [RegionNext]_regionVars
  PROVE  RingInv'
  <1> USE DEF RingInv, Ordered, Stored, Intact, From, Draining
  <1>1. CASE Swap
    <2>1. /\ audio = "block" /\ audio' = "block" /\ frame' = "drain"
          /\ buf' = EmptyRing /\ head' = 0 /\ tail' = 0
          /\ accepted' = << >> /\ taken' = << >>
          /\ UNCHANGED <<producer, consumer, produced>>
      BY <1>1 DEF Swap, Frame, Exclusive
    <2>2. Ordered'
      BY <2>1, RingAssumption
    <2>3. Stored'
      BY <2>1, RegionBounds DEF EmptyRing, Sample
    <2>4. Intact'
      BY <2>1 DEF Window
    <2> QED BY <2>2, <2>3, <2>4
  <1>2. CASE /\ UNCHANGED <<ring, produced>>
             /\ audio' = "pushing" => audio = "pushing"
             /\ (frame' = "draining" <=> frame = "draining")
    BY <1>2 DEF ring
  <1>3. CASE \/ KeepGraph \/ PauseBlocks \/ LoadIntoFrame \/ ReceiveIntoFrame \/ Tick
             \/ RaiseIntoBlock \/ LockLatch \/ CaptureLatch \/ CollectEdits
    <2>1. /\ UNCHANGED <<ring, produced, audio>>
          /\ (frame' = "draining" <=> frame = "draining")
      BY <1>3 DEF KeepGraph, PauseBlocks, LoadIntoFrame, Loaded, ReceiveIntoFrame, Tick,
                  RaiseIntoBlock, LockLatch, CaptureLatch, CollectEdits, Frame
    <2> QED BY <1>2, <2>1
  <1>4. CASE \/ BlockBegins \/ ApplyLatch \/ LoadIntoBlock \/ ReceiveIntoBlock \/ BlockEnds
             \/ UNCHANGED regionVars
    <2>1. /\ UNCHANGED <<ring, produced, frame>>
          /\ audio' = "pushing" => audio = "pushing"
      BY <1>4 DEF BlockBegins, ApplyLatch, LoadIntoBlock, Loaded, ReceiveIntoBlock, BlockEnds, Audio,
                  regionVars
    <2> QED BY <1>2, <2>1
  <1> HIDE DEF RingInv
  <1> QED BY <1>1, <1>2, <1>3, <1>4, DrainKeepsRing, PushKeepsRing
          DEF RegionNext, RenderThread, Callback

\* No sample is overwritten before it is read, read twice, or read before it is
\* written: what the render thread has taken and what lies between the counters is
\* what the callback pushed, in any ring and at any point of the two loops.
THEOREM RingStaysIntact == RegionSpec => []RingIntact
  <1>1. RegionInit => RegionInv
    <2>1. RegionInit => Exclusive /\ Counted /\ Latched
      BY RegionBounds DEF RegionInit, Exclusive, BlockPlaysLiveGraph, Counted, CountTypes, NoEvents,
                          AllLow, Latched, FreshLatch, NoneWaits
    <2>2. RegionInit => Ordered /\ Stored
      BY RegionBounds, RingAssumption
         DEF RegionInit, Ordered, Stored, NotPushing, NotDraining, Draining, EmptyRing, Sample
    <2>3. RegionInit => Intact
      BY DEF RegionInit, Intact, From, Draining, Window
    <2> QED BY <2>1, <2>2, <2>3 DEF RegionInv, RingInv
  <1>2. RegionInv /\ [RegionNext]_regionVars => RegionInv'
    BY ExclusiveInductive, CountedInductive, LatchedInductive, RingInductive DEF RegionInv
  <1>3. RegionInv => RingIntact
    <2> SUFFICES ASSUME RegionInv PROVE RingIntact
      OBVIOUS
    <2>1. pending \in [Direction -> 0..MaxEvents]
      <3>1. \A d \in Direction : pending[d] \in 0..MaxEvents
        BY RegionBounds DEF RegionInv, Counted, CountTypes
      <3> QED BY <3>1 DEF RegionInv, Counted, CountTypes
    <2>2. RegionTypeOK
      BY <2>1, RegionBounds, SMTT(60) DEF RegionInv, Exclusive, Counted, CountTypes, Latched, RingInv, Ordered,
                                 Stored, Sample, RegionTypeOK
    <2> QED BY <2>2 DEF RegionInv, RingInv, Intact, From, Window, RingIntact
  <1> QED BY <1>1, <1>2, <1>3, PTL DEF RegionSpec

================================================================================
