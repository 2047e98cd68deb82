----------------------------- MODULE MpscProofs -----------------------------
(***************************************************************************)
(* Proofs about the lock-free queue of Mpsc.tla, for any number of         *)
(* producers, any address pool and any number of values.                   *)
(***************************************************************************)
EXTENDS Mpsc, SequenceTheorems, TLAPS

-----------------------------------------------------------------------------
(* Sequences as the proofs use them: length and elements.                  *)

\* A value appended to a sequence: what drain's push_back and the
\* linearization of a push do.
LEMMA AppendFacts ==
  ASSUME NEW S, NEW s \in Seq(S), NEW e \in S
  PROVE  /\ Append(s, e) \in Seq(S)
         /\ Len(Append(s, e)) = Len(s) + 1
         /\ \A i \in 1..Len(s) : Append(s, e)[i] = s[i]
         /\ Append(s, e)[Len(s) + 1] = e
  BY AppendProperties

\* A node published in front of the chain.
LEMMA PrependFacts ==
  ASSUME NEW S, NEW s \in Seq(S), NEW e \in S
  PROVE  /\ <<e>> \o s \in Seq(S)
         /\ Len(<<e>> \o s) = Len(s) + 1
         /\ (<<e>> \o s)[1] = e
         /\ \A i \in 2..(Len(s) + 1) : (<<e>> \o s)[i] = s[i - 1]
         /\ <<e>> \o s # << >>
<1>1. <<e>> \in Seq(S) /\ Len(<<e>>) = 1 /\ <<e>>[1] = e
  OBVIOUS
<1> QED  BY <1>1, ConcatProperties

\* The consumer's cursor steps over the first node of what it took.
LEMMA TailFacts ==
  ASSUME NEW S, NEW s \in Seq(S), s # << >>
  PROVE  /\ Tail(s) \in Seq(S)
         /\ Len(s) \in Nat \ {0}
         /\ Len(Tail(s)) = Len(s) - 1
         /\ \A i \in 1..(Len(s) - 1) : Tail(s)[i] = s[i + 1]
         /\ Tail(s) = << >> <=> Len(s) = 1
<1>1. Len(s) \in Nat \ {0}
  BY EmptySeq
<1>2. /\ Tail(s) \in Seq(S)
      /\ Len(Tail(s)) = Len(s) - 1
      /\ \A i \in 1..(Len(s) - 1) : Tail(s)[i] = s[i + 1]
  BY <1>1, HeadTailProperties
<1>3. Tail(s) = << >> <=> Len(s) = 1
  BY <1>1, <1>2, EmptySeq
<1> QED  BY <1>1, <1>2, <1>3

\* The final swap loop keeps the prefix and reverses the rest.
LEMMA ReversedFacts ==
  ASSUME NEW S, NEW s \in Seq(S), NEW from \in 0..Len(s)
  PROVE  /\ Reversed(s, from) \in Seq(S)
         /\ Len(Reversed(s, from)) = Len(s)
         /\ \A i \in 1..from : Reversed(s, from)[i] = s[i]
         /\ \A i \in (from + 1)..Len(s) :
              Reversed(s, from)[i] = s[from + Len(s) + 1 - i]
<1> DEFINE f(i) == IF i <= from THEN s[i] ELSE s[from + Len(s) + 1 - i]
<1>1. \A i \in 1..Len(s) : f(i) \in S
  BY ElementOfSeq
<1>2. Reversed(s, from) = [i \in 1..Len(s) |-> f(i)]
  BY DEF Reversed
<1>3. Reversed(s, from) \in [1..Len(s) -> S] /\ Len(s) \in Nat
  BY <1>1, <1>2
<1>4. Reversed(s, from) \in Seq(S) /\ Len(Reversed(s, from)) = Len(s)
  BY <1>3
<1> QED  BY <1>2, <1>4

-----------------------------------------------------------------------------
(* The inductive invariant                                                 *)

\* Init establishes the invariant.
LEMMA InitIInv == Init => IInv
<1> SUFFICES ASSUME Init PROVE IInv
  OBVIOUS
<1> USE NullAssumption, PerProducerAssumption DEF Init
<1>1. TypeOK
  BY DEF TypeOK, Pushed
<1>2. Control
  BY DEF Control
<1>3. ListIntact /\ NoUseAfterFree
  BY DEF ListIntact, Linked, NoUseAfterFree, Private
<1>4. Fifo
  BY DEF Fifo
<1>5. Tagged /\ ProducerOrder
  BY DEF Tagged, ProducerOrder
<1> QED  BY <1>1, <1>2, <1>3, <1>4, <1>5 DEF IInv

\* Taking a fresh address disturbs neither list.
LEMMA AllocStep ==
  ASSUME IInv, NEW p \in Producer, Alloc(p)
  PROVE  IInv'
<1> USE NullAssumption, PerProducerAssumption DEF heapvars, prodvars, consvars, auxvars
<1>1. PICK a \in free : /\ own' = [own EXCEPT ![p] = a]
                        /\ free' = free \ {a}
                        /\ val' = [val EXCEPT ![a] = <<p, sent[p] + 1>>]
  BY DEF Alloc
<1>2. a \in Addr /\ sent[p] + 1 \in 1..PerProducer /\ sent[p] \in 0..PerProducer
  BY DEF IInv, TypeOK, Alloc
<1>3. /\ pc[p] = "idle" /\ pc' = [pc EXCEPT ![p] = "load"]
      /\ sent' = [sent EXCEPT ![p] = @ + 1]
      /\ UNCHANGED <<head, nxt, cpc, cur, out, start, order, chain, taken>>
  BY DEF Alloc
<1>4. TypeOK'
  BY <1>1, <1>2, <1>3 DEF IInv, TypeOK, Pushed
<1>5. Control'
  <2>1. own' \in [Producer -> Addr \cup {Null}] /\ own'[p] = a
    BY <1>1, <1>2 DEF IInv, TypeOK
  <2>2. val'[a] = <<p, sent'[p]>> /\ sent'[p] >= 1
    BY <1>1, <1>2, <1>3 DEF IInv, TypeOK
  <2>3. ASSUME NEW q \in Producer, q # p
        PROVE  IF pc'[q] = "idle" THEN own'[q] = Null
                                  ELSE /\ own'[q] \in Addr
                                       /\ sent'[q] >= 1
                                       /\ val'[own'[q]] = <<q, sent'[q]>>
    <3>1. pc'[q] = pc[q] /\ own'[q] = own[q] /\ sent'[q] = sent[q]
      BY <1>1, <1>3, <2>3 DEF IInv, TypeOK
    <3>2. CASE pc[q] = "idle"
      BY <3>1, <3>2 DEF IInv, Control
    <3>3. CASE pc[q] # "idle"
      <4>1. own[q] \in Private
        BY <3>3 DEF Private
      <4>2. own[q] # a
        BY <4>1 DEF IInv, NoUseAfterFree
      <4> QED  BY <1>1, <1>2, <3>1, <3>3, <4>2 DEF IInv, TypeOK, Control
    <3> QED  BY <3>2, <3>3
  <2>4. \A b \in Addr : b \notin free' => val'[b] # << >>
    BY <1>1, <1>2 DEF IInv, TypeOK, Control
  <2>5. pc'[p] = "load"
    BY <1>3 DEF IInv, TypeOK
  <2> QED  BY <1>2, <1>3, <2>1, <2>2, <2>3, <2>4, <2>5 DEF IInv, Control
<1>6. ListIntact'
  BY <1>3 DEF IInv, ListIntact, Linked
<1>7. Private' = Private \cup {a}
  BY <1>1, <1>2, <1>3 DEF IInv, TypeOK, Private
<1>8. NoUseAfterFree'
  BY <1>1, <1>2, <1>3, <1>7 DEF IInv, TypeOK, NoUseAfterFree, Private
<1>9. Fifo'
  <2>1. \A j \in 1..Len(chain) : val'[chain[j]] = val[chain[j]]
    BY <1>1, <1>2 DEF IInv, TypeOK, NoUseAfterFree
  <2>2. \A j \in 1..Len(taken) : val'[taken[j]] = val[taken[j]]
    BY <1>1, <1>2 DEF IInv, TypeOK, NoUseAfterFree
  <2> QED  BY <1>3, <2>1, <2>2 DEF IInv, Fifo
<1>10. Tagged' /\ ProducerOrder'
  BY <1>2, <1>3 DEF IInv, TypeOK, Tagged, Finished, ProducerOrder, Pushed
<1> QED  BY <1>4, <1>5, <1>6, <1>8, <1>9, <1>10 DEF IInv

\* Writing the next field of a private node disturbs neither list.  This is
\* the step of LoadHead and of a failing compare-exchange.
LEMMA RelinkStep ==
  ASSUME IInv, NEW p \in Producer, pc[p] # "idle",
         nxt' = [nxt EXCEPT ![own[p]] = head],
         pc' \in {pc, [pc EXCEPT ![p] = "cas"]},
         UNCHANGED <<head, val, free, own, sent, consvars, auxvars>>
  PROVE  IInv'
<1> USE NullAssumption, PerProducerAssumption DEF consvars, auxvars
<1>1. own[p] \in Addr
  BY DEF IInv, TypeOK, Control
<1>2. \A q \in Producer : pc'[q] = "idle" <=> pc[q] = "idle"
  BY DEF IInv, TypeOK
<1>3. TypeOK'
  BY <1>1 DEF IInv, TypeOK
<1>4. Control'
  BY <1>2 DEF IInv, TypeOK, Control
<1>5. Private' = Private
  BY <1>2 DEF Private
<1>6. ListIntact'
  <2>1. own[p] \in Private
    BY DEF Private
  <2>2. \A i \in 1..Len(chain) : nxt'[chain[i]] = nxt[chain[i]]
    BY <2>1 DEF IInv, TypeOK, NoUseAfterFree
  <2>3. \A i \in 1..Len(taken) : nxt'[taken[i]] = nxt[taken[i]]
    BY <2>1 DEF IInv, TypeOK, NoUseAfterFree
  <2> QED  BY <2>2, <2>3 DEF IInv, ListIntact, Linked
<1>7. NoUseAfterFree'
  BY <1>2, <1>5 DEF IInv, NoUseAfterFree
<1>8. Fifo'
  BY DEF IInv, Fifo
<1>9. Tagged' /\ ProducerOrder'
  BY <1>2 DEF IInv, TypeOK, Tagged, Finished, ProducerOrder, Pushed
<1> QED  BY <1>3, <1>4, <1>6, <1>7, <1>8, <1>9 DEF IInv

\* Publication: the node moves from its producer to the front of the chain.
LEMMA CasStep ==
  ASSUME IInv, NEW p \in Producer, CasSucceeds(p)
  PROVE  IInv'
<1> USE NullAssumption, PerProducerAssumption DEF heapvars, consvars
<1> DEFINE a == own[p]
<1>1. /\ pc[p] = "cas" /\ head = nxt[a] /\ head' = a
      /\ order' = Append(order, val[a])
      /\ chain' = <<a>> \o chain
      /\ pc' = [pc EXCEPT ![p] = "idle"]
      /\ own' = [own EXCEPT ![p] = Null]
      /\ UNCHANGED <<val, nxt, free, sent, cpc, cur, out, start, taken>>
  BY DEF CasSucceeds
<1>2. /\ a \in Addr /\ sent[p] \in 1..PerProducer
      /\ val[a] = <<p, sent[p]>> /\ val[a] \in Pushed
  <2>1. a \in Addr /\ sent[p] >= 1 /\ val[a] = <<p, sent[p]>>
    BY <1>1 DEF IInv, Control
  <2>2. sent[p] \in 1..PerProducer
    BY <2>1 DEF IInv, TypeOK
  <2> QED  BY <2>1, <2>2 DEF Pushed
<1>3. /\ chain \in Seq(Addr) /\ chain' \in Seq(Addr)
      /\ Len(chain) \in Nat /\ Len(chain') = Len(chain) + 1
      /\ chain'[1] = a /\ chain' # << >>
      /\ \A i \in 2..(Len(chain) + 1) : chain'[i] = chain[i - 1]
  BY <1>1, <1>2, PrependFacts DEF IInv, TypeOK
<1>4. /\ order \in Seq(Pushed) /\ order' \in Seq(Pushed)
      /\ Len(order) \in Nat /\ Len(order') = Len(order) + 1
      /\ order'[Len(order) + 1] = val[a]
      /\ \A i \in 1..Len(order) : order'[i] = order[i]
  BY <1>1, <1>2, AppendFacts DEF IInv, TypeOK
<1>5. a \in Private
  BY <1>1 DEF Private
<1>6. a \notin free
  BY <1>5 DEF IInv, NoUseAfterFree
<1>7. /\ \A i \in 1..Len(chain) : chain[i] # a
      /\ \A i \in 1..Len(taken) : taken[i] # a
  BY <1>5 DEF IInv, NoUseAfterFree
<1>8. Private' = Private \ {a}
  <2>1. \A q \in Producer : q # p => pc'[q] = pc[q] /\ own'[q] = own[q]
    BY <1>1 DEF IInv, TypeOK
  <2>2. pc'[p] = "idle"
    BY <1>1 DEF IInv, TypeOK
  <2>3. \A q \in Producer : q # p /\ pc[q] # "idle" => own[q] # a
    BY <1>1 DEF IInv, NoUseAfterFree
  <2> QED  BY <2>1, <2>2, <2>3 DEF Private
<1>9. TypeOK'
  BY <1>1, <1>2, <1>3, <1>4 DEF IInv, TypeOK
<1>10. Control'
  BY <1>1 DEF IInv, TypeOK, Control
<1>11. ListIntact'
  <2>1. \A i \in 1..Len(chain') :
          nxt[chain'[i]] = IF i = Len(chain') THEN Null ELSE chain'[i + 1]
    <3>1. nxt[a] = IF chain = << >> THEN Null ELSE chain[1]
      BY <1>1 DEF IInv, ListIntact, Linked
    <3>2. chain = << >> <=> Len(chain) = 0
      BY <1>3, EmptySeq
    <3>3. \A i \in 1..Len(chain) :
            nxt[chain[i]] = IF i = Len(chain) THEN Null ELSE chain[i + 1]
      BY DEF IInv, ListIntact, Linked
    <3>4. ASSUME NEW i \in 1..Len(chain'), i > 1
          PROVE  nxt[chain'[i]] = IF i = Len(chain') THEN Null ELSE chain'[i + 1]
      BY <1>3, <3>3, <3>4
    <3> QED  BY <1>3, <3>1, <3>2, <3>4
  <2>2. Linked(head, chain)'
    BY <1>1, <1>3, <2>1 DEF Linked
  <2>3. Linked(cur, taken)'
    BY <1>1 DEF IInv, ListIntact, Linked
  <2> QED  BY <2>2, <2>3 DEF ListIntact
<1>12. NoUseAfterFree'
  <2>1. \A i \in 1..Len(chain') : chain'[i] \notin free' \cup Private'
    BY <1>1, <1>3, <1>6, <1>8 DEF IInv, NoUseAfterFree
  <2>2. \A i, j \in 1..Len(chain') : chain'[i] = chain'[j] => i = j
    <3>1. \A i \in 2..Len(chain') : chain'[i] # a
      BY <1>3, <1>7
    <3>2. \A i, j \in 2..Len(chain') : chain'[i] = chain'[j] => i = j
      <4>1. ASSUME NEW i \in 2..Len(chain'), NEW j \in 2..Len(chain'),
                   chain'[i] = chain'[j]
            PROVE  i = j
        <5>1. i - 1 \in 1..Len(chain) /\ j - 1 \in 1..Len(chain)
          BY <1>3
        <5>2. chain[i - 1] = chain[j - 1]
          BY <1>3, <4>1
        <5>3. i - 1 = j - 1
          BY <5>1, <5>2 DEF IInv, NoUseAfterFree
        <5> QED  BY <5>3
      <4> QED  BY <4>1
    <3> QED  BY <1>3, <3>1, <3>2
  <2>3. \A i \in 1..Len(chain'), j \in 1..Len(taken) : chain'[i] # taken[j]
    <3>1. \A j \in 1..Len(taken) : chain'[1] # taken[j]
      BY <1>3, <1>7
    <3>2. ASSUME NEW i \in 2..Len(chain'), NEW j \in 1..Len(taken)
          PROVE  chain'[i] # taken[j]
      <4>1. i - 1 \in 1..Len(chain) /\ chain'[i] = chain[i - 1]
        BY <1>3
      <4> QED  BY <4>1 DEF IInv, NoUseAfterFree
    <3> QED  BY <1>3, <3>1, <3>2
  <2>4. \A q, r \in Producer :
          pc'[q] # "idle" /\ pc'[r] # "idle" /\ own'[q] = own'[r] => q = r
    BY <1>1 DEF IInv, TypeOK, NoUseAfterFree
  <2> QED  BY <1>1, <1>8, <2>1, <2>2, <2>3, <2>4 DEF IInv, NoUseAfterFree
<1>13. Fifo'
  <2>1. /\ Len(order) = Len(out) + Len(taken) + Len(chain)
        /\ Len(out) \in Nat /\ Len(taken) \in Nat /\ start \in Nat
        /\ start <= Len(out)
    BY DEF IInv, TypeOK, Fifo
  <2>2. Len(order') = Len(out) + Len(taken) + Len(chain')
    BY <1>3, <1>4, <2>1
  <2>3. \A i \in 1..start : out[i] = order'[i]
    BY <1>4, <2>1 DEF IInv, Fifo
  <2>4. \A i \in (start + 1)..Len(out) :
          out[i] = order'[start + Len(out) + Len(taken) + 1 - i]
    <3>1. ASSUME NEW i \in (start + 1)..Len(out)
          PROVE  out[i] = order'[start + Len(out) + Len(taken) + 1 - i]
      <4>1. out[i] = order[start + Len(out) + Len(taken) + 1 - i]
        BY DEF IInv, Fifo
      <4>2. start + Len(out) + Len(taken) + 1 - i \in 1..Len(order)
        BY <1>3, <2>1
      <4> QED  BY <1>4, <4>1, <4>2
    <3> QED  BY <3>1
  <2>5. \A j \in 1..Len(taken) : val[taken[j]] = order'[start + Len(taken) + 1 - j]
    <3>1. ASSUME NEW j \in 1..Len(taken)
          PROVE  val[taken[j]] = order'[start + Len(taken) + 1 - j]
      <4>1. val[taken[j]] = order[start + Len(taken) + 1 - j]
        BY DEF IInv, Fifo
      <4>2. start + Len(taken) + 1 - j \in 1..Len(order)
        BY <1>3, <2>1
      <4> QED  BY <1>4, <4>1, <4>2
    <3> QED  BY <3>1
  <2>6. \A j \in 1..Len(chain') :
          val[chain'[j]] = order'[Len(out) + Len(taken) + Len(chain') + 1 - j]
    <3>1. \A j \in 1..Len(chain) :
            val[chain[j]] = order[Len(out) + Len(taken) + Len(chain) + 1 - j]
      BY DEF IInv, Fifo
    <3>2. ASSUME NEW j \in 2..Len(chain')
          PROVE  val[chain'[j]] = order'[Len(out) + Len(taken) + Len(chain') + 1 - j]
      <4>1. j - 1 \in 1..Len(chain) /\ chain'[j] = chain[j - 1]
        BY <1>3
      <4>2. val[chain[j - 1]] = order[Len(out) + Len(taken) + Len(chain) + 1 - (j - 1)]
        BY <3>1, <4>1
      <4>3. Len(out) + Len(taken) + Len(chain) + 1 - (j - 1) \in 1..Len(order)
        BY <1>3, <2>1, <4>1
      <4>4. Len(out) + Len(taken) + Len(chain) + 1 - (j - 1)
              = Len(out) + Len(taken) + Len(chain') + 1 - j
        BY <1>3, <2>1
      <4> QED  BY <1>4, <4>1, <4>2, <4>3, <4>4
    <3>3. val[chain'[1]] = order'[Len(out) + Len(taken) + Len(chain') + 1 - 1]
      BY <1>3, <1>4, <2>1, <2>2
    <3>4. ASSUME NEW j \in 1..Len(chain')
          PROVE  val[chain'[j]] = order'[Len(out) + Len(taken) + Len(chain') + 1 - j]
      <4>1. j = 1 \/ j \in 2..Len(chain')
        BY <1>3
      <4> QED  BY <3>2, <3>3, <4>1
    <3> QED  BY <3>4
  <2> QED  BY <1>1, <2>1, <2>2, <2>3, <2>4, <2>5, <2>6 DEF Fifo
<1>14. Tagged' /\ ProducerOrder'
  <2>1. \A i \in 1..Len(order) : order[i] \in Pushed
    BY <1>4, ElementOfSeq
  <2> DEFINE Done(q) == IF pc'[q] = "idle" THEN sent'[q] ELSE sent'[q] - 1
  <2>2. /\ Finished(p) = sent[p] - 1 /\ Done(p) = sent[p]
        /\ \A q \in Producer : q # p => Done(q) = Finished(q)
    BY <1>1 DEF IInv, TypeOK, Finished
  <2> HIDE DEF Done
  <2>3. order'[Len(order')][1] = p /\ order'[Len(order')][2] = sent[p]
    BY <1>2, <1>4
  <2>4. \A i \in 1..Len(order) : order[i][1] \in Producer /\ order[i][2] \in Int
                                 /\ order[i][2] <= Finished(order[i][1])
    BY <2>1 DEF Pushed, IInv, Tagged
  <2>5. ASSUME NEW i \in 1..Len(order')
        PROVE  order'[i][2] <= Done(order'[i][1])
    <3>1. CASE i = Len(order')
      BY <1>2, <2>2, <2>3, <3>1
    <3>2. CASE i # Len(order')
      <4>1. i \in 1..Len(order) /\ order'[i] = order[i]
        BY <1>4, <3>2
      <4>2. order[i][1] \in Producer /\ order[i][2] \in Int
            /\ order[i][2] <= Finished(order[i][1])
        BY <2>4, <4>1
      <4>3. CASE order[i][1] = p
        BY <1>2, <2>2, <4>1, <4>2, <4>3
      <4>4. CASE order[i][1] # p
        BY <2>2, <4>1, <4>2, <4>4
      <4> QED  BY <4>3, <4>4
    <3> QED  BY <3>1, <3>2
  <2>6. ASSUME NEW i \in 1..Len(order'), NEW j \in 1..Len(order'),
               i < j, order'[i][1] = order'[j][1]
        PROVE  order'[i][2] < order'[j][2]
    <3>1. i \in 1..Len(order) /\ order'[i] = order[i]
      BY <1>4, <2>6
    <3>2. CASE j = Len(order')
      <4>1. order[i][1] = p /\ order[i][2] \in Int /\ order[i][2] <= sent[p] - 1
        BY <2>2, <2>3, <2>4, <2>6, <3>1, <3>2
      <4> QED  BY <1>2, <2>3, <3>1, <3>2, <4>1
    <3>3. CASE j # Len(order')
      <4>1. j \in 1..Len(order) /\ order'[j] = order[j]
        BY <1>4, <3>3
      <4> QED  BY <2>6, <3>1, <4>1 DEF IInv, ProducerOrder
    <3> QED  BY <3>2, <3>3
  <2>7. Tagged'
    BY <2>5 DEF Done, Tagged, Finished
  <2> QED  BY <2>6, <2>7 DEF ProducerOrder
<1> QED  BY <1>9, <1>10, <1>11, <1>12, <1>13, <1>14 DEF IInv

\* The exchange hands the whole chain to the consumer.
LEMMA DetachStep ==
  ASSUME IInv, Detach
  PROVE  IInv'
<1> USE NullAssumption, PerProducerAssumption DEF heapvars, prodvars
<1>1. /\ cpc = "idle" /\ cur' = head /\ head' = Null /\ start' = Len(out)
      /\ cpc' = "walk" /\ taken' = chain /\ chain' = << >>
      /\ UNCHANGED <<val, nxt, free, pc, own, sent, out, order>>
  BY DEF Detach
<1>2. start = Len(out) /\ taken = << >> /\ Len(out) \in Nat /\ Len(chain) \in Nat
  BY <1>1 DEF IInv, TypeOK, Control
<1>3. TypeOK'
  BY <1>1, <1>2 DEF IInv, TypeOK
<1>4. Control'
  BY <1>1 DEF IInv, Control
<1>5. ListIntact'
  BY <1>1 DEF IInv, ListIntact, Linked
<1>6. NoUseAfterFree'
  <2>1. Private' = Private
    BY <1>1 DEF Private
  <2> QED  BY <1>1, <2>1 DEF IInv, NoUseAfterFree
<1>7. Fifo'
  <2>1. /\ Len(order) = Len(out) + Len(chain)
        /\ \A i \in 1..Len(out) : out[i] = order[i]
        /\ \A j \in 1..Len(chain) : val[chain[j]] = order[Len(out) + Len(chain) + 1 - j]
    BY <1>2 DEF IInv, Fifo
  <2> QED  BY <1>1, <1>2, <2>1 DEF Fifo
<1>8. Tagged' /\ ProducerOrder'
  BY <1>1 DEF IInv, Tagged, Finished, ProducerOrder
<1> QED  BY <1>3, <1>4, <1>5, <1>6, <1>7, <1>8 DEF IInv

\* One turn of drain's loop: the first taken node is copied out and freed.
LEMMA WalkStep ==
  ASSUME IInv, Walk
  PROVE  IInv'
<1> USE NullAssumption, PerProducerAssumption DEF prodvars
<1>1. /\ cpc = "walk" /\ cur # Null
      /\ out' = Append(out, val[cur]) /\ cur' = nxt[cur]
      /\ free' = free \cup {cur} /\ taken' = Tail(taken)
      /\ UNCHANGED <<head, val, nxt, pc, own, sent, cpc, start, order, chain>>
  BY DEF Walk
<1>2. /\ taken # << >> /\ cur = taken[1] /\ taken \in Seq(Addr)
      /\ Len(taken) \in Nat \ {0} /\ cur \in Addr
  BY <1>1, EmptySeq DEF IInv, TypeOK, ListIntact, Linked
<1>3. /\ taken' \in Seq(Addr) /\ Len(taken') = Len(taken) - 1
      /\ \A i \in 1..(Len(taken) - 1) : taken'[i] = taken[i + 1]
      /\ taken' = << >> <=> Len(taken) = 1
  BY <1>1, <1>2, TailFacts
<1>4. cur \notin free /\ cur \notin Private
  BY <1>2 DEF IInv, NoUseAfterFree
<1>5. val[cur] \in Pushed
  BY <1>2, <1>4 DEF IInv, TypeOK, Control
<1>6. /\ out \in Seq(Pushed) /\ out' \in Seq(Pushed) /\ Len(out) \in Nat
      /\ Len(out') = Len(out) + 1 /\ out'[Len(out) + 1] = val[cur]
      /\ \A i \in 1..Len(out) : out'[i] = out[i]
  BY <1>1, <1>5, AppendFacts DEF IInv, TypeOK
<1>7. Private' = Private
  BY <1>1 DEF Private
<1>8. TypeOK'
  BY <1>1, <1>2, <1>3, <1>6 DEF IInv, TypeOK
<1>9. Control'
  BY <1>1 DEF IInv, Control
<1>10. ListIntact'
  <2>1. cur' = IF taken' = << >> THEN Null ELSE taken'[1]
    <3>1. 1 \in 1..Len(taken)
      BY <1>2
    <3>2. nxt[taken[1]] = IF 1 = Len(taken) THEN Null ELSE taken[1 + 1]
      BY <3>1 DEF IInv, ListIntact, Linked
    <3>3. CASE Len(taken) = 1
      BY <1>1, <1>2, <1>3, <3>2, <3>3
    <3>4. CASE Len(taken) # 1
      <4>1. taken' # << >> /\ taken'[1] = taken[1 + 1]
        BY <1>2, <1>3, <3>4
      <4> QED  BY <1>1, <1>2, <3>2, <3>4, <4>1
    <3> QED  BY <3>3, <3>4
  <2>2. ASSUME NEW i \in 1..Len(taken')
        PROVE  nxt[taken'[i]] = IF i = Len(taken') THEN Null ELSE taken'[i + 1]
    <3>1. i + 1 \in 1..Len(taken) /\ taken'[i] = taken[i + 1]
      BY <1>2, <1>3
    <3>2. nxt[taken[i + 1]] = IF i + 1 = Len(taken) THEN Null ELSE taken[i + 1 + 1]
      BY <3>1 DEF IInv, ListIntact, Linked
    <3> QED  BY <1>2, <1>3, <3>1, <3>2
  <2>3. Linked(cur, taken)'
    BY <1>1, <2>1, <2>2 DEF Linked
  <2> QED  BY <1>1, <2>3 DEF IInv, ListIntact, Linked
<1>11. NoUseAfterFree'
  <2>1. ASSUME NEW i \in 1..Len(taken')
        PROVE  i + 1 \in 1..Len(taken) /\ taken'[i] = taken[i + 1]
    BY <1>2, <1>3
  <2>2. \A i \in 1..Len(taken') : taken'[i] # cur
    BY <1>2, <2>1 DEF IInv, NoUseAfterFree
  <2>3. \A i \in 1..Len(taken') : taken'[i] \notin free' \cup Private'
    BY <1>1, <1>7, <2>1, <2>2 DEF IInv, NoUseAfterFree
  <2>4. \A i \in 1..Len(chain) : chain[i] \notin free' \cup Private'
    BY <1>1, <1>2, <1>7 DEF IInv, NoUseAfterFree
  <2>5. ASSUME NEW i \in 1..Len(taken'), NEW j \in 1..Len(taken'),
               taken'[i] = taken'[j]
        PROVE  i = j
    <3>1. i + 1 \in 1..Len(taken) /\ j + 1 \in 1..Len(taken)
          /\ taken[i + 1] = taken[j + 1]
      BY <2>1, <2>5
    <3>2. i + 1 = j + 1
      BY <3>1 DEF IInv, NoUseAfterFree
    <3> QED  BY <1>2, <1>3, <3>2
  <2>6. \A i \in 1..Len(chain), j \in 1..Len(taken') : chain[i] # taken'[j]
    BY <2>1 DEF IInv, NoUseAfterFree
  <2>7. Private' \cap free' = {}
    BY <1>1, <1>4, <1>7 DEF IInv, NoUseAfterFree
  <2> QED  BY <1>1, <2>3, <2>4, <2>5, <2>6, <2>7 DEF IInv, NoUseAfterFree
<1>12. Fifo'
  <2>1. /\ Len(order) = Len(out) + Len(taken) + Len(chain)
        /\ Len(chain) \in Nat /\ start \in Nat /\ start <= Len(out)
    BY DEF IInv, TypeOK, Fifo
  <2>2. Len(out') + Len(taken') = Len(out) + Len(taken)
    BY <1>2, <1>3, <1>6
  <2>3. \A i \in 1..start : out'[i] = order[i]
    BY <1>6, <2>1 DEF IInv, Fifo
  <2>4. ASSUME NEW i \in (start + 1)..Len(out')
        PROVE  out'[i] = order[start + Len(out') + Len(taken') + 1 - i]
    <3>1. CASE i = Len(out')
      <4>1. val[cur] = order[start + Len(taken) + 1 - 1]
        BY <1>2 DEF IInv, Fifo
      <4>2. start + Len(out') + Len(taken') + 1 - i = start + Len(taken) + 1 - 1
        BY <1>2, <1>3, <1>6, <2>1, <3>1
      <4> QED  BY <1>6, <3>1, <4>1, <4>2
    <3>2. CASE i # Len(out')
      <4>1. i \in (start + 1)..Len(out) /\ out'[i] = out[i]
        BY <1>6, <2>1, <3>2
      <4>2. out[i] = order[start + Len(out) + Len(taken) + 1 - i]
        BY <4>1 DEF IInv, Fifo
      <4>3. start + Len(out') + Len(taken') + 1 - i = start + Len(out) + Len(taken) + 1 - i
        BY <1>2, <1>3, <1>6, <2>1
      <4> QED  BY <4>1, <4>2, <4>3
    <3> QED  BY <3>1, <3>2
  <2>5. ASSUME NEW j \in 1..Len(taken')
        PROVE  val[taken'[j]] = order[start + Len(taken') + 1 - j]
    <3>1. j + 1 \in 1..Len(taken) /\ taken'[j] = taken[j + 1]
      BY <1>2, <1>3
    <3>2. val[taken[j + 1]] = order[start + Len(taken) + 1 - (j + 1)]
      BY <3>1 DEF IInv, Fifo
    <3>3. start + Len(taken) + 1 - (j + 1) = start + Len(taken') + 1 - j
      BY <1>2, <1>3, <2>1
    <3> QED  BY <3>1, <3>2, <3>3
  <2>6. \A j \in 1..Len(chain) :
          val[chain[j]] = order[Len(out') + Len(taken') + Len(chain) + 1 - j]
    BY <2>2 DEF IInv, Fifo
  <2>7. start <= Len(out') /\ Len(order) = Len(out') + Len(taken') + Len(chain)
    BY <1>6, <2>1, <2>2
  <2>8. \A i \in (start + 1)..Len(out') :
          out'[i] = order[start + Len(out') + Len(taken') + 1 - i]
    BY <2>4
  <2>9. \A j \in 1..Len(taken') : val[taken'[j]] = order[start + Len(taken') + 1 - j]
    BY <2>5
  <2>10. /\ start' = start /\ order' = order /\ chain' = chain /\ val' = val
    BY <1>1
  <2> QED  BY <2>3, <2>6, <2>7, <2>8, <2>9, <2>10 DEF Fifo
<1>13. Tagged' /\ ProducerOrder'
  BY <1>1 DEF IInv, Tagged, Finished, ProducerOrder
<1> QED  BY <1>8, <1>9, <1>10, <1>11, <1>12, <1>13 DEF IInv

\* The in-place reversal puts the batch into push order.
LEMMA FinishStep ==
  ASSUME IInv, Finish
  PROVE  IInv'
<1> USE NullAssumption, PerProducerAssumption DEF heapvars, prodvars, auxvars
<1>1. /\ cpc = "walk" /\ cur = Null /\ out' = Reversed(out, start)
      /\ start' = Len(out) /\ cpc' = "idle"
      /\ UNCHANGED <<head, val, nxt, free, pc, own, sent, cur, order, chain, taken>>
  BY DEF Finish
<1>2. taken = << >> /\ Len(taken) = 0
  <2>1. ASSUME taken # << >> PROVE FALSE
    <3>1. taken[1] = Null
      BY <1>1, <2>1 DEF IInv, ListIntact, Linked
    <3>2. taken[1] \in Addr
      BY <2>1, EmptySeq DEF IInv, TypeOK
    <3> QED  BY <3>1, <3>2
  <2> QED  BY <2>1, EmptySeq
<1>3. start \in 0..Len(out) /\ Len(out) \in Nat
  BY DEF IInv, TypeOK, Fifo
<1>4. /\ out' \in Seq(Pushed) /\ Len(out') = Len(out)
      /\ \A i \in 1..start : out'[i] = out[i]
      /\ \A i \in (start + 1)..Len(out) : out'[i] = out[start + Len(out) + 1 - i]
  BY <1>1, <1>3, ReversedFacts DEF IInv, TypeOK
<1>5. TypeOK'
  BY <1>1, <1>3, <1>4 DEF IInv, TypeOK
<1>6. Control'
  BY <1>1, <1>2, <1>4 DEF IInv, Control
<1>7. ListIntact'
  BY <1>1 DEF IInv, ListIntact, Linked
<1>8. NoUseAfterFree'
  <2>1. Private' = Private
    BY <1>1 DEF Private
  <2> QED  BY <1>1, <2>1 DEF IInv, NoUseAfterFree
<1>9. Fifo'
  <2>1. Len(order) = Len(out) + Len(chain) /\ Len(chain) \in Nat
    BY <1>2, <1>3 DEF IInv, TypeOK, Fifo
  <2>2. ASSUME NEW i \in 1..Len(out)
        PROVE  out'[i] = order[i]
    <3>1. CASE i <= start
      BY <1>3, <1>4, <3>1 DEF IInv, Fifo
    <3>2. CASE i > start
      <4>1. /\ start + Len(out) + 1 - i \in (start + 1)..Len(out)
            /\ out'[i] = out[start + Len(out) + 1 - i]
        BY <1>3, <1>4, <3>2
      <4>2. out[start + Len(out) + 1 - i]
              = order[start + Len(out) + Len(taken) + 1 - (start + Len(out) + 1 - i)]
        BY <4>1 DEF IInv, Fifo
      <4>3. start + Len(out) + Len(taken) + 1 - (start + Len(out) + 1 - i) = i
        BY <1>2, <1>3
      <4> QED  BY <4>1, <4>2, <4>3
    <3> QED  BY <1>3, <3>1, <3>2
  <2>3. \A j \in 1..Len(chain) :
          val[chain[j]] = order[Len(out) + Len(taken) + Len(chain) + 1 - j]
    BY DEF IInv, Fifo
  <2> QED  BY <1>1, <1>2, <1>3, <1>4, <2>1, <2>2, <2>3 DEF Fifo
<1>10. Tagged' /\ ProducerOrder'
  BY <1>1 DEF IInv, Tagged, Finished, ProducerOrder
<1> QED  BY <1>5, <1>6, <1>7, <1>8, <1>9, <1>10 DEF IInv

\* Every step of a producer or of the consumer keeps the invariant.
LEMMA StepIInv == IInv /\ [Next]_vars => IInv'
<1> SUFFICES ASSUME IInv, [Next]_vars PROVE IInv'
  OBVIOUS
<1>1. ASSUME NEW p \in Producer, Alloc(p) PROVE IInv'
  BY <1>1, AllocStep
<1>2. ASSUME NEW p \in Producer, LoadHead(p) PROVE IInv'
  <2>1. pc[p] # "idle" /\ pc' = [pc EXCEPT ![p] = "cas"]
    BY <1>2 DEF LoadHead
  <2> QED  BY <1>2, <2>1, RelinkStep DEF LoadHead
<1>3. ASSUME NEW p \in Producer, CasSucceeds(p) PROVE IInv'
  BY <1>3, CasStep
<1>4. ASSUME NEW p \in Producer, CasFails(p) PROVE IInv'
  <2>1. pc[p] # "idle" /\ pc' = pc
    BY <1>4 DEF CasFails, prodvars
  <2> QED  BY <1>4, <2>1, RelinkStep DEF CasFails, prodvars
<1>5. CASE Detach  BY <1>5, DetachStep
<1>6. CASE Walk    BY <1>6, WalkStep
<1>7. CASE Finish  BY <1>7, FinishStep
<1>8. CASE UNCHANGED vars
  <2> USE <1>8 DEF vars, heapvars, prodvars, consvars, auxvars
  <2>1. TypeOK' /\ Control'
    BY DEF IInv, TypeOK, Control
  <2>2. ListIntact' /\ NoUseAfterFree'
    BY DEF IInv, ListIntact, Linked, NoUseAfterFree, Private
  <2>3. Fifo'
    BY DEF IInv, Fifo
  <2>4. Tagged' /\ ProducerOrder'
    BY DEF IInv, Tagged, Finished, ProducerOrder
  <2> QED  BY <2>1, <2>2, <2>3, <2>4 DEF IInv
<1> QED  BY <1>1, <1>2, <1>3, <1>4, <1>5, <1>6, <1>7, <1>8 DEF Next, Push, Drain

\* The inductive invariant holds in every reachable state of the queue.
THEOREM Inductive == Spec => []IInv
<1>1. Init => IInv
  BY InitIInv
<1>2. IInv /\ [Next]_vars => IInv'
  BY StepIInv
<1> QED  BY <1>1, <1>2, PTL DEF Spec

\* Nothing pushed is dropped, duplicated or reordered (mpsc.hpp's claim),
\* for any number of producers and values.
THEOREM QueueIsFifo == Spec => []Fifo
<1>1. IInv => Fifo
  BY DEF IInv
<1> QED  BY <1>1, Inductive, PTL

\* The list stays linked and no reachable node is ever in the allocator's
\* hands, although producers compare against addresses that may have been
\* freed and reused.
THEOREM ListIsSafe == Spec => [](ListIntact /\ NoUseAfterFree)
<1>1. IInv => ListIntact /\ NoUseAfterFree
  BY DEF IInv
<1> QED  BY <1>1, Inductive, PTL

\* drain hands the values of one producer over in its program order: what
\* was handed over is a prefix of the linearization order.
THEOREM EachProducerInOrder == Spec => []DeliveredInOrder
<1>1. IInv => DeliveredInOrder
  <2> SUFFICES ASSUME IInv,
                      NEW i \in 1..start, NEW j \in 1..start,
                      i < j, out[i][1] = out[j][1]
               PROVE  out[i][2] < out[j][2]
    BY DEF DeliveredInOrder
  <2>1. start \in Nat /\ start <= Len(order)
    BY DEF IInv, TypeOK, Fifo
  <2>2. out[i] = order[i] /\ out[j] = order[j]
    BY DEF IInv, Fifo
  <2>3. i \in 1..Len(order) /\ j \in 1..Len(order)
    BY <2>1 DEF IInv, TypeOK
  <2> QED  BY <2>2, <2>3 DEF IInv, ProducerOrder
<1> QED  BY <1>1, Inductive, PTL

\* A slice of a sequence.
LEMMA SliceFacts ==
  ASSUME NEW S, NEW s \in Seq(S), NEW m \in Nat, NEW n \in Nat,
         m <= n, n <= Len(s)
  PROVE  /\ SubSeq(s, m + 1, n) \in Seq(S)
         /\ Len(SubSeq(s, m + 1, n)) = n - m
         /\ \A i \in 1..(n - m) : SubSeq(s, m + 1, n)[i] = s[m + i]
<1>1. \A i \in (m + 1)..n : s[i] \in S
  BY ElementOfSeq
<1>2. /\ SubSeq(s, m + 1, n) \in Seq(S)
      /\ Len(SubSeq(s, m + 1, n)) = IF m + 1 <= n THEN n - (m + 1) + 1 ELSE 0
      /\ \A i \in 1..(n - (m + 1) + 1) : SubSeq(s, m + 1, n)[i] = s[m + 1 + i - 1]
  BY <1>1, SubSeqProperties
<1>3. \A i \in 1..(n - m) : i \in 1..(n - (m + 1) + 1) /\ m + 1 + i - 1 = m + i
  OBVIOUS
<1> QED  BY <1>2, <1>3

\* A function on 1..n is a sequence of length n.
LEMMA FunctionIsSeq ==
  ASSUME NEW S, NEW n \in Nat, NEW f \in [1..n -> S]
  PROVE  f \in Seq(S) /\ Len(f) = n
  OBVIOUS

\* The parts of a concatenation.
LEMMA ConcatParts ==
  ASSUME NEW S, NEW s \in Seq(S), NEW t \in Seq(S)
  PROVE  /\ s \o t \in Seq(S)
         /\ Len(s \o t) = Len(s) + Len(t)
         /\ \A i \in 1..Len(s) : (s \o t)[i] = s[i]
         /\ \A i \in 1..Len(t) : (s \o t)[Len(s) + i] = t[i]
  BY ConcatProperties

-----------------------------------------------------------------------------
(* Refinement: the queue implements Channel.  Under the invariant the three *)
(* channel variables are adjacent slices of order, cut at start and at the  *)
(* number of values the consumer detached so far.                           *)

Cut == Len(out) + Len(taken)

SlicesAgree ==
  /\ order \in Seq(Pushed) /\ Len(order) \in Nat
  /\ start \in Nat /\ Cut \in Nat /\ start <= Cut /\ Cut <= Len(order)
  /\ Oldest(chain) = SubSeq(order, Cut + 1, Len(order))
  /\ Carried = SubSeq(order, start + 1, Cut)
  /\ SubSeq(out, 1, start) = SubSeq(order, 1, start)

\* The lists, the heap and the consumer's vector hold those slices.
LEMMA Slices == IInv => SlicesAgree
<1> SUFFICES ASSUME IInv PROVE SlicesAgree
  OBVIOUS
<1>1. /\ order \in Seq(Pushed) /\ out \in Seq(Pushed)
      /\ chain \in Seq(Addr) /\ taken \in Seq(Addr)
      /\ Len(order) \in Nat /\ Len(out) \in Nat /\ Len(chain) \in Nat
      /\ Len(taken) \in Nat /\ start \in Nat /\ start <= Len(out)
      /\ Len(order) = Len(out) + Len(taken) + Len(chain)
  BY DEF IInv, TypeOK, Fifo
<1>2. /\ Cut \in Nat /\ start <= Cut /\ Cut <= Len(order)
      /\ Len(order) = Cut + Len(chain)
  BY <1>1 DEF Cut
<1>3. /\ SubSeq(order, Cut + 1, Len(order)) \in Seq(Pushed)
      /\ Len(SubSeq(order, Cut + 1, Len(order))) = Len(chain)
      /\ \A i \in 1..Len(chain) : SubSeq(order, Cut + 1, Len(order))[i] = order[Cut + i]
  <2>1. Len(order) - Cut = Len(chain)
    BY <1>1 DEF Cut
  <2>2. /\ SubSeq(order, Cut + 1, Len(order)) \in Seq(Pushed)
        /\ Len(SubSeq(order, Cut + 1, Len(order))) = Len(order) - Cut
        /\ \A i \in 1..(Len(order) - Cut) :
             SubSeq(order, Cut + 1, Len(order))[i] = order[Cut + i]
    <3>1. Len(order) <= Len(order)
      BY <1>1
    <3> HIDE DEF Cut
    <3> QED  BY <1>1, <1>2, <3>1, SliceFacts
  <2> QED  BY <2>1, <2>2
<1>4. Oldest(chain) = SubSeq(order, Cut + 1, Len(order))
  <2>1. ASSUME NEW i \in 1..Len(chain)
        PROVE  val[chain[Len(chain) + 1 - i]] = order[Cut + i]
    <3>1. Len(chain) + 1 - i \in 1..Len(chain)
      BY <1>1
    <3>2. val[chain[Len(chain) + 1 - i]]
            = order[Len(out) + Len(taken) + Len(chain) + 1 - (Len(chain) + 1 - i)]
      BY <3>1 DEF IInv, Fifo
    <3>3. Len(out) + Len(taken) + Len(chain) + 1 - (Len(chain) + 1 - i) = Cut + i
      BY <1>1 DEF Cut
    <3> QED  BY <3>2, <3>3
  <2>2. \A i \in 1..Len(chain) : order[Cut + i] \in Pushed
    BY <1>1, <1>2, ElementOfSeq
  <2>3. Oldest(chain) \in [1..Len(chain) -> Pushed]
    BY <2>1, <2>2 DEF Oldest
  <2>4. Oldest(chain) \in Seq(Pushed) /\ Len(Oldest(chain)) = Len(chain)
    BY <1>1, <2>3, FunctionIsSeq
  <2>5. \A i \in 1..Len(chain) : Oldest(chain)[i] = order[Cut + i]
    BY <2>1 DEF Oldest
  <2> DEFINE O == Oldest(chain)
             Q == SubSeq(order, Cut + 1, Len(order))
  <2>6. /\ O \in Seq(Pushed) /\ Q \in Seq(Pushed) /\ Len(O) = Len(Q)
        /\ \A i \in 1..Len(O) : O[i] = Q[i]
    BY <1>3, <2>4, <2>5
  <2> HIDE DEF O, Q
  <2>7. O = Q
    BY <2>6, SeqEqual
  <2> QED  BY <2>7 DEF O, Q
<1>5. Carried = SubSeq(order, start + 1, Cut)
  <2> DEFINE R == [i \in 1..(Len(out) - start) |-> out[Len(out) + 1 - i]]
  <2>1. ASSUME NEW i \in 1..Len(taken)
        PROVE  /\ val[taken[Len(taken) + 1 - i]] = order[start + i]
               /\ order[start + i] \in Pushed
    <3>1. Len(taken) + 1 - i \in 1..Len(taken) /\ start + i \in 1..Len(order)
      BY <1>1
    <3>2. val[taken[Len(taken) + 1 - i]]
            = order[start + Len(taken) + 1 - (Len(taken) + 1 - i)]
      BY <3>1 DEF IInv, Fifo
    <3>3. start + Len(taken) + 1 - (Len(taken) + 1 - i) = start + i
      BY <1>1
    <3> QED  BY <1>1, <3>1, <3>2, <3>3, ElementOfSeq
  <2>2. ASSUME NEW i \in 1..(Len(out) - start)
        PROVE  /\ out[Len(out) + 1 - i] = order[start + Len(taken) + i]
               /\ out[Len(out) + 1 - i] \in Pushed
    <3>1. Len(out) + 1 - i \in (start + 1)..Len(out)
          /\ Len(out) + 1 - i \in 1..Len(out)
      BY <1>1
    <3>2. out[Len(out) + 1 - i]
            = order[start + Len(out) + Len(taken) + 1 - (Len(out) + 1 - i)]
      BY <3>1 DEF IInv, Fifo
    <3>3. start + Len(out) + Len(taken) + 1 - (Len(out) + 1 - i) = start + Len(taken) + i
      BY <1>1
    <3> QED  BY <1>1, <3>1, <3>2, <3>3, ElementOfSeq
  <2>3. Oldest(taken) \in Seq(Pushed) /\ Len(Oldest(taken)) = Len(taken)
        /\ \A i \in 1..Len(taken) : Oldest(taken)[i] = order[start + i]
    <3>1. Oldest(taken) \in [1..Len(taken) -> Pushed]
      BY <2>1 DEF Oldest
    <3>2. \A i \in 1..Len(taken) : Oldest(taken)[i] = order[start + i]
      BY <2>1 DEF Oldest
    <3> QED  BY <1>1, <3>1, <3>2
  <2>4. R \in Seq(Pushed) /\ Len(R) = Len(out) - start
        /\ \A i \in 1..(Len(out) - start) : R[i] = order[start + Len(taken) + i]
    <3>1. R \in [1..(Len(out) - start) -> Pushed] /\ Len(out) - start \in Nat
      BY <1>1, <2>2
    <3>2. \A i \in 1..(Len(out) - start) : R[i] = order[start + Len(taken) + i]
      BY <2>2
    <3> QED  BY <3>1, <3>2
  <2>5. Carried = Oldest(taken) \o R
    BY DEF Carried
  <2> HIDE DEF R
  <2>6. /\ Carried \in Seq(Pushed) /\ Len(Carried) = Cut - start
        /\ \A i \in 1..(Cut - start) : Carried[i] = order[start + i]
    <3>1. /\ Carried \in Seq(Pushed) /\ Len(Carried) = Len(taken) + (Len(out) - start)
          /\ \A i \in 1..Len(taken) : Carried[i] = Oldest(taken)[i]
          /\ \A i \in 1..(Len(out) - start) : Carried[Len(taken) + i] = R[i]
      <4> DEFINE O == Oldest(taken)
      <4>1. O \in Seq(Pushed) /\ R \in Seq(Pushed)
            /\ Len(O) = Len(taken) /\ Len(R) = Len(out) - start /\ Carried = O \o R
        BY <2>3, <2>4, <2>5
      <4> HIDE DEF O
      <4>2. /\ Carried \in Seq(Pushed)
            /\ Len(Carried) = Len(O) + Len(R)
            /\ \A i \in 1..Len(O) : Carried[i] = O[i]
            /\ \A i \in 1..Len(R) : Carried[Len(O) + i] = R[i]
        <5>1. PICK o \in Seq(Pushed), r \in Seq(Pushed) : o = O /\ r = R
          BY <4>1
        <5>2. /\ o \o r \in Seq(Pushed)
              /\ Len(o \o r) = Len(o) + Len(r)
              /\ \A i \in 1..Len(o) : (o \o r)[i] = o[i]
              /\ \A i \in 1..Len(r) : (o \o r)[Len(o) + i] = r[i]
          BY ONLY o \in Seq(Pushed), r \in Seq(Pushed), ConcatParts
        <5>3. Carried = o \o r
          BY <4>1, <5>1
        <5> QED  BY <5>1, <5>2, <5>3
      <4>3. /\ Carried \in Seq(Pushed) /\ Len(Carried) = Len(taken) + (Len(out) - start)
            /\ \A i \in 1..Len(taken) : Carried[i] = O[i]
            /\ \A i \in 1..(Len(out) - start) : Carried[Len(taken) + i] = R[i]
        BY <4>1, <4>2
      <4> QED  BY <4>3 DEF O
    <3>2. Cut - start = Len(taken) + (Len(out) - start)
      BY <1>1 DEF Cut
    <3>3. ASSUME NEW i \in 1..(Cut - start)
          PROVE  Carried[i] = order[start + i]
      <4>1. CASE i <= Len(taken)
        BY <1>1, <2>3, <3>1, <3>2, <4>1
      <4>2. CASE i > Len(taken)
        <5>1. i - Len(taken) \in 1..(Len(out) - start)
          BY <1>1, <3>2, <4>2
        <5>2. R[i - Len(taken)] = order[start + Len(taken) + (i - Len(taken))]
          BY <2>4, <5>1
        <5>3. start + Len(taken) + (i - Len(taken)) = start + i
              /\ Len(taken) + (i - Len(taken)) = i
          BY <1>1
        <5>4. Carried[Len(taken) + (i - Len(taken))] = R[i - Len(taken)]
          BY <3>1, <5>1
        <5> QED  BY <5>2, <5>3, <5>4
      <4> QED  BY <1>1, <1>2, <4>1, <4>2
    <3> QED  BY <3>1, <3>2, <3>3
  <2>7. /\ SubSeq(order, start + 1, Cut) \in Seq(Pushed)
        /\ Len(SubSeq(order, start + 1, Cut)) = Cut - start
        /\ \A i \in 1..(Cut - start) : SubSeq(order, start + 1, Cut)[i] = order[start + i]
    BY <1>1, <1>2, SliceFacts
  <2> QED  BY <2>6, <2>7, SeqEqual
<1>6. SubSeq(out, 1, start) = SubSeq(order, 1, start)
  <2>1. \A i \in 1..start : out[i] = order[i]
    BY DEF IInv, Fifo
  <2>2. /\ SubSeq(out, 1, start) \in Seq(Pushed) /\ Len(SubSeq(out, 1, start)) = start
        /\ \A i \in 1..start : SubSeq(out, 1, start)[i] = out[i]
    BY <1>1
  <2>3. /\ SubSeq(order, 1, start) \in Seq(Pushed) /\ Len(SubSeq(order, 1, start)) = start
        /\ \A i \in 1..start : SubSeq(order, 1, start)[i] = order[i]
    BY <1>1, <1>2
  <2> QED  BY <2>1, <2>2, <2>3, SeqEqual
<1> QED  BY <1>1, <1>2, <1>4, <1>5, <1>6 DEF SlicesAgree

\* The same fact about the state after a step.
LEMMA SlicesNext == IInv' => SlicesAgree'
  BY Slices, PTL

\* A step that leaves order and both cut points alone leaves the channel alone.
LEMMA QuietStep ==
  ASSUME IInv, IInv', order' = order, start' = start, Cut' = Cut
  PROVE  UNCHANGED Ch!cvars
  BY Slices, SlicesNext DEF SlicesAgree, Ch!cvars

\* The channel starts empty.
LEMMA InitChannel == Init => Ch!ChannelInit
<1> SUFFICES ASSUME Init PROVE Ch!ChannelInit
  OBVIOUS
<1>1. chain = << >> /\ taken = << >> /\ out = << >> /\ start = 0
  BY DEF Init
<1>2. Oldest(<< >>) = << >>
  BY DEF Oldest
<1>3. SubSeq(out, 1, start) = << >>
  BY <1>1, SubSeqEmpty
<1>4. [i \in 1..(Len(out) - start) |-> out[Len(out) + 1 - i]] = << >>
  BY <1>1
<1>5. Carried = << >>
  BY <1>1, <1>2, <1>4 DEF Carried
<1> QED  BY <1>1, <1>2, <1>3, <1>5 DEF Ch!ChannelInit

\* A suffix grows by what is appended to the whole.
LEMMA SuffixAppend ==
  ASSUME NEW S, NEW s \in Seq(S), NEW e \in S, NEW m \in 0..Len(s)
  PROVE  SubSeq(Append(s, e), m + 1, Len(s) + 1) = Append(SubSeq(s, m + 1, Len(s)), e)
<1> DEFINE N == Len(s)
           l == SubSeq(Append(s, e), m + 1, N + 1)
           q == SubSeq(s, m + 1, N)
<1>1. /\ Append(s, e) \in Seq(S) /\ Len(Append(s, e)) = N + 1 /\ N \in Nat /\ m \in Nat
      /\ \A i \in 1..N : Append(s, e)[i] = s[i]
      /\ Append(s, e)[N + 1] = e
  BY AppendFacts
<1>2. /\ l \in Seq(S) /\ Len(l) = N + 1 - m
      /\ \A i \in 1..(N + 1 - m) : l[i] = Append(s, e)[m + i]
  BY <1>1, SliceFacts
<1>3. /\ q \in Seq(S) /\ Len(q) = N - m
      /\ \A i \in 1..(N - m) : q[i] = s[m + i]
  BY <1>1, SliceFacts
<1> HIDE DEF l, q
<1>4. /\ Append(q, e) \in Seq(S) /\ Len(Append(q, e)) = N - m + 1
      /\ \A i \in 1..(N - m) : Append(q, e)[i] = q[i]
      /\ Append(q, e)[N - m + 1] = e
  BY <1>3, AppendFacts
<1>5. ASSUME NEW i \in 1..Len(l) PROVE l[i] = Append(q, e)[i]
  <2>1. CASE i = N + 1 - m
    BY <1>1, <1>2, <1>4, <2>1
  <2>2. CASE i # N + 1 - m
    <3>1. i \in 1..(N - m) /\ m + i \in 1..N
      <4>1. i \in 1..(N + 1 - m) /\ m <= N
        BY <1>1, <1>2
      <4> QED  BY <1>1, <2>2, <4>1
    <3> QED  BY <1>1, <1>2, <1>3, <1>4, <3>1
  <2> QED  BY <2>1, <2>2
<1>6. Len(l) = Len(Append(q, e))
  BY <1>1, <1>2, <1>4
<1>7. l = Append(q, e)
  BY <1>2, <1>4, <1>5, <1>6, SeqEqual
<1> QED  BY <1>7 DEF l, q

\* The loop of drain still has a node to visit exactly while it carries one.
LEMMA CursorMeaning ==
  ASSUME IInv
  PROVE  cur = Null <=> taken = << >>
<1> USE NullAssumption
<1>1. taken = << >> => cur = Null
  BY DEF IInv, ListIntact, Linked
<1>2. taken # << >> => cur \in Addr
  BY EmptySeq DEF IInv, TypeOK, ListIntact, Linked
<1> QED  BY <1>1, <1>2

\* Every step of the queue is a step of the channel or leaves it unchanged:
\* a publication sends, the exchange takes, the reversal hands over.
LEMMA StepChannel ==
  ASSUME IInv, IInv', [Next]_vars
  PROVE  [Ch!ChannelNext]_Ch!cvars
<1> USE DEF heapvars, prodvars, consvars, auxvars
<1> DEFINE N == Len(order)
<1>0. SlicesAgree /\ SlicesAgree'
  BY Slices, SlicesNext
<1>1. ASSUME NEW p \in Producer, CasSucceeds(p) PROVE Ch!ChannelNext
  <2>1. /\ order' = Append(order, val[own[p]]) /\ start' = start /\ Cut' = Cut
        /\ val[own[p]] \in Pushed
    <3>1. pc[p] = "cas"
      BY <1>1 DEF CasSucceeds
    <3>2. sent[p] >= 1 /\ val[own[p]] = <<p, sent[p]>>
      BY <3>1 DEF IInv, Control
    <3>3. sent[p] \in 1..PerProducer
      BY <3>2 DEF IInv, TypeOK
    <3> QED  BY <1>1, <3>2, <3>3 DEF CasSucceeds, Cut, Pushed
  <2>2. /\ order' \in Seq(Pushed) /\ Len(order') = N + 1
        /\ order'[N + 1] = val[own[p]] /\ \A i \in 1..N : order'[i] = order[i]
    BY <1>0, <2>1, AppendFacts DEF SlicesAgree
  <2>3. Carried' = Carried /\ SubSeq(out, 1, start)' = SubSeq(out, 1, start)
    BY <1>0, <2>1, <2>2 DEF SlicesAgree
  <2>4. Oldest(chain)' = Append(Oldest(chain), val[own[p]])
    <3>1. /\ order \in Seq(Pushed) /\ Cut \in 0..Len(order)
      BY <1>0 DEF SlicesAgree
    <3>2. SubSeq(Append(order, val[own[p]]), Cut + 1, Len(order) + 1)
            = Append(SubSeq(order, Cut + 1, Len(order)), val[own[p]])
      BY <2>1, <3>1, SuffixAppend
    <3> QED  BY <1>0, <2>1, <2>2, <3>2 DEF SlicesAgree
  <2>5. Ch!Send(val[own[p]])
    BY <2>3, <2>4 DEF Ch!Send
  <2> QED  BY <2>1, <2>5 DEF Ch!ChannelNext
<1>2. ASSUME Detach PROVE Ch!ChannelNext
  <2>1. /\ order' = order /\ start' = start /\ Cut = start /\ Cut' = N
    BY <1>2 DEF Detach, Cut, IInv, TypeOK, Control, Fifo
  <2>2. Carried = << >> /\ Oldest(chain)' = << >>
    BY <1>0, <2>1, SubSeqEmpty DEF SlicesAgree
  <2>3. Carried' = Oldest(chain)
    BY <1>0, <2>1 DEF SlicesAgree
  <2>4. SubSeq(out, 1, start)' = SubSeq(out, 1, start)
    BY <1>0, <2>1 DEF SlicesAgree
  <2> QED  BY <2>2, <2>3, <2>4 DEF Ch!Take, Ch!ChannelNext
<1>3. ASSUME Finish PROVE Ch!ChannelNext
  <2>1. order' = order /\ start' = Cut /\ Cut' = Cut
    <3>1. taken = << >> /\ taken' = taken /\ start' = Len(out) /\ order' = order
      BY <1>3, CursorMeaning DEF Finish
    <3>2. out \in Seq(Pushed) /\ start \in 0..Len(out)
      BY DEF IInv, TypeOK, Fifo
    <3>3. Len(out') = Len(out)
      BY <1>3, <3>2, ReversedFacts DEF Finish
    <3>4. Len(taken) = 0 /\ Len(out) \in Nat
      BY <3>1, <3>2, EmptySeq
    <3> QED  BY <3>1, <3>3, <3>4 DEF Cut
  <2>2. Oldest(chain)' = Oldest(chain)
    BY <1>0, <2>1 DEF SlicesAgree
  <2>3. Carried' = << >>
    BY <1>0, <2>1, SubSeqEmpty DEF SlicesAgree
  <2>4. SubSeq(order, 1, start) \o SubSeq(order, start + 1, Cut) = SubSeq(order, 1, Cut)
    <3>1. /\ order \in Seq(Pushed) /\ Len(order) \in Nat /\ Cut \in Nat
          /\ start \in Nat /\ start <= Cut /\ Cut <= Len(order)
      BY <1>0 DEF SlicesAgree
    <3>2. /\ 1 \in 1..(Len(order) + 1) /\ start \in (1 - 1)..Len(order)
          /\ Cut \in start..Len(order)
      BY <3>1
    <3> QED  BY <3>1, <3>2, ConcatAdjacentSubSeq
  <2>5. SubSeq(out, 1, start)' = SubSeq(out, 1, start) \o Carried
    BY <1>0, <2>1, <2>4 DEF SlicesAgree
  <2> QED  BY <2>2, <2>3, <2>5 DEF Ch!HandOver, Ch!ChannelNext
<1>4. ASSUME Walk PROVE UNCHANGED Ch!cvars
  <2>1. order' = order /\ start' = start /\ Cut' = Cut
    <3>1. /\ taken # << >> /\ taken \in Seq(Addr) /\ taken' = Tail(taken)
      BY <1>4, CursorMeaning DEF Walk, IInv, TypeOK
    <3>2. Len(taken) \in Nat \ {0} /\ Len(taken') = Len(taken) - 1
      BY <3>1, TailFacts
    <3>3. cur \in Addr /\ cur = taken[1] /\ 1 \in 1..Len(taken)
      <4>1. 1 \in 1..Len(taken) /\ taken[1] \in Addr
        BY <3>1, <3>2, ElementOfSeq
      <4>2. cur = taken[1]
        BY <3>1 DEF IInv, ListIntact, Linked
      <4> QED  BY <4>1, <4>2
    <3>4. val[cur] \in Pushed
      BY <3>3 DEF IInv, TypeOK, Control, NoUseAfterFree
    <3>5. out' = Append(out, val[cur]) /\ out \in Seq(Pushed)
      BY <1>4 DEF Walk, IInv, TypeOK
    <3>6. Len(out') = Len(out) + 1 /\ Len(out) \in Nat
      BY <3>4, <3>5, AppendFacts
    <3>7. order' = order /\ start' = start
      BY <1>4 DEF Walk
    <3> QED  BY <3>2, <3>6, <3>7 DEF Cut
  <2> QED  BY <2>1, QuietStep
<1>5. ASSUME NEW p \in Producer, Alloc(p) \/ LoadHead(p) \/ CasFails(p)
      PROVE  UNCHANGED Ch!cvars
  <2>1. order' = order /\ start' = start /\ Cut' = Cut
    BY <1>5 DEF Alloc, LoadHead, CasFails, Cut
  <2> QED  BY <2>1, QuietStep
<1>6. ASSUME UNCHANGED vars PROVE UNCHANGED Ch!cvars
  <2>1. order' = order /\ start' = start /\ Cut' = Cut
    BY <1>6 DEF vars, Cut
  <2> QED  BY <2>1, QuietStep
<1> QED  BY <1>1, <1>2, <1>3, <1>4, <1>5, <1>6 DEF Next, Push, Drain

\* The lock-free queue implements the atomic channel, for every number of
\* producers, addresses and values.
THEOREM QueueImplementsChannel == Spec => ImplementsChannel
<1>1. Init => Ch!ChannelInit
  BY InitChannel
<1>2. IInv /\ IInv' /\ [Next]_vars => [Ch!ChannelNext]_Ch!cvars
  BY StepChannel
<1> QED  BY <1>1, <1>2, Inductive, PTL DEF Spec, ImplementsChannel, Ch!ChannelSpec

=============================================================================
