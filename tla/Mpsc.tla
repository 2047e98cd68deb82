-------------------------------- MODULE Mpsc --------------------------------
(***************************************************************************)
(* The lock-free multi-producer queue of the executor                      *)
(* (probe2/src/executor/mpsc.hpp): the arbiter's op inlet and the event    *)
(* queue of every plan are instances of it.                                *)
(*                                                                         *)
(* A producer allocates a node, loads the head into its next field and     *)
(* publishes the node with a compare-exchange loop.  The consumer swaps    *)
(* the head for nullptr, walks the detached chain (newest first), frees    *)
(* every node, and reverses what it appended.  Addresses come from a       *)
(* finite pool and are reused as soon as they are freed, so a producer     *)
(* can hold a stale head whose address names a different node by the time  *)
(* it compares: the model contains the A-B-A case.                         *)
(*                                                                         *)
(* chain and taken are auxiliary: the addresses reachable from head and    *)
(* from the consumer's cursor.  No action's guard reads them.              *)
(***************************************************************************)
EXTENDS Integers, Sequences, FiniteSets

CONSTANTS Producer,     \* the producing threads
          Addr,         \* addresses the allocator hands out
          Null,         \* nullptr
          PerProducer   \* how many values each producer pushes

ASSUME NullAssumption == Null \notin Addr
ASSUME PerProducerAssumption == PerProducer \in Nat

VARIABLES head,         \* the atomic head_
          val, nxt,     \* the heap: node::value and node::next
          free,         \* addresses the allocator may hand out
          pc, own, sent,\* per producer: control point, its node, pushes begun
          cpc,          \* the consumer: "idle" or "walk"
          cur,          \* the consumer's cursor n in drain
          out, start,   \* drain's out vector and its size at entry
          order,        \* auxiliary: values in the order their push linearized
          chain, taken  \* auxiliary: see above

heapvars == <<val, nxt, free>>
prodvars == <<pc, own, sent>>
consvars == <<cpc, cur, out, start>>
auxvars  == <<order, chain, taken>>
vars == <<head, heapvars, prodvars, consvars, auxvars>>

\* A pushed value is tagged with its producer and its position in that
\* producer's program.
Pushed == Producer \X (1..PerProducer)

Init ==
  /\ head = Null
  /\ val \in [Addr -> {<< >>}]
  /\ nxt \in [Addr -> {Null}]
  /\ free = Addr
  /\ pc = [p \in Producer |-> "idle"]
  /\ own = [p \in Producer |-> Null]
  /\ sent = [p \in Producer |-> 0]
  /\ cpc = "idle"
  /\ cur = Null
  /\ out = << >>
  /\ start = 0
  /\ order = << >>
  /\ chain = << >>
  /\ taken = << >>

-----------------------------------------------------------------------------
(* Producers: push(T v)                                                    *)

\* operator new: the node exists with its value, its next not yet loaded.
Alloc(p) ==
  /\ pc[p] = "idle"
  /\ sent[p] < PerProducer
  /\ \E a \in free :
       /\ own' = [own EXCEPT ![p] = a]
       /\ free' = free \ {a}
       /\ val' = [val EXCEPT ![a] = <<p, sent[p] + 1>>]
  /\ sent' = [sent EXCEPT ![p] = @ + 1]
  /\ pc' = [pc EXCEPT ![p] = "load"]
  /\ UNCHANGED <<head, nxt, consvars, auxvars>>

\* head_.load() into the node's next field.
LoadHead(p) ==
  /\ pc[p] = "load"
  /\ nxt' = [nxt EXCEPT ![own[p]] = head]
  /\ pc' = [pc EXCEPT ![p] = "cas"]
  /\ UNCHANGED <<head, val, free, own, sent, consvars, auxvars>>

\* compare_exchange_weak succeeds: the comparison is of addresses, so it
\* also succeeds when the address was freed and reused in between.
CasSucceeds(p) ==
  /\ pc[p] = "cas"
  /\ head = nxt[own[p]]
  /\ head' = own[p]
  /\ order' = Append(order, val[own[p]])
  /\ chain' = <<own[p]>> \o chain
  /\ pc' = [pc EXCEPT ![p] = "idle"]
  /\ own' = [own EXCEPT ![p] = Null]
  /\ UNCHANGED <<heapvars, sent, consvars, taken>>

\* A failing exchange that does not write the observed head back.
CasForgets(p) ==
  /\ pc[p] = "cas"
  /\ UNCHANGED vars

\* compare_exchange_weak fails (spuriously too: then head already equals
\* next and the step changes nothing) and writes the head it saw into next.
CasFails(p) ==
  /\ pc[p] = "cas"
  /\ nxt' = [nxt EXCEPT ![own[p]] = head]
  /\ UNCHANGED <<head, val, free, prodvars, consvars, auxvars>>

-----------------------------------------------------------------------------
(* The consumer: drain(out)                                                *)

\* A detach that reads the head but leaves it in place.
Peek ==
  /\ cpc = "idle"
  /\ cur' = head
  /\ start' = Len(out)
  /\ cpc' = "walk"
  /\ taken' = chain
  /\ UNCHANGED <<head, chain, heapvars, prodvars, out, order>>

\* head_.exchange(nullptr)
Detach ==
  /\ cpc = "idle"
  /\ cur' = head
  /\ head' = Null
  /\ start' = Len(out)
  /\ cpc' = "walk"
  /\ taken' = chain
  /\ chain' = << >>
  /\ UNCHANGED <<heapvars, prodvars, out, order>>

\* One turn of the loop: append the value, read next, delete the node.
Walk ==
  /\ cpc = "walk"
  /\ cur # Null
  /\ out' = Append(out, val[cur])
  /\ cur' = nxt[cur]
  /\ free' = free \cup {cur}
  /\ taken' = Tail(taken)
  /\ UNCHANGED <<head, val, nxt, prodvars, cpc, start, order, chain>>

\* The swap loop reversed from start on.
Reversed(s, from) ==
  [i \in 1..Len(s) |-> IF i <= from THEN s[i] ELSE s[from + Len(s) + 1 - i]]

\* A drain that leaves the batch as it walked it.
FinishUnswapped ==
  /\ cpc = "walk"
  /\ cur = Null
  /\ start' = Len(out)
  /\ cpc' = "idle"
  /\ UNCHANGED <<head, heapvars, prodvars, cur, out, auxvars>>

\* The chain is exhausted: the batch is reversed in place and drain returns.
Finish ==
  /\ cpc = "walk"
  /\ cur = Null
  /\ out' = Reversed(out, start)
  /\ start' = Len(out)
  /\ cpc' = "idle"
  /\ UNCHANGED <<head, heapvars, prodvars, cur, auxvars>>

-----------------------------------------------------------------------------
Push(p) == Alloc(p) \/ LoadHead(p) \/ CasSucceeds(p) \/ CasFails(p)

Drain == Detach \/ Walk \/ Finish

Next == (\E p \in Producer : Push(p)) \/ Drain

Spec == Init /\ [][Next]_vars

\* The operating system runs every producer, and the pump drains once per
\* block.
Fairness ==
  /\ \A p \in Producer :
       WF_vars(Alloc(p)) /\ WF_vars(LoadHead(p))
         /\ WF_vars(CasFails(p)) /\ WF_vars(CasSucceeds(p))
  /\ WF_vars(Detach) /\ WF_vars(Walk) /\ WF_vars(Finish)

FairSpec == Spec /\ Fairness

-----------------------------------------------------------------------------
(* Invariants                                                              *)

TypeOK ==
  /\ head \in Addr \cup {Null}
  /\ val \in [Addr -> Pushed \cup {<< >>}]
  /\ nxt \in [Addr -> Addr \cup {Null}]
  /\ free \in SUBSET Addr
  /\ pc \in [Producer -> {"idle", "load", "cas"}]
  /\ own \in [Producer -> Addr \cup {Null}]
  /\ sent \in [Producer -> 0..PerProducer]
  /\ cpc \in {"idle", "walk"}
  /\ cur \in Addr \cup {Null}
  /\ out \in Seq(Pushed)
  /\ start \in Nat
  /\ order \in Seq(Pushed)
  /\ chain \in Seq(Addr)
  /\ taken \in Seq(Addr)

\* The addresses a producer holds: nobody else may reach them yet.
Private == {own[p] : p \in {q \in Producer : pc[q] # "idle"}}

Linked(h, s) ==
  /\ h = IF s = << >> THEN Null ELSE s[1]
  /\ \A i \in 1..Len(s) :
       nxt[s[i]] = IF i = Len(s) THEN Null ELSE s[i + 1]

\* Following next from head (and from the consumer's cursor) visits exactly
\* the published nodes that were not yet freed: the list never loses its
\* tail to a stale compare-exchange, even when addresses are reused.
ListIntact == Linked(head, chain) /\ Linked(cur, taken)

\* Memory reclamation is safe: a node that can still be read, through the
\* list, through the consumer's cursor or by the producer that owns it, is
\* never in the allocator's hands, and has one role only.
NoUseAfterFree ==
  /\ \A i \in 1..Len(chain) : chain[i] \notin free \cup Private
  /\ \A i \in 1..Len(taken) : taken[i] \notin free \cup Private
  /\ Private \cap free = {}
  /\ \A i, j \in 1..Len(chain) : chain[i] = chain[j] => i = j
  /\ \A i, j \in 1..Len(taken) : taken[i] = taken[j] => i = j
  /\ \A i \in 1..Len(chain), j \in 1..Len(taken) : chain[i] # taken[j]
  /\ \A p, q \in Producer :
       pc[p] # "idle" /\ pc[q] # "idle" /\ own[p] = own[q] => p = q

\* Nothing is dropped, duplicated or reordered: what drain handed over,
\* then what it is carrying (newest first until the final reversal), then
\* what still hangs off head (newest first), is exactly the sequence of
\* pushes in the order their compare-exchange succeeded.
Fifo ==
  LET L == Len(out)  T == Len(taken)  C == Len(chain)
  IN  /\ start <= L
      /\ Len(order) = L + T + C
      /\ \A i \in 1..start : out[i] = order[i]
      /\ \A i \in (start + 1)..L : out[i] = order[start + L + T + 1 - i]
      /\ \A j \in 1..T : val[taken[j]] = order[start + T + 1 - j]
      /\ \A j \in 1..C : val[chain[j]] = order[L + T + C + 1 - j]

\* Control points agree with what each side holds: a producer owns a node
\* exactly while it pushes, that node carries its latest value, and the
\* consumer carries nothing between two drains.
Control ==
  /\ \A p \in Producer :
       IF pc[p] = "idle" THEN own[p] = Null
                         ELSE /\ own[p] \in Addr
                              /\ sent[p] >= 1
                              /\ val[own[p]] = <<p, sent[p]>>
  /\ cpc = "idle" => start = Len(out) /\ taken = << >> /\ cur = Null
  /\ \A a \in Addr : a \notin free => val[a] # << >>

\* The values of p that linearized are those it has finished pushing.
Finished(p) == IF pc[p] = "idle" THEN sent[p] ELSE sent[p] - 1

Tagged == \A i \in 1..Len(order) : order[i][2] <= Finished(order[i][1])

\* Each producer's own values linearize in the order it pushed them.
ProducerOrder ==
  \A i, j \in 1..Len(order) :
    i < j /\ order[i][1] = order[j][1] => order[i][2] < order[j][2]

\* The inductive invariant of the proofs in MpscProofs.tla.
IInv ==
  /\ TypeOK
  /\ Control
  /\ ListIntact
  /\ NoUseAfterFree
  /\ Fifo
  /\ Tagged
  /\ ProducerOrder

\* What drain hands over holds each producer's values in the order it pushed
\* them, across all batches (what queue-audit counts as disorder, main.cpp).
DeliveredInOrder ==
  \A i, j \in 1..start :
    i < j /\ out[i][1] = out[j][1] => out[i][2] < out[j][2]

\* Every value of every producer is handed over in the end, in spite of
\* compare-exchanges that lose and of addresses that are reused.
AllDelivered ==
  \A v \in Pushed : <>(\E i \in 1..start : out[i] = v)

-----------------------------------------------------------------------------
(* The queue implements Channel.                                           *)

\* Values of the nodes of s, oldest (last) first.
Oldest(s) == [i \in 1..Len(s) |-> val[s[Len(s) + 1 - i]]]

\* What the consumer carries between detaching and returning.
Carried == Oldest(taken) \o [i \in 1..(Len(out) - start) |-> out[Len(out) + 1 - i]]

Ch == INSTANCE Channel WITH
        Value <- Pushed,
        queue <- Oldest(chain),
        batch <- Carried,
        delivered <- SubSeq(out, 1, start)

\* The lock-free list behaves as an atomic FIFO channel whose consumer takes
\* everything that waits at once.
ImplementsChannel == Ch!ChannelSpec

=============================================================================
