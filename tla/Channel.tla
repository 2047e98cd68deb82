------------------------------- MODULE Channel -------------------------------
(***************************************************************************)
(* What the queue mapping promises (mpsc.hpp, "never drops, never          *)
(* duplicates, FIFO"): values sent by any thread wait in one queue; the    *)
(* consumer takes everything that waits in one step and later hands the    *)
(* batch over, oldest first.  This module has no implementation detail:    *)
(* Mpsc.tla is shown to implement it.                                      *)
(***************************************************************************)
EXTENDS Sequences

CONSTANT Value         \* the values producers send

VARIABLES queue,       \* sent and not yet taken, oldest first
          batch,       \* taken by the consumer and not yet handed over
          delivered    \* everything handed over, in order

cvars == <<queue, batch, delivered>>

ChannelInit ==
  /\ queue = << >>
  /\ batch = << >>
  /\ delivered = << >>

Send(v) ==
  /\ queue' = Append(queue, v)
  /\ UNCHANGED <<batch, delivered>>

\* The consumer takes the whole queue; it never takes a second batch while
\* it still holds one.
Take ==
  /\ batch = << >>
  /\ batch' = queue
  /\ queue' = << >>
  /\ UNCHANGED delivered

HandOver ==
  /\ delivered' = delivered \o batch
  /\ batch' = << >>
  /\ UNCHANGED queue

ChannelNext == (\E v \in Value : Send(v)) \/ Take \/ HandOver

ChannelSpec == ChannelInit /\ [][ChannelNext]_cvars

==============================================================================
