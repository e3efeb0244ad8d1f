---------------------------- MODULE ElasticFifo ----------------------------
(***************************************************************************)
(* What every storage unit on a channel promises, whatever its registers:  *)
(* it is a first-in first-out queue of at most `capacity` tokens between   *)
(* two elastic channels.  It loses, duplicates and reorders nothing, may   *)
(* delay, and may let a token through in the cycle it arrives.             *)
(***************************************************************************)
EXTENDS Channel, Naturals, Sequences

VARIABLES ins, ins_ready,    \* the input channel
          outs, outs_ready,  \* the output channel
          rst,               \* the reset of the unit
          q,                 \* the tokens it stores, oldest first
          capacity,          \* how many it may store (never changes)
          resetTokens        \* what it stores after a reset (never changes)

vars == <<ins, ins_ready, outs, outs_ready, rst, q, capacity, resetTokens>>

\* Stored tokens, and the one that arrives at this clock edge.
Content == q \o Transfer(ins, ins_ready)

\* Whatever is offered is the oldest token not yet delivered.
OffersOldest == Valid(outs) => Content # <<>> /\ outs = Head(Content)

Init ==
  /\ q = resetTokens
  /\ Len(q) <= capacity
  /\ OffersOldest

Clock ==
  /\ UNCHANGED <<capacity, resetTokens>>
  /\ q' = CASE rst -> resetTokens
            [] ~rst /\ Valid(outs) /\ outs_ready -> Tail(Content)
            [] OTHER -> Content
  /\ Len(q') <= capacity
  /\ OffersOldest'
  /\ Holds(outs, outs_ready) /\ ~rst => outs' = outs
  /\ Holds(ins, ins_ready) /\ ~rst => ins' = ins

Spec == Init /\ [][Clock]_vars

\* Every token offered to the unit is accepted, and every token it holds is
\* offered to the consumer, unless a reset discards it.
Accepts == Valid(ins) ~> ((Valid(ins) /\ ins_ready) \/ rst)
Delivers == (Content # <<>>) ~> (Valid(outs) \/ rst)
=============================================================================
