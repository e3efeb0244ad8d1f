------------------------------ MODULE StandIn ------------------------------
(* handshake.stand_in: the producer's token or, for a round that a kill     *)
(* ended before it passed, a zero from the next cycle on.                   *)
EXTENDS Channel

VARIABLES sent,   \* this round's token has passed
          owe,    \* a zero is owed
          ins, kill_any, outs_ready

outs == IF owe THEN Zero ELSE ins
ins_ready == outs_ready /\ ~owe
passed == Valid(ins) /\ outs_ready /\ ~owe

sent_next == ~kill_any /\ (sent \/ passed)
\* Mutant: a zero is owed although the token has passed.
owe_next_AlsoSent == kill_any \/ (owe /\ ~outs_ready)

\* Mutant: a stopped producer is not stood in for.
owe_next_Never == owe /\ ~outs_ready

owe_next == (kill_any /\ ~(sent \/ passed)) \/ (owe /\ ~outs_ready)

\* The unit's simulation assertions on its surroundings.
Precondition == kill_any /\ ~outs_ready => ~owe /\ ~Valid(ins)
=============================================================================
