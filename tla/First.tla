------------------------------- MODULE First -------------------------------
(***************************************************************************)
(* handshake.first: the first non-zero payload to arrive wins, every input *)
(* is consumed once a round.  Only the winner's payload is kept.           *)
(***************************************************************************)
EXTENDS Channel, Naturals

CONSTANT Inputs   \* 0 .. size - 1

VARIABLES seen, winner, has_win, emitted, ins, outs_ready

taken(i) == Valid(ins[i]) /\ ~seen[i]
seen_next(i) == seen[i] \/ taken(i)
carries(i) == taken(i) /\ ins[i] # Zero

\* The payload of the lowest input of a set, zero for none.
Lowest(S) == IF S = {} THEN Zero
             ELSE ins[CHOOSE i \in S : \A j \in S : i <= j]

cand_v == \E i \in Inputs : carries(i)
cand == Lowest({i \in Inputs : carries(i)})

closing == \A i \in Inputs : seen_next(i)
valid_i == (has_win \/ cand_v \/ closing) /\ ~emitted
fire == valid_i /\ outs_ready
done == closing /\ (emitted \/ fire)

all_others(k) == \A j \in Inputs \ {k} : seen_next(j)
any_other(k) == \E j \in Inputs \ {k} : carries(j)
done_wo(k) ==
  all_others(k) /\ (emitted \/ ((has_win \/ any_other(k) \/ all_others(k)) /\ outs_ready))
again(k) == Valid(ins[k]) /\ seen[k] /\ done_wo(k)
early_in(k) == Valid(ins[k]) /\ seen[k] /\ all_others(k) /\ emitted

AgainCarries == {k \in Inputs : again(k) /\ ins[k] # Zero}
EarlyCarries == {k \in Inputs : early_in(k) /\ ins[k] # Zero}
early == EarlyCarries # {}

ins_ready == [k \in Inputs |-> ~seen[k] \/ done_wo(k)]
outs == IF ~(valid_i \/ early) THEN NoToken
        ELSE IF emitted THEN Lowest(EarlyCarries)
        ELSE IF has_win THEN winner
        ELSE cand
-----------------------------------------------------------------------------
Reset ==
  /\ seen' = [i \in Inputs |-> FALSE]
  /\ winner' = Zero /\ has_win' = FALSE /\ emitted' = FALSE

NextRound ==
  /\ seen' = [i \in Inputs |-> again(i)]
  /\ has_win' = (AgainCarries # {})
  /\ winner' = Lowest(AgainCarries)
  /\ emitted' = (early /\ outs_ready)

\* Mutant: a winner that the sink does not take is not latched.
SameRound_NoLatch ==
  /\ seen' = [i \in Inputs |-> seen_next(i)]
  /\ UNCHANGED <<has_win, winner>>
  /\ emitted' = (emitted \/ fire)

SameRound ==
  /\ seen' = [i \in Inputs |-> seen_next(i)]
  /\ has_win' = (has_win \/ cand_v)
  /\ winner' = IF ~has_win /\ cand_v THEN cand ELSE winner
  /\ emitted' = (emitted \/ fire)

Clock == IF done THEN NextRound ELSE SameRound

InitRegs ==
  /\ seen = [i \in Inputs |-> FALSE]
  /\ winner = Zero /\ has_win = FALSE /\ emitted = FALSE
=============================================================================
