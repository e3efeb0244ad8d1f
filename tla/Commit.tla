------------------------------- MODULE Commit -------------------------------
(* handshake.commit: a wire whose `kill` is the reset of the units that a  *)
(* decision stops, at the token's transfer or at its first offer.  (The    *)
(* reset, which is also a kill, is the composition's.)                     *)
EXTENDS Channel

VARIABLES kill_at_valid,   \* parameter KILL_AT_VALID (never changes)
          killed,          \* the token now offered has had its kill
          ins, outs_ready

outs == ins
ins_ready == outs_ready
\* Mutant: a waiting token kills again in every cycle.
kill_EveryCycle == IF kill_at_valid THEN Valid(ins) ELSE Valid(ins) /\ outs_ready

kill == IF kill_at_valid THEN Valid(ins) /\ ~killed
                         ELSE Valid(ins) /\ outs_ready

killed_next == kill_at_valid /\ Valid(ins) /\ ~outs_ready
=============================================================================
