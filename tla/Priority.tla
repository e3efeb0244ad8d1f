------------------------------ MODULE Priority ------------------------------
(***************************************************************************)
(* handshake.priority: `hi` when it carries something, `lo` otherwise; lo  *)
(* is waited for only when hi is zero.  One data register holds the answer *)
(* as far as it is known.                                                  *)
(***************************************************************************)
EXTENDS Channel

CONSTANTS hi, lo   \* the two inputs

VARIABLES seen,                    \* seen_hi and seen_lo
          emitted, hi_nz_r, held,
          ins, outs_ready

take(i) == Valid(ins[i]) /\ ~seen[i]
here(i) == seen[i] \/ take(i)
hi_is_nz == ins[hi] # Zero
hi_now_nz == take(hi) /\ hi_is_nz
hi_nz == hi_nz_r \/ hi_now_nz

valid_i == ~emitted /\ here(hi) /\ (hi_nz \/ here(lo))
fire == valid_i /\ outs_ready
done == here(hi) /\ here(lo) /\ (emitted \/ fire)

done_hi == here(lo) /\ (emitted \/ ((hi_nz_r \/ here(lo)) /\ outs_ready))
done_lo == here(hi) /\ (emitted \/ outs_ready)
again_hi == Valid(ins[hi]) /\ seen[hi] /\ done_hi
again_lo == Valid(ins[lo]) /\ seen[lo] /\ done_lo
again_nz == again_hi /\ hi_is_nz
early == Valid(ins[hi]) /\ seen[hi] /\ here(lo) /\ emitted /\ hi_is_nz

ins_ready == [i \in {hi, lo} |-> ~seen[i] \/ (IF i = hi THEN done_hi ELSE done_lo)]
outs == IF ~(valid_i \/ early) THEN NoToken
        ELSE IF hi_now_nz \/ early THEN ins[hi]
        ELSE IF hi_nz_r \/ ~take(lo) THEN held
        ELSE ins[lo]
-----------------------------------------------------------------------------
Reset ==
  /\ seen' = [i \in {hi, lo} |-> FALSE]
  /\ emitted' = FALSE /\ hi_nz_r' = FALSE /\ held' = Zero

NextRound ==
  /\ seen' = [i \in {hi, lo} |-> IF i = hi THEN again_hi ELSE again_lo]
  /\ hi_nz_r' = again_nz
  /\ emitted' = (early /\ outs_ready)
  /\ held' = IF again_nz THEN ins[hi] ELSE IF again_lo THEN ins[lo] ELSE Zero

SameRound ==
  /\ seen' = [i \in {hi, lo} |-> here(i)]
  /\ hi_nz_r' = hi_nz
  /\ held' = IF hi_now_nz THEN ins[hi]
             ELSE IF take(lo) /\ ~hi_nz_r THEN ins[lo] ELSE held
  /\ emitted' = (emitted \/ fire)

Clock == IF done THEN NextRound ELSE SameRound

InitRegs ==
  /\ seen = [i \in {hi, lo} |-> FALSE]
  /\ emitted = FALSE /\ hi_nz_r = FALSE /\ held = Zero
=============================================================================
