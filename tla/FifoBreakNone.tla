--------------------------- MODULE FifoBreakNone ---------------------------
(***************************************************************************)
(* fifo_break_none: the bypass around an inner fifo_break_dv.  A token     *)
(* goes into the inner FIFO when the consumer does not take it now or when *)
(* older tokens are ahead of it; otherwise it passes through.  The module  *)
(* is the wiring; the registers are those of the inner unit.               *)
(***************************************************************************)
EXTENDS Channel

VARIABLES ins, outs_ready,
          fifo_out, fifo_ready   \* output and input ready of the inner FIFO

\* fifo_in together with fifo_pvalid
fifo_in == IF Valid(ins) /\ (~outs_ready \/ Valid(fifo_out)) THEN ins ELSE NoToken
ins_ready == fifo_ready \/ outs_ready
outs == IF Valid(fifo_out) THEN fifo_out ELSE ins
=============================================================================
