----------------------------- MODULE MCBuffers -----------------------------
(* Model checking of every buffer kind with two data values.               *)
EXTENDS Buffers

CONSTANTS d0, d1

MCData == {d0, d1}
MCInitTokens == {<<>>, <<d1>>, <<d1, d0, d1, d0>>}
=============================================================================
