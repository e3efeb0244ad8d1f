----------------------------- MODULE MCLoadPort -----------------------------
(* Model checking of a dropping load with two data values.                 *)
EXTENDS LoadPort

CONSTANTS d0, d1

MCData == {d0, d1}
=============================================================================
