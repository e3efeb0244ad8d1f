----------------------------- MODULE MCSharing -----------------------------
(* Two operations on a unit of two stages.  The first keeps up to one and  *)
(* a half tokens in it and has three credits, enough to enter in every     *)
(* cycle; the second is off the critical cycles and has a single one.      *)
EXTENDS Sharing

CONSTANTS d0, d1

MCData == {d0, d1}
MCOccupancy == <<150, 0>>
=============================================================================
