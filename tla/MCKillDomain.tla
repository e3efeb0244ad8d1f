---------------------------- MODULE MCKillDomain ----------------------------
(* Model checking of a kill domain of two guards, two rounds told apart.    *)
EXTENDS KillDomain

MCLoading == {{}, {1}, {2}, {1, 2}}
=============================================================================
