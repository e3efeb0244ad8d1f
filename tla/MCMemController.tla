-------------------------- MODULE MCMemController --------------------------
(* Two blocks: the first stores through a port of its own and through the  *)
(* LSQ's, the second through the LSQ's only.                               *)
EXTENDS MemController

CONSTANTS b1, b2

MCBlocks == {b1, b2}
MCPorts == {0, 1}
MCStoresOf == [b \in MCBlocks |-> [p \in MCPorts |-> IF b = b1 \/ p = 1 THEN 1 ELSE 0]]
=============================================================================
