------------------------------ MODULE Channel ------------------------------
(***************************************************************************)
(* A dataflow channel of a generated circuit: a data bus, a `valid` wire   *)
(* driven by the producer and a `ready` wire driven by the consumer.  Data *)
(* and valid are modelled by one wire whose value is either a token of     *)
(* Data or NoToken (valid low; the bus then carries nothing a consumer may *)
(* look at).  A token is transferred at a clock edge at which both are     *)
(* high.                                                                   *)
(***************************************************************************)
CONSTANTS Data,     \* what the data bus can carry
          NoToken,  \* the value of the wire while valid is low
          Zero      \* the bus at (others => '0'), what data registers reset to

ASSUME ChannelAssumption == NoToken \notin Data /\ Zero \in Data

Wire == Data \cup {NoToken}

Valid(w) == w # NoToken

\* The token that crosses a channel at this clock edge, as a sequence of at
\* most one element.
Transfer(w, ready) == IF Valid(w) /\ ready THEN <<w>> ELSE <<>>

\* The elastic protocol as a producer follows it: an offer the consumer does
\* not take stays, with its data, in the next cycle.
Holds(w, ready) == Valid(w) /\ ~ready
=============================================================================
