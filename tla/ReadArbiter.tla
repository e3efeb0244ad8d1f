---------------------------- MODULE ReadArbiter ----------------------------
(* The read side of a memory controller (read_memory_arbiter): one request  *)
(* a cycle, the lowest port that asks and can take a word; the word shows   *)
(* on the port from the next cycle until it is taken.                       *)
EXTENDS Channel, Naturals

CONSTANTS Ports,
          ReadWord(_)   \* what the memory holds at an address

VARIABLES dataOut,      \* valid and out_data of every port
          address_in,   \* the requests
          nReady        \* the ports that can take a word

asks(i) == Valid(address_in[i]) /\ i \in nReady
priorityOut(i) == asks(i) /\ \A j \in Ports : j < i => ~asks(j)

ready == {i \in nReady : priorityOut(i)}

dataOut_next == [i \in Ports |-> IF priorityOut(i) THEN ReadWord(address_in[i])
                                 ELSE IF i \in nReady THEN NoToken
                                 ELSE dataOut[i]]
=============================================================================
