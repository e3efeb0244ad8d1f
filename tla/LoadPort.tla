------------------------------ MODULE LoadPort ------------------------------
(***************************************************************************)
(* A dropping load on its port of a memory controller, between a requester *)
(* in a kill domain that pipelines as many requests as it can and kills    *)
(* that come at any time.  Other loads keep the controller busy as they    *)
(* like.                                                                   *)
(***************************************************************************)
EXTENDS Channel, Naturals, Sequences

VARIABLES addrSlot, wordSlot, owed, drop,   \* the load
          memWord,                          \* the controller's port
          addrIn, dataOut_ready, kill,      \* the requester
          busy                              \* a load on a lower port asks

vars == <<addrSlot, wordSlot, owed, drop, memWord, addrIn, dataOut_ready, kill, busy>>

Offer == INSTANCE LoadKillDrop WITH addrOut_ready <- FALSE, dataFromMem <- memWord

\* Port 0 is the other loads'.
ReadWord(a) == a
Mem == INSTANCE ReadArbiter WITH Ports <- {0, 1},
  dataOut <- [p \in {0, 1} |-> IF p = 0 THEN NoToken ELSE memWord],
  address_in <- [p \in {0, 1} |->
                  IF p = 1 THEN Offer!addrOut ELSE IF busy THEN Zero ELSE NoToken],
  nReady <- {p \in {0, 1} : p = 0 \/ Offer!dataFromMem_ready}

Load == INSTANCE LoadKillDrop WITH addrOut_ready <- (1 \in Mem!ready), dataFromMem <- memWord
-----------------------------------------------------------------------------
Init ==
  /\ addrSlot = NoToken /\ wordSlot = NoToken /\ owed = 0 /\ drop = 0
  /\ memWord = NoToken
  /\ addrIn \in Wire /\ dataOut_ready \in BOOLEAN /\ kill \in BOOLEAN /\ busy \in BOOLEAN

\* The requester is reset by the kill: what it offered is gone.
Requester ==
  /\ addrIn' \in Wire
  /\ Holds(addrIn, Load!addrIn_ready) /\ ~kill => addrIn' = addrIn
  /\ dataOut_ready' \in BOOLEAN /\ kill' \in BOOLEAN /\ busy' \in BOOLEAN

Cycle ==
  /\ addrSlot' = Load!addrSlot_next /\ wordSlot' = Load!wordSlot_next
  /\ owed' = Load!owed_next /\ drop' = Load!drop_next
  /\ memWord' = Mem!dataOut_next[1]
  /\ Requester

\* Under the circuit's reset every commit's kill is high.
Reset ==
  /\ kill
  /\ addrSlot' = NoToken /\ wordSlot' = NoToken /\ owed' = 0 /\ drop' = 0
  /\ memWord' = NoToken
  /\ addrIn' \in Wire /\ dataOut_ready' \in BOOLEAN /\ kill' \in BOOLEAN /\ busy' \in BOOLEAN

Next == Cycle \/ Reset

Spec == Init /\ [][Next]_vars

\* The clock runs, the requester and the memory are free again and again.
FairSpec == Spec /\ WF_vars(Next) /\ []<>dataOut_ready /\ []<>~busy
-----------------------------------------------------------------------------
Held(w) == IF Valid(w) THEN <<w>> ELSE <<>>

\* The requests in flight, oldest first, and those a requester still awaits.
InFlight == Held(wordSlot) \o Held(memWord) \o Held(addrSlot)
Awaited == SubSeq(InFlight, drop + 1, Len(InFlight))

TypeOK ==
  /\ addrSlot \in Wire /\ wordSlot \in Wire /\ memWord \in Wire
  /\ owed \in 0 .. 3 /\ drop \in 0 .. 3
  /\ addrIn \in Wire /\ dataOut_ready \in BOOLEAN /\ kill \in BOOLEAN /\ busy \in BOOLEAN

\* The two-bit count never wraps: it is the number of requests in the load and
\* the controller, at most three, and no more are dropped than are owed.
OwedIsInFlight == owed = Len(InFlight) /\ drop <= owed

Queue == INSTANCE ElasticFifo WITH
  ins <- addrIn, ins_ready <- Load!addrIn_ready, outs <- Load!dataOut,
  outs_ready <- dataOut_ready, rst <- kill, q <- Awaited, capacity <- 3,
  resetTokens <- <<>>

\* To its requester the load is a FIFO of three requests that a kill empties,
\* although nothing is withdrawn from the memory controller: no word of a dead
\* evaluation shows and no word of a live one is lost.
ImplementsElasticFifo == Queue!Spec

\* Every request of a live evaluation is answered, whatever is dropped first.
Answered == Queue!Accepts /\ Queue!Delivers
=============================================================================
