--------------------------- MODULE LoadPortProofs ---------------------------
(***************************************************************************)
(* Proofs about the dropping load, for every data type: its two-bit count  *)
(* is exact under any pipelining of requests, any kills and any load on    *)
(* the memory controller.                                                  *)
(***************************************************************************)
EXTENDS LoadPort, SequenceTheorems, TLAPS

Bit(b) == IF b THEN 1 ELSE 0

\* The count of requests without sequences.
Requests == Bit(Valid(wordSlot)) + Bit(Valid(memWord)) + Bit(Valid(addrSlot))

IInv == TypeOK /\ owed = Requests /\ drop <= owed

\* The requests in flight are as many as there are full slots.
LEMMA InFlightLemma == TypeOK => InFlight \in Seq(Data) /\ Len(InFlight) = Requests
  <1> SUFFICES ASSUME TypeOK
               PROVE  InFlight \in Seq(Data) /\ Len(InFlight) = Requests
    OBVIOUS
  <1> DEFINE H(w) == Held(w) \in Seq(Data) /\ Len(Held(w)) = Bit(Valid(w))
  <1>1. ASSUME NEW w \in Wire PROVE H(w)
    BY <1>1, ChannelAssumption DEF Held, Valid, Wire, Bit
  <1>2. H(wordSlot) /\ H(memWord) /\ H(addrSlot)
    BY <1>1 DEF TypeOK
  <1> QED
    BY <1>2 DEF InFlight, Requests

\* The registers' wires, in terms of the registers.
LEMMA WiresLemma ==
  TypeOK =>
    /\ Load!addrIn_ready = ~Valid(addrSlot)
    /\ Load!dataFromMem_ready = ~Valid(wordSlot)
    /\ Load!addrOut \in Wire
    /\ Valid(Load!addrOut) <=> Valid(addrSlot) \/ Valid(addrIn)
    /\ Load!accepted <=> Valid(addrIn) /\ ~Valid(addrSlot)
    /\ Load!passed <=> (Valid(wordSlot) \/ Valid(memWord)) /\ (dataOut_ready \/ drop # 0)
    /\ (1 \in Mem!ready) <=> ~busy /\ ~Valid(wordSlot) /\ Valid(Load!addrOut)
    /\ Mem!dataOut_next[1] = IF 1 \in Mem!ready THEN Load!addrOut
                             ELSE IF Valid(wordSlot) THEN memWord ELSE NoToken
  <1> SUFFICES ASSUME TypeOK PROVE WiresLemma!2
    OBVIOUS
  <1> USE DEF Valid, Load!Valid, Offer!Valid, Mem!Valid, Load!Addr!Valid,
              Load!Word!Valid, Offer!Addr!Valid, Offer!Word!Valid
  <1>1. Load!addrIn_ready = ~Valid(addrSlot) /\ Load!dataFromMem_ready = ~Valid(wordSlot)
    BY DEF Load!addrIn_ready, Load!Addr!ins_ready, Load!dataFromMem_ready, Load!Word!ins_ready
  <1>2. Load!addrOut \in Wire /\ (Valid(Load!addrOut) <=> Valid(addrSlot) \/ Valid(addrIn))
    BY DEF TypeOK, Load!addrOut, Load!Addr!outs
  <1>3. Load!accepted <=> Valid(addrIn) /\ ~Valid(addrSlot)
    BY <1>1 DEF Load!accepted
  <1>4. Load!passed <=> (Valid(wordSlot) \/ Valid(memWord)) /\ (dataOut_ready \/ drop # 0)
    BY DEF Load!passed, Load!Word!outs, Load!word_ready, Load!dropping
  <1>5. Offer!addrOut = Load!addrOut /\ (Offer!dataFromMem_ready <=> ~Valid(wordSlot))
    BY DEF Offer!addrOut, Offer!Addr!outs, Load!addrOut, Load!Addr!outs,
           Offer!dataFromMem_ready, Offer!Word!ins_ready
  <1>6. Mem!priorityOut(1) <=> ~busy /\ ~Valid(wordSlot) /\ Valid(Load!addrOut)
    <2>1. Mem!asks(1) <=> Valid(Load!addrOut) /\ ~Valid(wordSlot)
      <3>1. 1 \in {p \in {0, 1} : p = 0 \/ Offer!dataFromMem_ready} <=> ~Valid(wordSlot)
        BY <1>5
      <3>2. [p \in {0, 1} |-> IF p = 1 THEN Offer!addrOut
                              ELSE IF busy THEN Zero ELSE NoToken][1] = Offer!addrOut
        OBVIOUS
      <3> QED
        BY <3>1, <3>2, <1>5 DEF Mem!asks
    <2>2. Mem!asks(0) <=> busy
      BY ChannelAssumption DEF Mem!asks, TypeOK
    <2>3. \A j \in {0, 1} : j < 1 <=> j = 0
      OBVIOUS
    <2> QED
      BY <2>1, <2>2, <2>3 DEF Mem!priorityOut
  <1>7. 1 \in Mem!ready <=> Mem!priorityOut(1)
    BY <1>5, <1>6 DEF Mem!ready
  <1>8. Mem!dataOut_next[1] = IF 1 \in Mem!ready THEN Load!addrOut
                              ELSE IF Valid(wordSlot) THEN memWord ELSE NoToken
    <2>1. 1 \in {p \in {0, 1} : p = 0 \/ Offer!dataFromMem_ready} <=> ~Valid(wordSlot)
      BY <1>5
    <2>2. Mem!dataOut_next[1] = IF Mem!priorityOut(1) THEN Offer!addrOut
                                ELSE IF ~Valid(wordSlot) THEN NoToken ELSE memWord
      BY <2>1 DEF Mem!dataOut_next, ReadWord
    <2> QED
      BY <2>2, <1>5, <1>7
  <1> QED
    BY <1>1, <1>2, <1>3, <1>4, <1>6, <1>7, <1>8

\* What the clock edge makes of the slots: the word slot keeps what the
\* requester left, the port keeps its word while the slot is full, and the
\* address slot keeps what the controller did not grant.
LEMMA SlotsLemma ==
  ASSUME TypeOK, Cycle
  PROVE  /\ addrSlot' \in Wire /\ wordSlot' \in Wire /\ memWord' \in Wire
         /\ Valid(addrSlot') <=> (Valid(addrSlot) \/ Valid(addrIn)) /\ ~(1 \in Mem!ready)
         /\ Valid(wordSlot') <=>
              (Valid(wordSlot) \/ Valid(memWord)) /\ ~(dataOut_ready \/ drop # 0)
         /\ Valid(memWord') <=> (1 \in Mem!ready) \/ (Valid(wordSlot) /\ Valid(memWord))
  <1> USE DEF Valid, Load!Valid, Load!Addr!Valid, Load!Word!Valid
  <1>1. /\ addrSlot' \in Wire
        /\ Valid(addrSlot') <=> (Valid(addrSlot) \/ Valid(addrIn)) /\ ~(1 \in Mem!ready)
    <2>1. Load!Addr!fullReg_next <=> (Valid(addrSlot) \/ Valid(addrIn)) /\ ~(1 \in Mem!ready)
      BY DEF Load!Addr!fullReg_next, Load!Addr!outputValid
    <2>2. Load!Addr!fullReg_next => Load!Addr!dataReg_next \in Data
      BY <2>1, ChannelAssumption
      DEF TypeOK, Wire, Load!Addr!dataReg_next, Load!Addr!ins_ready
    <2>3. addrSlot' = IF Load!Addr!fullReg_next THEN Load!Addr!dataReg_next ELSE NoToken
      BY DEF Cycle, Load!addrSlot_next, Load!Addr!slot_next
    <2> QED
      BY <2>1, <2>2, <2>3, ChannelAssumption DEF Wire
  <1>2. /\ wordSlot' \in Wire
        /\ Valid(wordSlot') <=>
             (Valid(wordSlot) \/ Valid(memWord)) /\ ~(dataOut_ready \/ drop # 0)
    <2>1. Load!Word!fullReg_next <=>
            (Valid(wordSlot) \/ Valid(memWord)) /\ ~(dataOut_ready \/ drop # 0)
      BY DEF Load!Word!fullReg_next, Load!Word!outputValid, Load!word_ready, Load!dropping
    <2>2. Load!Word!fullReg_next => Load!Word!dataReg_next \in Data
      BY <2>1, ChannelAssumption
      DEF TypeOK, Wire, Load!Word!dataReg_next, Load!Word!ins_ready, Load!word_ready,
          Load!dropping
    <2>3. wordSlot' = IF Load!Word!fullReg_next THEN Load!Word!dataReg_next ELSE NoToken
      BY DEF Cycle, Load!wordSlot_next, Load!Word!slot_next
    <2> QED
      BY <2>1, <2>2, <2>3, ChannelAssumption DEF Wire
  <1>3. /\ memWord' \in Wire
        /\ Valid(memWord') <=> (1 \in Mem!ready) \/ (Valid(wordSlot) /\ Valid(memWord))
    <2>1. memWord' = IF 1 \in Mem!ready THEN Load!addrOut
                     ELSE IF Valid(wordSlot) THEN memWord ELSE NoToken
      BY WiresLemma DEF Cycle
    <2>2. Load!addrOut \in Wire /\ ((1 \in Mem!ready) => Valid(Load!addrOut))
      BY WiresLemma
    <2> QED
      BY <2>1, <2>2 DEF TypeOK, Wire
  <1> QED
    BY <1>1, <1>2, <1>3

\* A clock cycle adds the request it accepts and takes off the word it passes,
\* wherever in the load and the controller the others move to.
LEMMA RequestsLemma ==
  ASSUME TypeOK, Cycle
  PROVE  /\ Requests \in 0 .. 3 /\ Requests' \in 0 .. 3
         /\ Requests' = Requests + Bit(Load!accepted) - Bit(Load!passed)
  <1> DEFINE A == Valid(addrSlot)  W == Valid(wordSlot)  M == Valid(memWord)
             a == Valid(addrIn)    r == dataOut_ready \/ drop # 0
             g == 1 \in Mem!ready
  <1>1. /\ Valid(addrSlot') <=> (A \/ a) /\ ~g
        /\ Valid(wordSlot') <=> (W \/ M) /\ ~r
        /\ Valid(memWord') <=> g \/ (W /\ M)
    BY SlotsLemma
  <1>2. /\ Load!accepted <=> a /\ ~A
        /\ Load!passed <=> (W \/ M) /\ r
        /\ g => ~W /\ (A \/ a)
    BY WiresLemma
  <1>3. Requests = Bit(W) + Bit(M) + Bit(A)
    BY DEF Requests
  <1>4. Requests' = Bit((W \/ M) /\ ~r) + Bit(g \/ (W /\ M)) + Bit((A \/ a) /\ ~g)
    BY <1>1 DEF Requests, Bit
  <1>5. Bit(Load!accepted) = Bit(a /\ ~A) /\ Bit(Load!passed) = Bit((W \/ M) /\ r)
    BY <1>2 DEF Bit
  <1> HIDE DEF A, W, M, a, r, g
  <1> QED
    BY <1>2, <1>3, <1>4, <1>5 DEF Bit

\* Both counters follow: the sum owed_next does not wrap, and a kill drops what
\* is then owed.
LEMMA CountersLemma ==
  ASSUME IInv, Cycle
  PROVE  owed' = Requests' /\ drop' \in 0 .. 3 /\ drop' <= owed'
  <1> DEFINE i == Bit(Load!accepted)  o == Bit(Load!passed)
  <1>1. i \in {0, 1} /\ o \in {0, 1}
    BY DEF Bit
  <1>2. /\ owed \in 0 .. 3 /\ owed + i - o \in 0 .. 3
        /\ Requests' = owed + i - o
    BY RequestsLemma DEF IInv
  <1>3. Load!owed_next = (owed + i + 4 - o) % 4
    BY DEF Load!owed_next, Load!One, Bit
  <1>4. drop \in 0 .. 3 /\ drop <= owed
    BY DEF IInv, TypeOK
  <1>5. drop' = IF kill THEN Load!owed_next
                ELSE IF drop # 0 /\ Load!passed THEN drop - 1 ELSE drop
    BY DEF Cycle, Load!drop_next, Load!dropping
  <1>6. owed' = Load!owed_next
    BY DEF Cycle
  <1>7. drop' = Load!owed_next \/ (drop' = drop - 1 /\ drop # 0 /\ o = 1)
           \/ (drop' = drop /\ (drop = 0 \/ o = 0))
    BY <1>5 DEF Bit
  <1> HIDE DEF i, o
  <1>8. Load!owed_next = owed + i - o
    BY <1>1, <1>2, <1>3
  <1> QED
    BY <1>1, <1>2, <1>4, <1>6, <1>7, <1>8

\* The reset state satisfies the invariant.
LEMMA IInvInit == Init => IInv
  BY ChannelAssumption DEF Init, IInv, TypeOK, Requests, Bit, Valid, Wire

\* Every clock cycle, every reset and every stuttering step preserves it.
LEMMA IInvStep == IInv /\ [Next]_vars => IInv'
  <1> SUFFICES ASSUME IInv, [Next]_vars PROVE IInv'
    OBVIOUS
  <1>1. CASE Cycle
    <2>1. TypeOK
      BY DEF IInv
    <2>2. owed' = Requests' /\ drop' \in 0 .. 3 /\ drop' <= owed'
      BY <1>1, CountersLemma
    <2>3. owed' \in 0 .. 3
      BY <1>1, <2>1, <2>2, RequestsLemma
    <2>4. addrSlot' \in Wire /\ wordSlot' \in Wire /\ memWord' \in Wire
      BY <1>1, <2>1, SlotsLemma
    <2>5. /\ addrIn' \in Wire /\ dataOut_ready' \in BOOLEAN
          /\ kill' \in BOOLEAN /\ busy' \in BOOLEAN
      BY <1>1 DEF Cycle, Requester
    <2> QED
      BY <2>2, <2>3, <2>4, <2>5 DEF IInv, TypeOK
  <1>2. CASE Reset
    BY <1>2, ChannelAssumption DEF Reset, IInv, TypeOK, Requests, Bit, Valid, Wire
  <1>3. CASE UNCHANGED vars
    BY <1>3 DEF vars, IInv, TypeOK, Requests
  <1> QED
    BY <1>1, <1>2, <1>3 DEF Next

\* In every reachable state of a load and its port the invariant holds.
THEOREM Invariance == Spec => []IInv
  BY IInvInit, IInvStep, PTL DEF Spec

\* The counters and the slots of the dropping load stay in their ranges: the
\* two bits of owed and drop never wrap below zero or above three.
THEOREM TypeCorrect == Spec => []TypeOK
  <1>1. IInv => TypeOK
    BY DEF IInv
  <1> QED
    BY <1>1, Invariance, PTL

\* The dropping load counts exactly the requests that are in it and in the
\* controller, and never drops more than that, for every data type.
THEOREM OwedCorrect == Spec => []OwedIsInFlight
  <1>1. IInv => OwedIsInFlight
    BY InFlightLemma DEF IInv, OwedIsInFlight
  <1> QED
    BY <1>1, Invariance, PTL
-----------------------------------------------------------------------------
(* To its requester the load is a FIFO.                                    *)

\* The k-th request in flight, by the slot it is in.
Slot(k) ==
  CASE k = 1 -> IF Valid(wordSlot) THEN wordSlot
                ELSE IF Valid(memWord) THEN memWord ELSE addrSlot
    [] k = 2 -> IF Valid(wordSlot) /\ Valid(memWord) THEN memWord ELSE addrSlot
    [] OTHER -> addrSlot

\* What is known of the sequences that LoadPort builds from the slots.
SlotSequences ==
  /\ Requests \in Nat /\ Requests <= 3 /\ drop \in Nat /\ drop <= Requests
  /\ InFlight \in Seq(Data) /\ Len(InFlight) = Requests
  /\ \A k \in 1 .. Requests : InFlight[k] = Slot(k)
  /\ Awaited \in Seq(Data) /\ Len(Awaited) = Requests - drop
  /\ \A k \in 1 .. Requests - drop : Awaited[k] = InFlight[k + drop]

LEMMA SequencesLemma == IInv => SlotSequences
  <1> SUFFICES ASSUME IInv PROVE SlotSequences
    OBVIOUS
  <1>1. TypeOK /\ Requests \in Nat /\ Requests <= 3 /\ drop \in Nat /\ drop <= Requests
    BY DEF IInv, TypeOK
  <1>2. InFlight \in Seq(Data) /\ Len(InFlight) = Requests
    BY <1>1, InFlightLemma
  <1>3. \A k \in 1 .. Requests : InFlight[k] = Slot(k)
    <2> DEFINE W == Held(wordSlot)  M == Held(memWord)  A == Held(addrSlot)
    <2>1. \A w \in Wire : /\ Held(w) \in Seq(Data) /\ Len(Held(w)) = Bit(Valid(w))
                          /\ Valid(w) => Held(w)[1] = w
      BY ChannelAssumption DEF Held, Valid, Wire, Bit
    <2>2. /\ W \in Seq(Data) /\ Len(W) = Bit(Valid(wordSlot))
          /\ Valid(wordSlot) => W[1] = wordSlot
          /\ M \in Seq(Data) /\ Len(M) = Bit(Valid(memWord))
          /\ Valid(memWord) => M[1] = memWord
          /\ A \in Seq(Data) /\ Len(A) = Bit(Valid(addrSlot))
          /\ Valid(addrSlot) => A[1] = addrSlot
      BY <1>1, <2>1 DEF TypeOK
    <2>3. InFlight = (W \o M) \o A
      BY DEF InFlight
    <2> HIDE DEF W, M, A
    <2>4. /\ W \o M \in Seq(Data) /\ Len(W \o M) = Len(W) + Len(M)
          /\ \A k \in 1 .. Len(W) + Len(M) :
               (W \o M)[k] = IF k <= Len(W) THEN W[k] ELSE M[k - Len(W)]
      BY <2>2, ConcatProperties
    <2> DEFINE U == W \o M
    <2>5. /\ U \in Seq(Data) /\ Len(U) = Len(W) + Len(M)
          /\ \A k \in 1 .. Len(U) : U[k] = IF k <= Len(W) THEN W[k] ELSE M[k - Len(W)]
      BY <2>4
    <2>6. InFlight = U \o A
      BY <2>3
    <2> HIDE DEF U
    <2>7. \A k \in 1 .. Len(U) + Len(A) :
            InFlight[k] = IF k <= Len(U) THEN U[k] ELSE A[k - Len(U)]
      BY <2>2, <2>5, <2>6, ConcatProperties
    <2> QED
      BY <2>2, <2>5, <2>7 DEF Requests, Bit, Slot
  <1>4. /\ Awaited \in Seq(Data) /\ Len(Awaited) = Requests - drop
        /\ \A k \in 1 .. Requests - drop : Awaited[k] = InFlight[k + drop]
    <2>1. \A k \in drop + 1 .. Requests : InFlight[k] \in Data
      BY <1>1, <1>2
    <2>2. Awaited = SubSeq(InFlight, drop + 1, Requests)
      BY <1>2 DEF Awaited
    <2>3. /\ SubSeq(InFlight, drop + 1, Requests) \in Seq(Data)
          /\ Len(SubSeq(InFlight, drop + 1, Requests))
               = IF drop + 1 <= Requests THEN Requests - (drop + 1) + 1 ELSE 0
          /\ \A k \in 1 .. Requests - (drop + 1) + 1 :
               SubSeq(InFlight, drop + 1, Requests)[k] = InFlight[drop + 1 + k - 1]
      BY <1>1, <2>1, SubSeqProperties
    <2> QED
      BY <1>1, <2>2, <2>3
  <1> QED
    BY <1>1, <1>2, <1>3, <1>4 DEF SlotSequences

LEMMA SequencesNext == IInv' => SlotSequences'
  BY SequencesLemma, PTL

\* Where a cycle moves the requests.
LEMMA MovesLemma ==
  ASSUME TypeOK, Cycle
  PROVE  /\ wordSlot' = IF dataOut_ready \/ drop # 0 THEN NoToken
                        ELSE IF Valid(wordSlot) THEN wordSlot ELSE memWord
         /\ memWord' = IF 1 \in Mem!ready THEN (IF Valid(addrSlot) THEN addrSlot ELSE addrIn)
                       ELSE IF Valid(wordSlot) THEN memWord ELSE NoToken
         /\ addrSlot' = IF 1 \in Mem!ready THEN NoToken
                        ELSE IF Valid(addrSlot) THEN addrSlot ELSE addrIn
  <1> USE DEF Valid, Load!Valid, Load!Addr!Valid, Load!Word!Valid
  <1>1. wordSlot' = IF dataOut_ready \/ drop # 0 THEN NoToken
                    ELSE IF Valid(wordSlot) THEN wordSlot ELSE memWord
    BY DEF Cycle, Load!wordSlot_next, Load!Word!slot_next, Load!Word!fullReg_next,
           Load!Word!outputValid, Load!Word!dataReg_next, Load!Word!ins_ready,
           Load!word_ready, Load!dropping
  <1>2. addrSlot' = IF 1 \in Mem!ready THEN NoToken
                    ELSE IF Valid(addrSlot) THEN addrSlot ELSE addrIn
    BY DEF Cycle, Load!addrSlot_next, Load!Addr!slot_next, Load!Addr!fullReg_next,
           Load!Addr!outputValid, Load!Addr!dataReg_next, Load!Addr!ins_ready
  <1>3. Load!addrOut = IF Valid(addrSlot) THEN addrSlot ELSE addrIn
    BY DEF Load!addrOut, Load!Addr!outs
  <1> QED
    BY <1>1, <1>2, <1>3, WiresLemma DEF Cycle

\* The requests in flight after a cycle are those before it and the accepted
\* one, without the one that was passed on.
LEMMA FlightStep ==
  ASSUME IInv, IInv', Cycle
  PROVE  \A k \in 1 .. Requests' :
           InFlight'[k] = IF k + Bit(Load!passed) <= Requests
                          THEN InFlight[k + Bit(Load!passed)] ELSE addrIn
  <1> DEFINE A == Valid(addrSlot)  W == Valid(wordSlot)  M == Valid(memWord)
             a == Valid(addrIn)    r == dataOut_ready \/ drop # 0
             g == 1 \in Mem!ready
  <1>1. TypeOK /\ SlotSequences /\ SlotSequences'
    BY SequencesLemma, SequencesNext DEF IInv
  <1>2. /\ Valid(addrSlot') <=> (A \/ a) /\ ~g
        /\ Valid(wordSlot') <=> (W \/ M) /\ ~r
        /\ Valid(memWord') <=> g \/ (W /\ M)
    BY <1>1, SlotsLemma
  <1>3. /\ Load!passed <=> (W \/ M) /\ r
        /\ g => ~W /\ (A \/ a)
    BY <1>1, WiresLemma
  <1>4. /\ wordSlot' = IF r THEN NoToken ELSE IF W THEN wordSlot ELSE memWord
        /\ memWord' = IF g THEN (IF A THEN addrSlot ELSE addrIn)
                      ELSE IF W THEN memWord ELSE NoToken
        /\ addrSlot' = IF g THEN NoToken ELSE IF A THEN addrSlot ELSE addrIn
    BY <1>1, MovesLemma
  <1>5. Requests = Bit(W) + Bit(M) + Bit(A)
    BY DEF Requests
  <1>6. Requests' = Bit((W \/ M) /\ ~r) + Bit(g \/ (W /\ M)) + Bit((A \/ a) /\ ~g)
    BY <1>2 DEF Requests, Bit
  <1>7. \A k \in 1 .. 3 :
          /\ Slot(k) = CASE k = 1 -> IF W THEN wordSlot ELSE IF M THEN memWord ELSE addrSlot
                         [] k = 2 -> IF W /\ M THEN memWord ELSE addrSlot
                         [] OTHER -> addrSlot
          /\ Slot(k)' = CASE k = 1 -> IF (W \/ M) /\ ~r THEN wordSlot'
                                      ELSE IF g \/ (W /\ M) THEN memWord' ELSE addrSlot'
                          [] k = 2 -> IF (W \/ M) /\ ~r /\ (g \/ (W /\ M)) THEN memWord'
                                                                           ELSE addrSlot'
                          [] OTHER -> addrSlot'
    BY <1>2 DEF Slot
  <1>8. Bit(Load!passed) = Bit((W \/ M) /\ r)
    BY <1>3 DEF Bit
  <1> HIDE DEF A, W, M, a, r, g
  <1>9. \A k \in 1 .. Requests' :
          Slot(k)' = IF k + Bit(Load!passed) <= Requests
                     THEN Slot(k + Bit(Load!passed)) ELSE addrIn
    BY <1>3, <1>4, <1>5, <1>6, <1>7, <1>8 DEF Bit
  <1> QED
    BY <1>1, <1>5, <1>8, <1>9 DEF SlotSequences, Bit

\* The queue of the abstract specification with the request that arrives now.
LEMMA ContentLemma ==
  ASSUME IInv
  PROVE  /\ Queue!Content \in Seq(Data)
         /\ Len(Queue!Content) = Requests - drop + Bit(Load!accepted)
         /\ \A k \in 1 .. Len(Queue!Content) :
              Queue!Content[k] = IF k + drop <= Requests THEN InFlight[k + drop] ELSE addrIn
  <1>1. TypeOK /\ SlotSequences
    BY SequencesLemma DEF IInv
  <1>2. Load!accepted <=> Valid(addrIn) /\ Load!addrIn_ready
    BY <1>1, WiresLemma
  <1>3. Queue!Content = Awaited \o (IF Load!accepted THEN <<addrIn>> ELSE <<>>)
    BY <1>2 DEF Queue!Content, Queue!Transfer, Queue!Valid, Valid
  <1>4. Load!accepted => addrIn \in Data
    BY <1>1, <1>2 DEF TypeOK, Wire, Valid
  <1> DEFINE c == Queue!Content  i == Bit(Load!accepted)
  <1>5. CASE Load!accepted
    <2>1. c = Awaited \o <<addrIn>> /\ i = 1
      BY <1>3, <1>5 DEF Bit
    <2> HIDE DEF c, i
    <2>2. /\ c \in Seq(Data) /\ Len(c) = Requests - drop + i
          /\ \A k \in 1 .. Len(c) :
               c[k] = IF k + drop <= Requests THEN InFlight[k + drop] ELSE addrIn
      BY <1>1, <1>4, <1>5, <2>1 DEF SlotSequences
    <2> QED
      BY <2>2 DEF c, i
  <1>6. CASE ~Load!accepted
    <2>1. c = Awaited /\ i = 0
      BY <1>1, <1>3, <1>6 DEF Bit, SlotSequences
    <2> HIDE DEF c, i
    <2>2. /\ c \in Seq(Data) /\ Len(c) = Requests - drop + i
          /\ \A k \in 1 .. Len(c) :
               c[k] = IF k + drop <= Requests THEN InFlight[k + drop] ELSE addrIn
      BY <1>1, <2>1 DEF SlotSequences
    <2> QED
      BY <2>2 DEF c, i
  <1> QED
    BY <1>5, <1>6

\* The word that shows, and when it is taken.
LEMMA OutLemma ==
  ASSUME TypeOK
  PROVE  /\ Load!dataOut = IF drop # 0 THEN NoToken
                           ELSE IF Valid(wordSlot) THEN wordSlot ELSE memWord
         /\ Queue!Valid(Load!dataOut) /\ dataOut_ready <=> drop = 0 /\ Load!passed
         /\ drop = 0 /\ Load!passed => dataOut_ready
  <1>1. Load!dataOut = IF drop # 0 THEN NoToken
                       ELSE IF Valid(wordSlot) THEN wordSlot ELSE memWord
    BY DEF Load!dataOut, Load!dropping, Load!Word!outs, Valid, Load!Valid, Load!Word!Valid
  <1>2. Load!passed <=> (Valid(wordSlot) \/ Valid(memWord)) /\ (dataOut_ready \/ drop # 0)
    BY WiresLemma
  <1> QED
    BY <1>1, <1>2 DEF Queue!Valid, Valid

LEMMA OffersLemma == IInv => Queue!OffersOldest
  <1> SUFFICES ASSUME IInv, Queue!Valid(Load!dataOut)
               PROVE  Queue!Content # <<>> /\ Load!dataOut = Head(Queue!Content)
    BY DEF Queue!OffersOldest
  <1>1. TypeOK /\ SlotSequences
    BY SequencesLemma DEF IInv
  <1>2. /\ drop = 0 /\ (Valid(wordSlot) \/ Valid(memWord))
        /\ Load!dataOut = Slot(1)
    BY <1>1, OutLemma DEF Queue!Valid, Valid, Slot
  <1>3. Requests >= 1
    BY <1>2 DEF Requests, Bit
  <1>4. InFlight[1] = Load!dataOut
    BY <1>1, <1>2, <1>3 DEF SlotSequences
  <1> DEFINE c == Queue!Content  i == Bit(Load!accepted)
  <1>5. i \in {0, 1}
    BY DEF Bit
  <1>6. /\ c \in Seq(Data) /\ Len(c) = Requests - drop + i
        /\ \A k \in 1 .. Len(c) :
             c[k] = IF k + drop <= Requests THEN InFlight[k + drop] ELSE addrIn
    BY ContentLemma
  <1> HIDE DEF c, i
  <1>7. Requests \in Nat
    BY <1>1 DEF SlotSequences
  <1>8. Len(c) >= 1 /\ c[1] = InFlight[1]
    BY <1>2, <1>3, <1>5, <1>6, <1>7
  <1>9. c # <<>> /\ Load!dataOut = Head(c)
    BY <1>4, <1>6, <1>8
  <1> QED
    BY <1>9 DEF c

\* The queue after a cycle without kill.
LEMMA AwaitedStep ==
  ASSUME IInv, IInv', Cycle, ~kill
  PROVE  Awaited' = IF drop = 0 /\ Load!passed THEN Tail(Queue!Content) ELSE Queue!Content
  <1> DEFINE i == Bit(Load!accepted)  o == Bit(Load!passed)  c == Queue!Content
  <1>1. TypeOK /\ SlotSequences /\ SlotSequences'
    BY SequencesLemma, SequencesNext DEF IInv
  <1>2. Requests' = Requests + i - o
    BY <1>1, RequestsLemma
  <1>3. \A k \in 1 .. Requests' :
          InFlight'[k] = IF k + o <= Requests THEN InFlight[k + o] ELSE addrIn
    BY FlightStep
  <1>4. /\ c \in Seq(Data) /\ Len(c) = Requests - drop + i
        /\ \A k \in 1 .. Len(c) :
             c[k] = IF k + drop <= Requests THEN InFlight[k + drop] ELSE addrIn
    BY ContentLemma
  <1>5. /\ i \in {0, 1} /\ o \in {0, 1} /\ (o = 1 <=> Load!passed)
    BY DEF Bit
  <1>6. drop' = IF drop # 0 /\ Load!passed THEN drop - 1 ELSE drop
    BY DEF Cycle, Load!drop_next, Load!dropping
  <1>7. Requests \in Nat /\ Requests <= 3 /\ drop \in Nat /\ drop <= Requests
    BY <1>1 DEF SlotSequences
  <1> HIDE DEF i, o, c
  <1>a. /\ Requests' \in Nat /\ Requests' <= 3 /\ drop' \in Nat /\ drop' <= Requests'
        /\ Awaited' \in Seq(Data) /\ Len(Awaited') = Requests' - drop'
        /\ \A k \in 1 .. Requests' - drop' : Awaited'[k] = InFlight'[k + drop']
    BY <1>1 DEF SlotSequences
  <1>b. PICK n \in Nat, d \in Nat :
          /\ n <= 3 /\ d <= n /\ n = Requests + i - o
          /\ d = IF drop # 0 /\ Load!passed THEN drop - 1 ELSE drop
          /\ Len(Awaited') = n - d
          /\ \A k \in 1 .. n - d : Awaited'[k] = InFlight'[k + d]
          /\ \A k \in 1 .. n :
               InFlight'[k] = IF k + o <= Requests THEN InFlight[k + o] ELSE addrIn
    BY <1>2, <1>3, <1>6, <1>a, Zenon
  <1>8. \A k \in 1 .. n - d :
          Awaited'[k] = IF k + d + o <= Requests THEN InFlight[k + d + o] ELSE addrIn
    <2> TAKE k \in 1 .. n - d
    <2>1. k + d \in 1 .. n
      BY <1>b
    <2>2. Awaited'[k] = InFlight'[k + d]
      BY <1>b
    <2>3. InFlight'[k + d] = IF k + d + o <= Requests THEN InFlight[k + d + o] ELSE addrIn
      BY <1>b, <2>1
    <2> QED
      BY <2>2, <2>3
  <1>9. CASE drop = 0 /\ Load!passed
    <2>1. drop = 0 /\ d = 0 /\ o = 1
      BY <1>5, <1>9, <1>b
    <2>2. c # <<>>
      BY <1>4, <1>5, <1>7, <1>b, <2>1
    <2>3. /\ Tail(c) \in Seq(Data) /\ Len(Tail(c)) = Len(c) - 1
          /\ \A k \in 1 .. Len(Tail(c)) : Tail(c)[k] = c[k + 1]
      BY <1>4, <2>2, HeadTailProperties
    <2>4. Len(Awaited') = Len(Tail(c)) /\ Len(Awaited') = n
      BY <1>4, <1>5, <1>7, <1>b, <2>1, <2>3
    <2>5. \A k \in 1 .. Len(Awaited') : Awaited'[k] = Tail(c)[k]
      <3> TAKE k \in 1 .. Len(Awaited')
      <3> DEFINE v == IF k + 1 <= Requests THEN InFlight[k + 1] ELSE addrIn
      <3>1. k + 1 \in 1 .. Len(c)
        BY <1>4, <1>5, <1>7, <1>b, <2>1, <2>3, <2>4
      <3>2. Tail(c)[k] = v
        BY <1>4, <2>1, <2>3, <2>4, <3>1
      <3>3. Awaited'[k] = v
        BY <1>8, <1>b, <2>1, <2>4
      <3> HIDE DEF v
      <3> QED
        BY <3>2, <3>3
    <2>6. Awaited' = Tail(c)
      BY <1>a, <2>3, <2>4, <2>5, SeqEqual
    <2> QED
      BY <1>9, <2>6 DEF c
  <1>10. CASE ~(drop = 0 /\ Load!passed)
    <2>1. d + o = drop
      BY <1>5, <1>7, <1>10, <1>b
    <2>2. Len(Awaited') = Len(c) /\ Len(Awaited') = n - d
      BY <1>4, <1>5, <1>7, <1>b, <2>1
    <2>3. \A k \in 1 .. Len(Awaited') : Awaited'[k] = c[k]
      <3> TAKE k \in 1 .. Len(Awaited')
      <3>1. k \in Nat /\ k + d + o = k + drop
        BY <1>5, <1>7, <1>b, <2>1, <2>2
      <3>2. c[k] = IF k + drop <= Requests THEN InFlight[k + drop] ELSE addrIn
        BY <1>4, <2>2
      <3> QED
        BY <1>8, <2>2, <3>1, <3>2
    <2>4. Awaited' = c
      BY <1>a, <1>4, <2>2, <2>3, SeqEqual
    <2> QED
      BY <1>10, <2>4 DEF c
  <1> QED
    BY <1>9, <1>10

\* Every cycle is a step of the FIFO.
LEMMA CycleRefines == IInv /\ IInv' /\ Queue!OffersOldest' /\ Cycle => Queue!Clock
  <1> SUFFICES ASSUME IInv, IInv', Queue!OffersOldest', Cycle PROVE Queue!Clock
    OBVIOUS
  <1>1. TypeOK /\ TypeOK' /\ SlotSequences'
    BY SequencesNext DEF IInv
  <1>a. /\ Requests' \in Nat /\ Requests' <= 3 /\ drop' \in Nat /\ drop' <= Requests'
        /\ Awaited' \in Seq(Data) /\ Len(Awaited') = Requests' - drop'
    BY <1>1 DEF SlotSequences
  <1>b. \E n, d \in Nat : n <= 3 /\ d <= n /\ Len(Awaited') = n - d
    BY <1>a, Zenon
  <1>2. Awaited' = CASE kill -> <<>>
                     [] ~kill /\ Queue!Valid(Load!dataOut) /\ dataOut_ready
                          -> Tail(Queue!Content)
                     [] OTHER -> Queue!Content
    <2>1. CASE kill
      <3>1. drop' = Requests'
        BY <2>1 DEF Cycle, Load!drop_next, IInv
      <3>2. Awaited' \in Seq(Data) /\ Len(Awaited') = 0
        <4>1. Len(Awaited') = Requests' - Requests' /\ Requests' \in Nat
          BY <1>a, <3>1, Zenon
        <4>2. \A n \in Nat : n - n = 0
          OBVIOUS
        <4> QED
          BY <1>a, <4>1, <4>2, Zenon
      <3> QED
        BY <2>1, <3>2
    <2>2. CASE ~kill
      BY <1>1, <2>2, AwaitedStep, OutLemma
    <2> QED
      BY <2>1, <2>2
  <1>3. Len(Awaited') <= 3
    BY <1>b
  <1>4. Queue!Holds(Load!dataOut, dataOut_ready) /\ ~kill => Load!dataOut' = Load!dataOut
    <2> SUFFICES ASSUME Queue!Holds(Load!dataOut, dataOut_ready), ~kill
                 PROVE  Load!dataOut' = Load!dataOut
      OBVIOUS
    <2>1. Queue!Valid(Load!dataOut) /\ ~dataOut_ready
      BY DEF Queue!Holds
    <2>2. drop = 0 /\ Load!dataOut = IF Valid(wordSlot) THEN wordSlot ELSE memWord
      BY <1>1, <2>1, OutLemma DEF Queue!Valid
    <2>3. drop' = 0 /\ wordSlot' = Load!dataOut
      BY <1>1, <2>1, <2>2, MovesLemma DEF Cycle, Load!drop_next, Load!dropping
    <2>4. Load!dataOut' = IF drop' # 0 THEN NoToken
                          ELSE IF Valid(wordSlot') THEN wordSlot' ELSE memWord'
      BY DEF Load!dataOut, Load!dropping, Load!Word!outs, Valid, Load!Valid, Load!Word!Valid
    <2> QED
      BY <2>1, <2>3, <2>4 DEF Queue!Valid, Valid
  <1>5. Queue!Holds(addrIn, Load!addrIn_ready) /\ ~kill => addrIn' = addrIn
    BY DEF Cycle, Requester, Holds, Valid, Queue!Holds, Queue!Valid
  <1> QED
    BY <1>2, <1>3, <1>4, <1>5 DEF Queue!Clock

\* A dropping load and its port of the memory controller are, to the requester,
\* a FIFO of three requests that a kill empties at once, although no request
\* is withdrawn from the controller: for every data type, any pipelining, any
\* kills and any traffic of the other loads.
THEOREM LoadRefinement == Spec => ImplementsElasticFifo
  <1>1. Init => Queue!Init
    <2> SUFFICES ASSUME Init PROVE Queue!Init
      OBVIOUS
    <2>1. IInv /\ Requests = 0
      BY IInvInit DEF Init, Requests, Bit, Valid
    <2>2. Awaited \in Seq(Data) /\ Len(Awaited) = 0
      BY <2>1, SequencesLemma DEF SlotSequences
    <2> QED
      BY <2>1, <2>2, OffersLemma DEF Queue!Init
  <1>2. IInv' /\ Queue!OffersOldest' /\ Reset => Queue!Clock
    <2> SUFFICES ASSUME IInv', Queue!OffersOldest', Reset PROVE Queue!Clock
      OBVIOUS
    <2>1. Requests' = 0
      BY DEF Reset, Requests, Bit, Valid
    <2>2. Awaited' \in Seq(Data) /\ Len(Awaited') = 0
      BY <2>1, SequencesNext DEF SlotSequences
    <2>3. kill /\ Awaited' = <<>>
      BY <2>2 DEF Reset
    <2> QED
      BY <2>2, <2>3 DEF Queue!Clock
  <1>3. UNCHANGED vars => UNCHANGED Queue!vars
    BY DEF vars, Queue!vars, Awaited, InFlight, Held, Valid, Load!addrIn_ready,
           Load!Addr!ins_ready, Load!dataOut, Load!dropping, Load!Word!outs,
           Load!Word!Valid, Load!Addr!Valid, Load!Valid
  <1>4. IInv /\ IInv' /\ Queue!OffersOldest' /\ [Next]_vars => [Queue!Clock]_(Queue!vars)
    BY <1>2, <1>3, CycleRefines DEF Next
  <1> QED
    BY <1>1, <1>4, Invariance, OffersLemma, PTL
    DEF Spec, ImplementsElasticFifo, Queue!Spec
=============================================================================
