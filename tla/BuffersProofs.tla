--------------------------- MODULE BuffersProofs ---------------------------
(***************************************************************************)
(* Every buffer kind implements ElasticFifo, for every number of slots,    *)
(* every delay, all initial tokens and every data type.                    *)
(***************************************************************************)
EXTENDS Buffers, CountingLemmas

\* The facts about the constants that the proofs use.
LEMMA Parameters ==
  /\ NUM_SLOTS \in Nat /\ NUM_SLOTS >= 2
  /\ DV_LATENCY \in Nat /\ DV_LATENCY >= 1
  /\ NoToken \notin Data /\ Zero \in Data
  BY BuffersAssumption, ChannelAssumption
-----------------------------------------------------------------------------
(* Slot numbers.                                                           *)

Wrap(i) == (i + 1) % NUM_SLOTS

\* What (i + 1) mod NUM_SLOTS, the pointer increment of the head and tail
\* processes, computes: a step to the next slot that wraps at the last one.
LEMMA SuccessorLemma ==
  ASSUME NEW i \in Slots
  PROVE  /\ Wrap(i) = IF i = NUM_SLOTS - 1 THEN 0 ELSE i + 1
         /\ Wrap(i) \in Slots
  BY Parameters, SMT DEF Wrap, Slots

\* The same for the slot of the k-th stored token, at most one turn ahead.
LEMMA SlotLemma ==
  ASSUME NEW i \in 0 .. 2 * NUM_SLOTS - 1
  PROVE  /\ i % NUM_SLOTS = IF i < NUM_SLOTS THEN i ELSE i - NUM_SLOTS
         /\ i % NUM_SLOTS \in Slots
  BY Parameters, SMT DEF Slots

\* The slot y places after slot x, as the tail is Count places after the head.
IsSlot(s, a) == s \in Slots /\ s = IF a < NUM_SLOTS THEN a ELSE a - NUM_SLOTS
Turn(a) == IsSlot(a % NUM_SLOTS, a)

LEMMA AheadLemma ==
  ASSUME NEW x \in Slots, NEW y \in 0 .. NUM_SLOTS
  PROVE  Turn(x + y)
<1> DEFINE a == x + y
<1>1. a \in 0 .. 2 * NUM_SLOTS - 1
  BY Parameters DEF Slots
<1> HIDE DEF a
<1>2. Turn(a)
  BY <1>1, SlotLemma DEF Turn, IsSlot
<1> QED
  BY <1>2 DEF a

\* Slots less than a turn ahead of the head are distinct.
LEMMA DistinctSlots ==
  ASSUME NEW h \in Slots, NEW i \in 0 .. NUM_SLOTS - 1, NEW j \in 0 .. NUM_SLOTS - 1,
         i # j
  PROVE  (h + i) % NUM_SLOTS # (h + j) % NUM_SLOTS
<1> DEFINE a == h + i
           b == h + j
<1>1. a \in 0 .. 2 * NUM_SLOTS - 1 /\ b \in 0 .. 2 * NUM_SLOTS - 1
  BY Parameters DEF Slots
<1>2. a # b /\ a - b < NUM_SLOTS /\ b - a < NUM_SLOTS
  BY Parameters DEF Slots
<1> HIDE DEF a, b
<1>3. a % NUM_SLOTS # b % NUM_SLOTS
  BY <1>1, <1>2, SlotLemma, Parameters
<1> QED
  BY <1>3 DEF a, b

\* Advancing the head by one shifts every slot number by one.
LEMMA ShiftedSlots ==
  ASSUME NEW h \in Slots, NEW k \in 0 .. NUM_SLOTS - 1
  PROVE  (Wrap(h) + k) % NUM_SLOTS = (h + k + 1) % NUM_SLOTS
<1> DEFINE a == h + k + 1
           b == Wrap(h) + k
<1>1. a \in 0 .. 2 * NUM_SLOTS - 1 /\ b \in 0 .. 2 * NUM_SLOTS - 1
  BY SuccessorLemma, Parameters DEF Slots
<1>2. a = b \/ (a = b + NUM_SLOTS /\ b < NUM_SLOTS)
  BY SuccessorLemma, Parameters DEF Slots
<1> HIDE DEF a, b
<1>3. b % NUM_SLOTS = a % NUM_SLOTS
  BY <1>1, <1>2, SlotLemma, Parameters
<1> QED
  BY <1>3 DEF a, b
-----------------------------------------------------------------------------
(* A ring of slots, as the circular FIFO and the queue keep one.           *)

\* The n tokens from slot h on.
Read(mem, h, n) == [k \in 1 .. n |-> mem[(h + k - 1) % NUM_SLOTS]]

LEMMA ReadType ==
  ASSUME NEW mem \in [Slots -> Data], NEW h \in Slots, NEW n \in 0 .. NUM_SLOTS
  PROVE  /\ Read(mem, h, n) \in Seq(Data) /\ Len(Read(mem, h, n)) = n
         /\ \A k \in 1 .. n : Read(mem, h, n)[k] = mem[(h + k - 1) % NUM_SLOTS]
         /\ n # 0 => Read(mem, h, n) # <<>> /\ Head(Read(mem, h, n)) = mem[h]
         /\ n = 0 => Read(mem, h, n) = <<>>
<1> DEFINE s == Read(mem, h, n)
<1>1. ASSUME NEW k \in 1 .. n PROVE mem[(h + k - 1) % NUM_SLOTS] \in Data
  <2>1. h + k - 1 \in 0 .. 2 * NUM_SLOTS - 1
    BY Parameters DEF Slots
  <2> QED
    BY <2>1, SlotLemma
<1>2. n \in Nat /\ s \in Seq(Data) /\ Len(s) = n
  BY <1>1, Parameters DEF Read
<1>3. \A k \in 1 .. n : s[k] = mem[(h + k - 1) % NUM_SLOTS]
  BY DEF Read
<1> HIDE DEF s
<1>4. n # 0 => s # <<>> /\ Head(s) = mem[h]
  <2>1. (h + 1 - 1) % NUM_SLOTS = h
    <3>1. h + 1 - 1 = h /\ h \in 0 .. 2 * NUM_SLOTS - 1 /\ h < NUM_SLOTS
      BY Parameters DEF Slots
    <3> QED
      BY <3>1, SlotLemma
  <2>2. n # 0 => 1 \in 1 .. n /\ s # <<>> /\ Head(s) = s[1]
    BY <1>2
  <2> QED
    BY <1>3, <2>1, <2>2
<1>5. n = 0 => s = <<>>
  BY <1>2
<1> QED
  BY <1>2, <1>3, <1>4, <1>5 DEF s

\* The slots after token x was written behind the n tokens from h on (w = 1),
\* the head after one was taken (r = 1).
Put(mem, h, n, w, x) == IF w = 1 THEN [mem EXCEPT ![(h + n) % NUM_SLOTS] = x] ELSE mem
Skip(h, r) == IF r = 1 THEN Wrap(h) ELSE h

\* The queue q after token x was appended (w = 1), the first one taken (r = 1), or
\* both.
Edge(q, w, x, r) == LET c == q \o IF w = 1 THEN <<x>> ELSE <<>>
                    IN  IF r = 1 THEN Tail(c) ELSE c

Moves(mem, h, n, w, x, r) ==
  /\ Put(mem, h, n, w, x) \in [Slots -> Data] /\ Skip(h, r) \in Slots
  /\ n + w - r \in 0 .. NUM_SLOTS
  /\ Read(Put(mem, h, n, w, x), Skip(h, r), n + w - r) = Edge(Read(mem, h, n), w, x, r)

\* A clock edge that writes token x behind the last one or takes the first one,
\* or both, possibly into the slot that is being emptied.
LEMMA ReadStep ==
  ASSUME NEW mem \in [Slots -> Data], NEW h \in Slots, NEW n \in 0 .. NUM_SLOTS,
         NEW w \in 0 .. 1, NEW r \in 0 .. 1, NEW x, w = 1 => x \in Data,
         r = 1 => n # 0,
         w = 1 => r = 1 \/ n # NUM_SLOTS
  PROVE  Moves(mem, h, n, w, x, r)
<1> USE Parameters
<1> DEFINE mem2 == Put(mem, h, n, w, x)
           h2 == Skip(h, r)
           n2 == n + w - r
<1>a. mem2 = IF w = 1 THEN [mem EXCEPT ![(h + n) % NUM_SLOTS] = x] ELSE mem
  BY DEF Put
<1>b. h2 = IF r = 1 THEN Wrap(h) ELSE h
  BY DEF Skip
<1>c. n2 = n + w - r
  OBVIOUS
<1> HIDE DEF mem2, h2, n2
<1> USE <1>a, <1>b, <1>c
<1> DEFINE t == (h + n) % NUM_SLOTS
<1>1. h + n \in 0 .. 2 * NUM_SLOTS - 1 /\ t \in Slots
  BY SlotLemma DEF Slots
<1>2. mem2 \in [Slots -> Data] /\ h2 \in Slots
  BY <1>1, SuccessorLemma
<1>3. n2 \in 0 .. NUM_SLOTS /\ n2 = n + w - r /\ n \in Nat
  OBVIOUS
<1> DEFINE old == Read(mem, h, n)
           new == Read(mem2, h2, n2)
           c == old \o IF w = 1 THEN <<x>> ELSE <<>>
<1>4. /\ old \in Seq(Data) /\ Len(old) = n
      /\ \A k \in 1 .. n : old[k] = mem[(h + k - 1) % NUM_SLOTS]
  BY ReadType
<1>5. /\ new \in Seq(Data) /\ Len(new) = n2
      /\ \A k \in 1 .. n2 : new[k] = mem2[(h2 + k - 1) % NUM_SLOTS]
  <2>1. \A m \in [Slots -> Data], g \in Slots, j \in 0 .. NUM_SLOTS :
          /\ Read(m, g, j) \in Seq(Data) /\ Len(Read(m, g, j)) = j
          /\ \A k \in 1 .. j : Read(m, g, j)[k] = m[(g + k - 1) % NUM_SLOTS]
    <3> TAKE m \in [Slots -> Data], g \in Slots, j \in 0 .. NUM_SLOTS
    <3> QED
      BY ReadType, Zenon
  <2>2. n2 \in 0 .. NUM_SLOTS
    BY <1>3
  <2> QED
    BY <1>2, <2>1, <2>2, Zenon
<1> HIDE DEF old, new
<1>6. /\ c \in Seq(Data) /\ Len(c) = n + w
      /\ \A k \in 1 .. n + w : c[k] = IF k <= n THEN old[k] ELSE x
  <2>1. CASE w = 1
    <3>1. c = old \o <<x>> /\ x \in Data
      BY <2>1
    <3> HIDE DEF c
    <3> QED
      BY <1>3, <1>4, <3>1, <2>1
  <2>2. CASE w = 0
    <3>1. c = old \o <<>>
      BY <2>2
    <3> HIDE DEF c
    <3> QED
      BY <1>3, <1>4, <3>1, <2>2
  <2> QED
    BY <2>1, <2>2
<1> HIDE DEF c
<1>7. ASSUME NEW k \in 1 .. n2 PROVE new[k] = c[k + r]
  <2>1. k \in Nat /\ k >= 1 /\ k <= n2 /\ h \in Nat /\ h < NUM_SLOTS /\ k + r \in 1 .. n + w
    BY <1>3 DEF Slots
  <2>2. (h2 + k - 1) % NUM_SLOTS = (h + (k + r - 1)) % NUM_SLOTS
    <3>1. CASE r = 1
      <4>1. h2 = Wrap(h) /\ h2 \in Nat
        BY <1>2, <3>1 DEF Slots
      <4>2. k - 1 \in 0 .. NUM_SLOTS - 1
        BY <1>3
      <4>3. (Wrap(h) + (k - 1)) % NUM_SLOTS = (h + (k - 1) + 1) % NUM_SLOTS
        BY <4>2, ShiftedSlots, Zenon
      <4>4. h + (k - 1) + 1 = h + (k + r - 1) /\ h2 + k - 1 = h2 + (k - 1)
        BY <2>1, <4>1, <3>1
      <4> QED
        BY <4>1, <4>3, <4>4
    <3>2. CASE r = 0
      <4>1. h2 = h
        BY <3>2
      <4> QED
        BY <2>1, <4>1, <3>2
    <3> QED
      BY <3>1, <3>2
  <2> DEFINE p == k + r - 1
             a == (h + p) % NUM_SLOTS
  <2>3. p \in 0 .. NUM_SLOTS /\ p + 1 = k + r /\ (p = NUM_SLOTS => r = 1) /\ p <= n
    BY <1>3, <2>1
  <2>4. new[k] = mem2[a]
    BY <1>5, <2>2
  <2> HIDE DEF p
  <2>5. CASE p < n
    <3>1. c[k + r] = old[k + r] /\ k + r \in 1 .. n
      BY <1>3, <1>6, <2>1, <2>3, <2>5
    <3>2. old[k + r] = mem[a]
      <4>1. h + (k + r) - 1 = h + p
        BY <1>3, <2>1, <2>3
      <4> QED
        BY <1>4, <3>1, <4>1
    <3>3. a \in Slots
      <4>1. h + p \in 0 .. 2 * NUM_SLOTS - 1
        BY <2>1, <2>3, <2>5
      <4> QED
        BY <4>1, SlotLemma
    <3>4. w = 1 => a # t
      <4>1. ASSUME w = 1, n < NUM_SLOTS PROVE a # t
        <5>1. p \in 0 .. NUM_SLOTS - 1 /\ n \in 0 .. NUM_SLOTS - 1 /\ p # n
          BY <1>3, <2>3, <2>5, <4>1
        <5> QED
          BY <5>1, DistinctSlots, Zenon
      <4>2. ASSUME r = 1, n = NUM_SLOTS PROVE a # t
        <5>1. p \in 0 .. NUM_SLOTS - 1 /\ 0 \in 0 .. NUM_SLOTS - 1 /\ p # 0
          BY <1>3, <2>1, <2>3, <2>5, <4>2
        <5>2. a # (h + 0) % NUM_SLOTS
          BY <5>1, DistinctSlots, Zenon
        <5>3. (h + 0) % NUM_SLOTS = h /\ t = h
          <6>1. h + 0 = h /\ h + NUM_SLOTS \in 0 .. 2 * NUM_SLOTS - 1 /\ h \in 0 .. 2 * NUM_SLOTS - 1
            BY <2>1
          <6> QED
            BY <2>1, <4>2, <6>1, SlotLemma
        <5> QED
          BY <5>2, <5>3
      <4> QED
        BY <1>3, <4>1, <4>2
    <3>5. mem2[a] = mem[a]
      BY <3>3, <3>4
    <3> QED
      BY <2>4, <3>1, <3>2, <3>5
  <2>6. CASE p = n
    <3>1. w = 1 /\ c[k + r] = x
      BY <1>3, <1>6, <2>1, <2>3, <2>6
    <3>2. mem2[t] = x /\ a = t
      BY <1>1, <2>6, <3>1
    <3> QED
      BY <2>4, <3>1, <3>2
  <2> QED
    BY <1>3, <2>3, <2>5, <2>6
<1>8. CASE r = 1
  <2>1. c # <<>>
    BY <1>3, <1>6, <1>8
  <2>2. /\ Tail(c) \in Seq(Data) /\ Len(Tail(c)) = n2
        /\ \A k \in 1 .. n2 : Tail(c)[k] = c[k + 1]
    BY <1>3, <1>6, <2>1, <1>8
  <2>3. \A k \in 1 .. n2 : new[k] = Tail(c)[k]
    BY <1>7, <2>1, <2>2, <1>8
  <2>4. new = Tail(c)
    BY <1>5, <2>2, <2>3, SeqEqual
  <2>5. new = Edge(old, w, x, r)
    BY <1>8, <2>4 DEF c, Edge
  <2> QED
    BY <1>2, <1>3, <2>5, Zenon DEF new, old, mem2, h2, n2, Moves
<1>9. CASE r = 0
  <2>1. Len(c) = n2
    BY <1>3, <1>6, <1>9
  <2>2. \A k \in 1 .. n2 : new[k] = c[k]
    <3>1. \A k \in 1 .. n2 : k + r = k
      BY <1>3, <2>1, <1>9
    <3> QED
      BY <1>7, <3>1
  <2>3. new = c
    BY <1>5, <1>6, <2>1, <2>2, SeqEqual
  <2>5. new = Edge(old, w, x, r)
    BY <1>9, <2>3 DEF c, Edge
  <2> QED
    BY <1>2, <1>3, <2>5, Zenon DEF new, old, mem2, h2, n2, Moves
<1> QED
  BY <1>8, <1>9
-----------------------------------------------------------------------------
(* The circular FIFO, with any wire i at its input: FIFO_BREAK_DV puts the *)
(* channel there, FIFO_BREAK_NONE what its bypass leaves over.             *)

Ring(i) == INSTANCE FifoBreakDv WITH Full <- bit1, Empty <- bit2, ins <- i

RingType ==
  /\ head \in Slots /\ tail \in Slots /\ bit1 \in BOOLEAN /\ bit2 \in BOOLEAN
  /\ Memory \in [Slots -> Data]

RingInv == RingType /\ Fifo!FlagsAgree

RingFacts ==
  /\ Fifo!Count \in 0 .. NUM_SLOTS
  /\ bit2 <=> Fifo!Count = 0
  /\ bit1 <=> Fifo!Count = NUM_SLOTS
  /\ tail = (head + Fifo!Count) % NUM_SLOTS
  /\ Fifo!Contents = Read(Memory, head, Fifo!Count)

\* The flags and the pointers determine how many tokens there are.
LEMMA RingState == RingInv => RingFacts
<1> SUFFICES ASSUME RingInv PROVE RingFacts
  OBVIOUS
<1> USE Parameters
<1>1. /\ head \in Nat /\ head < NUM_SLOTS /\ tail \in Nat /\ tail < NUM_SLOTS
      /\ head \in Slots /\ tail \in Slots /\ bit1 \in BOOLEAN /\ bit2 \in BOOLEAN
      /\ ~(bit1 /\ bit2) /\ (bit1 \/ bit2 <=> head = tail)
  BY DEF RingInv, RingType, Fifo!FlagsAgree, Slots
<1>2. Fifo!Contents = Read(Memory, head, Fifo!Count)
  BY DEF Fifo!Contents, Read
<1>3. CASE bit1
  <2>1. Fifo!Count = NUM_SLOTS /\ ~bit2 /\ head = tail
    BY <1>1, <1>3 DEF Fifo!Count
  <2>2. (head + NUM_SLOTS) % NUM_SLOTS = head
    BY <1>1, SlotLemma
  <2> QED
    BY <1>2, <1>3, <2>1, <2>2 DEF RingFacts
<1>4. CASE ~bit1 /\ head <= tail
  <2>1. Fifo!Count = tail - head /\ (bit2 <=> head = tail)
    BY <1>1, <1>4 DEF Fifo!Count
  <2>2. tail % NUM_SLOTS = tail
    BY <1>1, SlotLemma
  <2> QED
    BY <1>1, <1>2, <1>4, <2>1, <2>2 DEF RingFacts
<1>5. CASE ~bit1 /\ ~(head <= tail)
  <2>1. Fifo!Count = tail + NUM_SLOTS - head /\ ~bit2
    BY <1>1, <1>5 DEF Fifo!Count
  <2>2. (tail + NUM_SLOTS) % NUM_SLOTS = tail
    BY <1>1, SlotLemma
  <2>3. head + Fifo!Count = tail + NUM_SLOTS
    BY <1>1, <2>1
  <2> QED
    BY <1>1, <1>2, <1>5, <2>1, <2>2, <2>3 DEF RingFacts
<1> QED
  BY <1>1, <1>3, <1>4, <1>5

LEMMA RingStateNext == RingInv' => RingFacts'
  BY RingState, PTL

\* One clock edge of the circular FIFO: the flags stay consistent with the
\* pointers, and the queue appends what is accepted and drops what is taken.
LEMMA RingEdge ==
  ASSUME RingInv, outs_ready \in BOOLEAN, rst \in BOOLEAN,
         NEW i \in Wire, Ring(i)!Clock
  PROVE  /\ RingInv'
         /\ rst => bit2' /\ Fifo!Contents' = <<>>
         /\ ~rst => Fifo!Contents' =
              LET c == Fifo!Contents \o Transfer(i, ~bit1 \/ outs_ready)
              IN  IF outs_ready /\ ~bit2 THEN Tail(c) ELSE c
         /\ ~rst /\ ~bit2 /\ ~outs_ready => ~bit2' /\ Memory'[head'] = Memory[head]
<1> USE Parameters
<1> DEFINE w == Valid(i) /\ (~bit1 \/ outs_ready)
           r == outs_ready /\ ~bit2
<1>1. /\ head \in Slots /\ tail \in Slots /\ bit1 \in BOOLEAN /\ bit2 \in BOOLEAN
      /\ Memory \in [Slots -> Data] /\ ~(bit1 /\ bit2) /\ (bit1 \/ bit2 <=> head = tail)
  BY DEF RingInv, RingType, Fifo!FlagsAgree
<1>2. /\ w \in BOOLEAN /\ r \in BOOLEAN /\ (w => i \in Data) /\ 0 \in Slots
      /\ Wrap(head) \in Slots /\ Wrap(tail) \in Slots
      /\ head # tail => Wrap(head) # Wrap(tail)
      /\ Wrap(head) # head /\ Wrap(tail) # tail
  BY <1>1, SuccessorLemma DEF Valid, Wire, Slots
<1>3. /\ Memory' = CASE rst -> [k \in Slots |-> Zero]
                     [] ~rst /\ w -> [Memory EXCEPT ![tail] = i]
                     [] OTHER -> Memory
      /\ tail' = CASE rst -> 0 [] ~rst /\ w -> Wrap(tail) [] OTHER -> tail
      /\ head' = CASE rst -> 0 [] ~rst /\ r -> Wrap(head) [] OTHER -> head
      /\ bit1' = CASE rst -> FALSE
                   [] ~rst /\ w /\ ~r -> (Wrap(tail) = head \/ bit1)
                   [] ~rst /\ ~w /\ r -> FALSE
                   [] OTHER -> bit1
      /\ bit2' = CASE rst -> TRUE
                   [] ~rst /\ ~w /\ r -> (Wrap(head) = tail \/ bit2)
                   [] ~rst /\ w /\ ~r -> FALSE
                   [] OTHER -> bit2
  BY DEF Ring!Clock, Ring!FifoWrite, Ring!TailUpdate, Ring!HeadUpdate, Ring!FullUpdate,
     Ring!EmptyUpdate, Ring!WriteEn, Ring!ReadEn, Ring!Successor, Ring!Slots, Ring!Valid,
     Valid, Slots, Wrap
<1>4. w /\ bit1 => r
  BY <1>1
<1>5. bit2 => ~r
  OBVIOUS
<1> HIDE DEF w, r
<1>6. RingInv'
  <2>1. head' \in Slots /\ tail' \in Slots /\ bit1' \in BOOLEAN /\ bit2' \in BOOLEAN
    BY <1>1, <1>2, <1>3
  <2>2. Memory' \in [Slots -> Data]
    BY <1>1, <1>2, <1>3
  <2>3. ~(bit1' /\ bit2') /\ (bit1' \/ bit2' <=> head' = tail')
    BY <1>1, <1>2, <1>3, <1>4, <1>5
  <2> QED
    BY <2>1, <2>2, <2>3 DEF RingInv, RingType, Fifo!FlagsAgree
<1>7. RingFacts /\ RingFacts'
  BY <1>6, RingState, RingStateNext
<1>8. ASSUME rst PROVE bit2' /\ Fifo!Contents' = <<>>
  <2>1. bit2' /\ Fifo!Count' = 0
    BY <1>3, <1>7, <1>8 DEF RingFacts
  <2>2. Fifo!Contents' = Read(Memory', head', 0)
    BY <1>7, <2>1 DEF RingFacts
  <2> QED
    BY <2>1, <2>2 DEF Read
<1>9. ASSUME ~rst
      PROVE  Fifo!Contents' = LET c == Fifo!Contents \o Transfer(i, ~bit1 \/ outs_ready)
                              IN  IF outs_ready /\ ~bit2 THEN Tail(c) ELSE c
  <2>1. /\ Memory' = IF w THEN [Memory EXCEPT ![tail] = i] ELSE Memory
        /\ head' = IF r THEN Wrap(head) ELSE head
        /\ tail' = IF w THEN Wrap(tail) ELSE tail
    BY <1>3, <1>9
  <2>2. Fifo!Count' = Fifo!Count + Bit(w) - Bit(r)
    <3>1. /\ head \in Nat /\ head < NUM_SLOTS /\ tail \in Nat /\ tail < NUM_SLOTS
          /\ head' = IF r THEN (IF head = NUM_SLOTS - 1 THEN 0 ELSE head + 1) ELSE head
          /\ tail' = IF w THEN (IF tail = NUM_SLOTS - 1 THEN 0 ELSE tail + 1) ELSE tail
      BY <1>1, <2>1, SuccessorLemma DEF Slots
    <3>2. bit1' \in BOOLEAN /\ bit2' \in BOOLEAN
      BY <1>6 DEF RingInv, RingType
    <3>3. CASE w /\ r
      <4>1. bit1' = bit1 /\ bit2' = bit2 /\ ~bit2
        BY <1>3, <1>5, <1>9, <3>3
      <4> QED
        BY <1>1, <3>1, <3>3, <4>1 DEF Fifo!Count, Bit
    <3>4. CASE w /\ ~r
      <4>1. ~bit1 /\ (bit1' <=> Wrap(tail) = head)
        BY <1>1, <1>3, <1>4, <1>9, <3>4
      <4>2. bit1' <=> (IF tail = NUM_SLOTS - 1 THEN 0 ELSE tail + 1) = head
        BY <1>1, <4>1, SuccessorLemma
      <4> QED
        BY <1>1, <3>1, <3>2, <3>4, <4>1, <4>2 DEF Fifo!Count, Bit
    <3>5. CASE ~w /\ r
      <4>1. ~bit2 /\ ~bit1'
        BY <1>3, <1>5, <1>9, <3>5
      <4> QED
        BY <1>1, <3>1, <3>5, <4>1 DEF Fifo!Count, Bit
    <3>6. CASE ~w /\ ~r
      <4>1. bit1' = bit1
        BY <1>3, <1>9, <3>6
      <4> QED
        BY <1>1, <3>1, <3>6, <4>1 DEF Fifo!Count, Bit
    <3> QED
      BY <1>2, <3>3, <3>4, <3>5, <3>6
  <2> DEFINE n == Fifo!Count
  <2>3. /\ n \in 0 .. NUM_SLOTS /\ (r => n # 0) /\ (w => r \/ n # NUM_SLOTS)
        /\ tail = (head + n) % NUM_SLOTS
    BY <1>4, <1>5, <1>7 DEF RingFacts
  <2>4. /\ Fifo!Contents = Read(Memory, head, n)
        /\ Fifo!Contents' = Read(Memory', head', n')
    BY <1>7 DEF RingFacts
  <2> DEFINE wr == Bit(w)
             rd == Bit(r)
  <2>5. /\ Memory' = Put(Memory, head, n, wr, i) /\ head' = Skip(head, rd)
        /\ n' = n + wr - rd /\ wr \in 0 .. 1 /\ rd \in 0 .. 1
        /\ (wr = 1 => i \in Data) /\ (rd = 1 => n # 0) /\ (wr = 1 => rd = 1 \/ n # NUM_SLOTS)
    BY <1>2, <2>1, <2>2, <2>3 DEF Bit, Put, Skip
  <2> HIDE DEF n, wr, rd
  <2>6. Read(Memory', head', n') = Edge(Read(Memory, head, n), wr, i, rd)
    <3>1. Read(Put(Memory, head, n, wr, i), Skip(head, rd), n + wr - rd)
            = Edge(Read(Memory, head, n), wr, i, rd)
      <4>1. Moves(Memory, head, n, wr, i, rd)
        BY <1>1, <2>3, <2>5, ReadStep
      <4> QED
        BY <4>1, Zenon DEF Moves
    <3> QED
      BY <2>5, <3>1, Zenon
  <2>7. Transfer(i, ~bit1 \/ outs_ready) = IF w THEN <<i>> ELSE <<>>
    BY DEF Transfer, w
  <2> QED
    BY <2>4, <2>6, <2>7 DEF r, Edge, wr, rd, Bit
<1>10. ASSUME ~rst, ~bit2, ~outs_ready PROVE ~bit2' /\ Memory'[head'] = Memory[head]
  <2>1. ~r /\ head' = head /\ ~bit2' /\ Memory' = IF w THEN [Memory EXCEPT ![tail] = i] ELSE Memory
    BY <1>1, <1>2, <1>3, <1>10 DEF r
  <2>2. w => head # tail
    BY <1>1, <1>4, <1>10, <2>1
  <2> QED
    BY <1>1, <2>1, <2>2
<1> QED
  BY <1>6, <1>8, <1>9, <1>10
-----------------------------------------------------------------------------
(* The invariant, and what a state and a step of any kind have to satisfy. *)

\* What each kind keeps true of its registers.
KindInv ==
  /\ RegistersAgree
  /\ kind # "QUEUE" => initial = <<>>
  /\ kind = "COUNTER_BUFFER" => count < DV_LATENCY

IInv == TypeOK /\ KindInv

\* The part of the registers' types that the kinds share.
LEMMA Types ==
  ASSUME IInv
  PROVE  /\ bit1 \in BOOLEAN /\ bit2 \in BOOLEAN /\ word \in Data /\ count \in Nat
         /\ head \in Slots /\ tail \in Slots
         /\ valid_reg \in [Slots -> BOOLEAN] /\ Memory \in [Slots -> Data]
         /\ ins \in Wire /\ (Valid(ins) => ins \in Data)
         /\ outs_ready \in BOOLEAN /\ rst \in BOOLEAN
         /\ initial \in Seq(Data) /\ Len(initial) \in 0 .. NUM_SLOTS
<1>1. initial \in Seq(Data) /\ Len(initial) <= NUM_SLOTS
  <2>1. initial \in InitTokens \/ initial = <<>>
    BY DEF IInv, TypeOK
  <2>2. <<>> \in Seq(Data) /\ Len(<<>>) <= NUM_SLOTS
    BY Parameters
  <2> QED
    BY <2>1, <2>2, BuffersAssumption
<1>2. Len(initial) \in 0 .. NUM_SLOTS
  BY <1>1, LenProperties, Parameters
<1>3. count \in Nat
  BY Parameters DEF IInv, TypeOK
<1> QED
  BY <1>1, <1>2, <1>3 DEF IInv, TypeOK, Valid, Wire

\* Which definitions are behind the channel of each kind.
Wiring ==
  /\ kind = "ONE_SLOT_BREAK_DV" =>
       ins_ready = Dv!ins_ready /\ outs = Dv!outs /\ Contents = Dv!Contents /\ Capacity = 1
  /\ kind = "ONE_SLOT_BREAK_R" =>
       ins_ready = R!ins_ready /\ outs = R!outs /\ Contents = R!Contents /\ Capacity = 1
  /\ kind = "ONE_SLOT_BREAK_DVR" =>
       ins_ready = Dvr!ins_ready /\ outs = Dvr!outs /\ Contents = Dvr!Contents /\ Capacity = 1
  /\ kind = "FIFO_BREAK_DV" =>
       ins_ready = Fifo!ins_ready /\ outs = Fifo!outs /\ Contents = Fifo!Contents
       /\ Capacity = NUM_SLOTS
  /\ kind = "FIFO_BREAK_NONE" =>
       ins_ready = Bypass!ins_ready /\ outs = Bypass!outs /\ Contents = Fifo!Contents
       /\ Capacity = NUM_SLOTS
  /\ kind = "FIFO_BREAK_NONE_1" =>
       ins_ready = Bypass1!ins_ready /\ outs = Bypass1!outs /\ Contents = Dv!Contents
       /\ Capacity = 1
  /\ kind = "SHIFT_REG_BREAK_DV" =>
       ins_ready = Shift!ins_ready /\ outs = Shift!outs /\ Contents = Shift!Contents
       /\ Capacity = NUM_SLOTS
  /\ kind = "COUNTER_BUFFER" =>
       ins_ready = Cnt!ins_ready /\ outs = Cnt!outs /\ Contents = Cnt!Contents /\ Capacity = 1
  /\ kind = "QUEUE" =>
       ins_ready = Que!ins_ready /\ outs = Que!outs /\ Contents = Que!Contents
       /\ Capacity = NUM_SLOTS

LEMMA WiringLemma == Wiring
  BY DEF Wiring, ins_ready, outs, Contents, Capacity

LEMMA WiringNext == Wiring'
  BY WiringLemma, PTL

\* A state: at most Capacity tokens, and the oldest one at the output.
StateFacts ==
  /\ Contents \in Seq(Data) /\ Len(Contents) <= Capacity
  /\ Valid(outs) => /\ Contents \o Transfer(ins, ins_ready) # <<>>
                    /\ outs = Head(Contents \o Transfer(ins, ins_ready))

\* A step: the queue moves as ElasticFifo says, and an offer stays.
StepFacts ==
  /\ rst => Contents' = initial
  /\ ~rst /\ Valid(outs) /\ outs_ready => Contents' = Tail(Contents \o Transfer(ins, ins_ready))
  /\ ~rst /\ ~(Valid(outs) /\ outs_ready) => Contents' = Contents \o Transfer(ins, ins_ready)
  /\ ~rst /\ Holds(outs, outs_ready) => outs' = outs

\* Sequences of at most two tokens.
LEMMA Singles ==
  /\ <<>> \in Seq(Data) /\ <<>> \o <<>> = <<>> /\ Len(<<>>) = 0
  /\ \A x \in Data : /\ <<x>> \in Seq(Data) /\ Len(<<x>>) = 1
                     /\ <<x>> # <<>> /\ Head(<<x>>) = x /\ Tail(<<x>>) = <<>>
                     /\ <<x>> \o <<>> = <<x>> /\ <<>> \o <<x>> = <<x>>
  /\ \A x, y \in Data : /\ <<x>> \o <<y>> # <<>> /\ Head(<<x>> \o <<y>>) = x
                        /\ Tail(<<x>> \o <<y>>) = <<y>>
<1>1. <<>> \in Seq(Data) /\ <<>> \o <<>> = <<>> /\ Len(<<>>) = 0
  OBVIOUS
<1>2. ASSUME NEW x \in Data
      PROVE  /\ <<x>> \in Seq(Data) /\ Len(<<x>>) = 1
             /\ <<x>> # <<>> /\ Head(<<x>>) = x /\ Tail(<<x>>) = <<>>
             /\ <<x>> \o <<>> = <<x>> /\ <<>> \o <<x>> = <<x>>
  <2>1. <<x>> \in Seq(Data)
    OBVIOUS
  <2> QED
    BY <2>1, ConcatEmptySeq
<1>3. ASSUME NEW x \in Data, NEW y \in Data
      PROVE  /\ <<x>> \o <<y>> # <<>> /\ Head(<<x>> \o <<y>>) = x
             /\ Tail(<<x>> \o <<y>>) = <<y>>
  <2> DEFINE c == <<x>> \o <<y>>
             t == Tail(c)
  <2>1. c \in Seq(Data) /\ Len(c) = 2 /\ c[1] = x /\ c[2] = y
    OBVIOUS
  <2> HIDE DEF c
  <2>2. c # <<>> /\ Head(c) = x /\ t \in Seq(Data) /\ Len(t) = 1 /\ t[1] = y
    <3>1. c # <<>>
      BY <2>1, EmptySeq
    <3>2. /\ Head(c) = c[1] /\ t \in Seq(Data) /\ Len(t) = Len(c) - 1
          /\ \A k \in 1 .. Len(t) : t[k] = c[k + 1]
      BY <2>1, <3>1, HeadTailProperties
    <3>3. Len(t) = 1 /\ 1 \in 1 .. 1 /\ 1 + 1 = 2
      BY <2>1, <3>2
    <3>4. t[1] = c[1 + 1]
      BY <3>2, <3>3
    <3> QED
      BY <2>1, <3>1, <3>2, <3>3, <3>4
  <2> HIDE DEF t
  <2>3. t = <<y>>
    BY <2>2
  <2> QED
    BY <2>2, <2>3 DEF c, t
<1> QED
  BY <1>1, <1>2, <1>3

-----------------------------------------------------------------------------
(* The kinds, one by one: what a state shows, and what a clock edge does.  *)

LEMMA DvState == ASSUME IInv, kind = "ONE_SLOT_BREAK_DV" PROVE StateFacts
<1>1. /\ ins_ready = (~bit1 \/ outs_ready) /\ outs = (IF bit1 THEN word ELSE NoToken)
      /\ Contents = (IF bit1 THEN <<word>> ELSE <<>>) /\ Capacity = 1
  BY WiringLemma DEF Wiring, Dv!outs, Dv!ins_ready, Dv!Contents
<1> QED
  BY <1>1, Types, Singles, Parameters DEF StateFacts, Transfer, Valid

LEMMA DvEdge == ASSUME IInv, DvStep PROVE IInv' /\ StepFacts
<1>1. IInv'
  BY Types, Parameters DEF DvStep, Env, IInv, TypeOK, KindInv, RegistersAgree, Dv!Clock, Dv!Control,
     Dv!DataUpdate, Dv!Valid, Valid
<1>2. kind' = kind /\ kind = "ONE_SLOT_BREAK_DV" /\ initial = <<>>
  BY DEF DvStep, Env, IInv, KindInv
<1>3. /\ ins_ready = (~bit1 \/ outs_ready) /\ outs = (IF bit1 THEN word ELSE NoToken)
      /\ Contents = (IF bit1 THEN <<word>> ELSE <<>>)
  BY <1>2, WiringLemma DEF Wiring, Dv!outs, Dv!ins_ready, Dv!Contents
<1>4. /\ outs' = (IF bit1' THEN word' ELSE NoToken)
      /\ Contents' = (IF bit1' THEN <<word'>> ELSE <<>>)
  BY <1>2, WiringNext DEF Wiring, Dv!outs, Dv!Contents
<1>5. /\ bit1' = (~rst /\ (Valid(ins) \/ (bit1 /\ ~outs_ready)))
      /\ word' = CASE rst -> Zero [] ~rst /\ Valid(ins) /\ (~bit1 \/ outs_ready) -> ins
                   [] OTHER -> word
  BY DEF DvStep, Dv!Clock, Dv!Control, Dv!DataUpdate, Dv!Valid, Dv!ins_ready, Valid
<1>6. StepFacts
  BY <1>2, <1>3, <1>4, <1>5, Types, Singles, Parameters DEF StepFacts, Transfer, Valid, Holds
<1> QED
  BY <1>1, <1>6

LEMMA RState == ASSUME IInv, kind = "ONE_SLOT_BREAK_R" PROVE StateFacts
<1>1. /\ ins_ready = ~bit1 /\ outs = (IF bit1 THEN word ELSE ins)
      /\ Contents = (IF bit1 THEN <<word>> ELSE <<>>) /\ Capacity = 1
  BY WiringLemma DEF Wiring, R!outs, R!ins_ready, R!Contents
<1>2. CASE bit1
  BY <1>1, <1>2, Types, Singles, Parameters DEF StateFacts, Transfer, Valid
<1>3. CASE ~bit1 /\ Valid(ins)
  <2>1. Contents = <<>> /\ outs = ins /\ ins \in Data /\ Transfer(ins, ins_ready) = <<ins>>
    BY <1>1, <1>3, Types DEF Transfer
  <2> QED
    BY <1>1, <2>1, Singles, Parameters DEF StateFacts
<1>4. CASE ~bit1 /\ ~Valid(ins)
  BY <1>1, <1>4, Singles, Parameters DEF StateFacts, Valid
<1> QED
  BY <1>2, <1>3, <1>4, Types

LEMMA REdge == ASSUME IInv, RStep PROVE IInv' /\ StepFacts
<1>1. IInv'
  BY Types, Parameters DEF RStep, Env, IInv, TypeOK, KindInv, RegistersAgree, R!Clock, R!Control,
     R!DataUpdate, R!fullReg_next, R!dataReg_next, R!outputValid, R!Valid, Valid
<1>2. kind' = kind /\ kind = "ONE_SLOT_BREAK_R" /\ initial = <<>>
  BY DEF RStep, Env, IInv, KindInv
<1>3. /\ ins_ready = ~bit1 /\ outs = (IF bit1 THEN word ELSE ins)
      /\ Contents = (IF bit1 THEN <<word>> ELSE <<>>)
  BY <1>2, WiringLemma DEF Wiring, R!outs, R!ins_ready, R!Contents
<1>4. /\ outs' = (IF bit1' THEN word' ELSE ins')
      /\ Contents' = (IF bit1' THEN <<word'>> ELSE <<>>)
  BY <1>2, WiringNext DEF Wiring, R!outs, R!Contents
<1>5. /\ bit1' = (~rst /\ (Valid(ins) \/ bit1) /\ ~outs_ready)
      /\ word' = CASE rst -> Zero [] ~rst /\ ~bit1 /\ Valid(ins) /\ ~outs_ready -> ins
                   [] OTHER -> word
  BY DEF RStep, R!Clock, R!Control, R!DataUpdate, R!fullReg_next, R!dataReg_next,
     R!outputValid, R!ins_ready, R!Valid, Valid
<1>6. StepFacts
  BY <1>2, <1>3, <1>4, <1>5, Types, Singles, Parameters DEF StepFacts, Transfer, Valid, Holds
<1> QED
  BY <1>1, <1>6

LEMMA DvrState == ASSUME IInv, kind = "ONE_SLOT_BREAK_DVR" PROVE StateFacts
<1>1. /\ ins_ready = bit2 /\ outs = (IF bit1 THEN word ELSE NoToken)
      /\ Contents = (IF bit1 THEN <<word>> ELSE <<>>) /\ Capacity = 1
  BY WiringLemma DEF Wiring, Dvr!outs, Dvr!ins_ready, Dvr!Contents
<1> QED
  BY <1>1, Types, Singles, Parameters DEF StateFacts, Transfer, Valid

\* The registered ready is up exactly while the slot is empty, so that the one
\* slot is never written while it is taken.
LEMMA DvrEdge == ASSUME IInv, DvrStep PROVE IInv' /\ StepFacts
<1>2. kind' = kind /\ kind = "ONE_SLOT_BREAK_DVR" /\ initial = <<>> /\ bit2 = ~bit1
  BY DEF DvrStep, Env, IInv, KindInv, RegistersAgree
<1>3. /\ ins_ready = bit2 /\ outs = (IF bit1 THEN word ELSE NoToken)
      /\ Contents = (IF bit1 THEN <<word>> ELSE <<>>)
  BY <1>2, WiringLemma DEF Wiring, Dvr!outs, Dvr!ins_ready, Dvr!Contents
<1>4. /\ outs' = (IF bit1' THEN word' ELSE NoToken)
      /\ Contents' = (IF bit1' THEN <<word'>> ELSE <<>>)
  BY <1>2, WiringNext DEF Wiring, Dvr!outs, Dvr!Contents
<1>5. /\ bit1' = (~rst /\ ((Valid(ins) /\ bit2) \/ (bit1 /\ ~outs_ready)))
      /\ bit2' = (rst \/ (~(bit1 /\ ~outs_ready) /\ ~(Valid(ins) /\ bit2)))
      /\ word' = CASE rst -> Zero [] ~rst /\ Valid(ins) /\ bit2 -> ins [] OTHER -> word
  BY DEF DvrStep, Dvr!Clock, Dvr!Control, Dvr!DataUpdate, Dvr!enable, Dvr!stop, Dvr!Valid, Valid
<1>1. IInv'
  <2>1. bit2' = ~bit1' /\ word' \in Data /\ bit1' \in BOOLEAN
    BY <1>2, <1>5, Types, Parameters
  <2> QED
    BY <1>2, <2>1, Types, Parameters DEF DvrStep, Env, IInv, TypeOK, KindInv, RegistersAgree
<1>6. StepFacts
  BY <1>2, <1>3, <1>4, <1>5, Types, Singles, Parameters DEF StepFacts, Transfer, Valid, Holds
<1> QED
  BY <1>1, <1>6

LEMMA CntState == ASSUME IInv, kind = "COUNTER_BUFFER" PROVE StateFacts
<1>1. /\ ins_ready = (~bit1 \/ (bit1 /\ count = 0 /\ outs_ready))
      /\ outs = (IF bit1 /\ count = 0 THEN word ELSE NoToken)
      /\ Contents = (IF bit1 THEN <<word>> ELSE <<>>) /\ Capacity = 1
  BY WiringLemma DEF Wiring, Cnt!outs, Cnt!ins_ready, Cnt!done, Cnt!Contents
<1> QED
  BY <1>1, Types, Singles, Parameters DEF StateFacts, Transfer, Valid

LEMMA CntEdge == ASSUME IInv, CntStep PROVE IInv' /\ StepFacts
<1>2. kind' = kind /\ kind = "COUNTER_BUFFER" /\ initial = <<>> /\ count < DV_LATENCY
  BY DEF CntStep, Env, IInv, KindInv
<1>3. /\ ins_ready = (~bit1 \/ (bit1 /\ count = 0 /\ outs_ready))
      /\ outs = (IF bit1 /\ count = 0 THEN word ELSE NoToken)
      /\ Contents = (IF bit1 THEN <<word>> ELSE <<>>)
  BY <1>2, WiringLemma DEF Wiring, Cnt!outs, Cnt!ins_ready, Cnt!done, Cnt!Contents
<1>4. /\ outs' = (IF bit1' /\ count' = 0 THEN word' ELSE NoToken)
      /\ Contents' = (IF bit1' THEN <<word'>> ELSE <<>>)
  BY <1>2, WiringNext DEF Wiring, Cnt!outs, Cnt!done, Cnt!Contents
<1> DEFINE load == Valid(ins) /\ (~bit1 \/ (bit1 /\ count = 0 /\ outs_ready))
<1>5. /\ bit1' = CASE rst -> FALSE
                   [] ~rst /\ ~bit1 -> Valid(ins)
                   [] ~rst /\ bit1 /\ count = 0 /\ outs_ready -> Valid(ins)
                   [] OTHER -> bit1
      /\ count' = CASE rst -> 0
                    [] ~rst /\ load -> DV_LATENCY - 1
                    [] ~rst /\ bit1 /\ count > 0 -> count - 1
                    [] OTHER -> count
      /\ word' = CASE rst -> Zero [] ~rst /\ load -> ins [] OTHER -> word
  BY DEF CntStep, Cnt!Clock, Cnt!Control, Cnt!DataUpdate, Cnt!Load, Cnt!done, Cnt!ins_ready,
     Cnt!Valid, Valid
<1>1. IInv'
  <2>1. bit1' \in BOOLEAN /\ word' \in Data /\ count' \in 0 .. DV_LATENCY - 1
    <3>1. bit1' \in BOOLEAN /\ word' \in Data
      BY <1>5, Types, Parameters DEF Valid
    <3>2. count' \in 0 .. DV_LATENCY - 1
      <4> HIDE DEF load
      <4> QED
        BY <1>2, <1>5, Types, Parameters
    <3> QED
      BY <3>1, <3>2
  <2>2. count' \in 0 .. (NUM_SLOTS + DV_LATENCY) /\ count' < DV_LATENCY
    BY <2>1, Parameters
  <2> QED
    BY <1>2, <2>1, <2>2, Types DEF CntStep, Env, IInv, TypeOK, KindInv, RegistersAgree
<1>6. StepFacts
  <2>1. CASE rst
    BY <1>2, <1>4, <1>5, <2>1 DEF StepFacts
  <2>2. CASE ~rst /\ ~bit1
    <3>1. /\ ins_ready /\ outs = NoToken /\ Contents = <<>>
          /\ bit1' = Valid(ins) /\ (Valid(ins) => word' = ins)
      BY <1>3, <1>5, <2>2
    <3> QED
      BY <1>4, <2>2, <3>1, Types, Singles DEF StepFacts, Transfer, Valid, Holds
  <2>3. CASE ~rst /\ bit1 /\ count = 0 /\ outs_ready
    <3>1. /\ ins_ready /\ outs = word /\ Contents = <<word>>
          /\ bit1' = Valid(ins) /\ (Valid(ins) => word' = ins)
      BY <1>3, <1>5, <2>3
    <3> QED
      BY <1>4, <2>3, <3>1, Types, Singles, Parameters DEF StepFacts, Transfer, Valid, Holds
  <2>4. CASE ~rst /\ bit1 /\ ~(count = 0 /\ outs_ready)
    <3>1. /\ ~ins_ready /\ Contents = <<word>> /\ bit1' /\ word' = word
          /\ count = 0 => count' = 0
      BY <1>3, <1>5, <2>4, Types
    <3> QED
      BY <1>3, <1>4, <2>4, <3>1, Types, Singles DEF StepFacts, Transfer, Valid, Holds
  <2> QED
    BY <2>1, <2>2, <2>3, <2>4, Types
<1> QED
  BY <1>1, <1>6

\* fifo_break_none around one slot: the slot takes what passes neither now nor
\* before older tokens.
LEMMA None1State == ASSUME IInv, kind = "FIFO_BREAK_NONE_1" PROVE StateFacts
<1>1. /\ ins_ready = ((~bit1 \/ outs_ready) \/ outs_ready)
      /\ outs = (IF bit1 THEN word ELSE ins)
      /\ Contents = (IF bit1 THEN <<word>> ELSE <<>>) /\ Capacity = 1
  BY WiringLemma, Types, Parameters DEF Wiring, Bypass1!outs, Bypass1!ins_ready, Bypass1!Valid,
     Dv!outs, Dv!ins_ready, Dv!Contents
<1>2. CASE bit1
  BY <1>1, <1>2, Types, Singles, Parameters DEF StateFacts, Transfer, Valid
<1>3. CASE ~bit1 /\ Valid(ins)
  <2>1. Contents = <<>> /\ outs = ins /\ ins \in Data /\ Transfer(ins, ins_ready) = <<ins>>
    BY <1>1, <1>3, Types DEF Transfer
  <2> QED
    BY <1>1, <2>1, Singles, Parameters DEF StateFacts
<1>4. CASE ~bit1 /\ ~Valid(ins)
  BY <1>1, <1>4, Singles, Parameters DEF StateFacts, Valid
<1> QED
  BY <1>2, <1>3, <1>4, Types

LEMMA None1Edge == ASSUME IInv, None1Step PROVE IInv' /\ StepFacts
<1>2. kind' = kind /\ kind = "FIFO_BREAK_NONE_1" /\ initial = <<>>
  BY DEF None1Step, Env, IInv, KindInv
<1>3. /\ ins_ready = ((~bit1 \/ outs_ready) \/ outs_ready)
      /\ outs = (IF bit1 THEN word ELSE ins)
      /\ Contents = (IF bit1 THEN <<word>> ELSE <<>>)
  BY <1>2, WiringLemma, Types, Parameters DEF Wiring, Bypass1!outs, Bypass1!ins_ready,
     Bypass1!Valid, Dv!outs, Dv!ins_ready, Dv!Contents
<1> DEFINE enters == Valid(ins) /\ (~outs_ready \/ bit1)
<1>5. /\ bit1' = (~rst /\ (enters \/ (bit1 /\ ~outs_ready)))
      /\ word' = CASE rst -> Zero [] ~rst /\ enters /\ (~bit1 \/ outs_ready) -> ins
                   [] OTHER -> word
  BY Types, Parameters DEF None1Step, Inner1!Clock, Inner1!Control, Inner1!DataUpdate,
     Inner1!ins_ready, Inner1!Valid, Bypass1!fifo_in, Bypass1!Valid, Dv!outs, Valid
<1>1. IInv'
  <2>1. bit1' \in BOOLEAN /\ word' \in Data
    BY <1>5, Types, Parameters
  <2> QED
    BY <1>2, <2>1, Types DEF None1Step, Env, IInv, TypeOK, KindInv, RegistersAgree
<1>4. /\ outs' = (IF bit1' THEN word' ELSE ins')
      /\ Contents' = (IF bit1' THEN <<word'>> ELSE <<>>)
  <2>1. word' # NoToken
    BY <1>1, Parameters DEF IInv, TypeOK
  <2> QED
    BY <1>2, <2>1, WiringNext DEF Wiring, Bypass1!outs, Bypass1!Valid, Dv!outs, Dv!Contents
<1>6. StepFacts
  BY <1>2, <1>3, <1>4, <1>5, Types, Singles, Parameters DEF StepFacts, Transfer, Valid, Holds
<1> QED
  BY <1>1, <1>6

\* The circular FIFO and the bypass around it share the ring.
LEMMA RingContents ==
  ASSUME IInv, kind \in {"FIFO_BREAK_DV", "FIFO_BREAK_NONE"}
  PROVE  /\ RingInv
         /\ Fifo!Contents \in Seq(Data) /\ Len(Fifo!Contents) <= NUM_SLOTS
         /\ ~bit2 => /\ Fifo!Contents # <<>> /\ Head(Fifo!Contents) = Memory[head]
                     /\ Memory[head] \in Data
         /\ bit2 => Fifo!Contents = <<>> /\ ~bit1
<1>1. RingInv
  BY DEF IInv, TypeOK, KindInv, RegistersAgree, RingInv, RingType
<1> DEFINE n == Fifo!Count
<1>2. /\ n \in 0 .. NUM_SLOTS /\ (bit2 <=> n = 0) /\ (bit1 <=> n = NUM_SLOTS)
      /\ Fifo!Contents = Read(Memory, head, n)
  BY <1>1, RingState DEF RingFacts
<1>3. head \in Slots /\ Memory \in [Slots -> Data]
  BY Types
<1> HIDE DEF n
<1>4. /\ Read(Memory, head, n) \in Seq(Data) /\ Len(Read(Memory, head, n)) = n
      /\ n # 0 => Read(Memory, head, n) # <<>> /\ Head(Read(Memory, head, n)) = Memory[head]
      /\ n = 0 => Read(Memory, head, n) = <<>>
  BY <1>2, <1>3, ReadType
<1> QED
  BY <1>1, <1>2, <1>3, <1>4, Parameters

\* A token that arrives behind others does not change the oldest one.
LEMMA HeadStays ==
  ASSUME NEW q \in Seq(Data), q # <<>>, NEW s \in Seq(Data)
  PROVE  q \o s # <<>> /\ Head(q \o s) = Head(q)
<1> DEFINE c == q \o s
<1>1. /\ Len(q) \in Nat /\ Len(q) >= 1 /\ Head(q) = q[1]
  BY EmptySeq, LenProperties
<1>2. c \in Seq(Data) /\ Len(c) = Len(q) + Len(s) /\ Len(s) \in Nat /\ c[1] = q[1]
  BY <1>1, ConcatProperties, LenProperties
<1> HIDE DEF c
<1>3. c # <<>> /\ Head(c) = c[1]
  BY <1>1, <1>2, EmptySeq
<1> QED
  BY <1>1, <1>2, <1>3 DEF c

\* Taking the oldest token leaves the others and the new arrivals.
LEMMA ConsTail ==
  ASSUME NEW x \in Data, NEW q \in Seq(Data), NEW s \in Seq(Data)
  PROVE  Tail((<<x>> \o q) \o s) = q \o s
<1> DEFINE c == q \o s
           d == <<x>> \o c
<1>1. c \in Seq(Data) /\ <<x>> \in Seq(Data)
  OBVIOUS
<1>2. (<<x>> \o q) \o s = d
  BY <1>1, ConcatAssociative
<1> HIDE DEF c
<1>3. /\ d \in Seq(Data) /\ Len(d) = Len(c) + 1 /\ Len(c) \in Nat
      /\ \A k \in 1 .. Len(c) : d[k + 1] = c[k]
  BY <1>1
<1> HIDE DEF d
<1>4. /\ Tail(d) \in Seq(Data) /\ Len(Tail(d)) = Len(c)
      /\ \A k \in 1 .. Len(c) : Tail(d)[k] = d[k + 1]
  BY <1>3
<1>5. Tail(d) = c
  BY <1>1, <1>3, <1>4, SeqEqual
<1> QED
  BY <1>2, <1>5 DEF c

LEMMA TransferType ==
  ASSUME IInv
  PROVE  Transfer(ins, ins_ready) \in Seq(Data)
  BY Types, Singles DEF Transfer

LEMMA FifoState == ASSUME IInv, kind = "FIFO_BREAK_DV" PROVE StateFacts
<1>1. /\ outs = (IF bit2 THEN NoToken ELSE Memory[head])
      /\ Contents = Fifo!Contents /\ Capacity = NUM_SLOTS
  BY WiringLemma DEF Wiring, Fifo!outs
<1>2. Transfer(ins, ins_ready) \in Seq(Data)
  BY TransferType
<1>3. Valid(outs) => ~bit2
  BY <1>1 DEF Valid
<1> QED
  BY <1>1, <1>2, <1>3, RingContents, HeadStays DEF StateFacts

LEMMA FifoEdge == ASSUME IInv, FifoStep PROVE IInv' /\ StepFacts
<1>1. kind' = kind /\ kind = "FIFO_BREAK_DV" /\ initial = <<>>
  BY DEF FifoStep, Env, IInv, KindInv
<1>2. Ring(ins)!Clock
  BY DEF FifoStep, Fifo!Clock, Fifo!FifoWrite, Fifo!TailUpdate, Fifo!HeadUpdate,
     Fifo!FullUpdate, Fifo!EmptyUpdate, Fifo!WriteEn, Fifo!ReadEn, Fifo!Successor,
     Fifo!Slots, Fifo!Valid, Ring!Clock, Ring!FifoWrite, Ring!TailUpdate, Ring!HeadUpdate,
     Ring!FullUpdate, Ring!EmptyUpdate, Ring!WriteEn, Ring!ReadEn, Ring!Successor,
     Ring!Slots, Ring!Valid
<1>3. /\ RingInv'
      /\ rst => bit2' /\ Fifo!Contents' = <<>>
      /\ ~rst => Fifo!Contents' =
           LET c == Fifo!Contents \o Transfer(ins, ~bit1 \/ outs_ready)
           IN  IF outs_ready /\ ~bit2 THEN Tail(c) ELSE c
      /\ ~rst /\ ~bit2 /\ ~outs_ready => ~bit2' /\ Memory'[head'] = Memory[head]
  BY <1>1, <1>2, RingEdge, RingContents, Types
<1>4. IInv'
  BY <1>1, <1>3, Types DEF IInv, TypeOK, KindInv, RegistersAgree, RingInv, RingType, FifoStep, Env
<1>5. /\ ins_ready = (~bit1 \/ outs_ready) /\ outs = (IF bit2 THEN NoToken ELSE Memory[head])
      /\ Contents = Fifo!Contents /\ Contents' = Fifo!Contents'
      /\ outs' = (IF bit2' THEN NoToken ELSE Memory'[head'])
  BY <1>1, WiringLemma, WiringNext DEF Wiring, Fifo!outs, Fifo!ins_ready
<1>6. Valid(outs) <=> ~bit2
  BY <1>1, <1>5, RingContents, Parameters DEF Valid
<1>7. StepFacts
  BY <1>1, <1>3, <1>5, <1>6 DEF StepFacts, Holds
<1> QED
  BY <1>4, <1>7

LEMMA NoneState == ASSUME IInv, kind = "FIFO_BREAK_NONE" PROVE StateFacts
<1>1. /\ ins_ready = ((~bit1 \/ outs_ready) \/ outs_ready)
      /\ outs = (IF bit2 THEN ins ELSE Memory[head])
      /\ Contents = Fifo!Contents /\ Capacity = NUM_SLOTS
  BY WiringLemma, RingContents, Parameters DEF Wiring, Bypass!outs, Bypass!ins_ready,
     Bypass!Valid, Fifo!outs, Fifo!ins_ready
<1>2. Transfer(ins, ins_ready) \in Seq(Data)
  BY TransferType
<1>3. CASE ~bit2
  BY <1>1, <1>2, <1>3, RingContents, HeadStays DEF StateFacts
<1>4. CASE bit2 /\ Valid(ins)
  <2>1. Contents = <<>> /\ outs = ins /\ ins \in Data /\ Transfer(ins, ins_ready) = <<ins>>
    BY <1>1, <1>4, RingContents, Types DEF Transfer
  <2> QED
    BY <1>1, <2>1, Singles, RingContents DEF StateFacts
<1>5. CASE bit2 /\ ~Valid(ins)
  BY <1>1, <1>5, RingContents DEF StateFacts
<1> QED
  BY <1>3, <1>4, <1>5, Types

LEMMA NoneEdge == ASSUME IInv, NoneStep PROVE IInv' /\ StepFacts
<1>1. kind' = kind /\ kind = "FIFO_BREAK_NONE" /\ initial = <<>>
  BY DEF NoneStep, Env, IInv, KindInv
<1> DEFINE i == Bypass!fifo_in
<1>a. i = IF Valid(ins) /\ (~outs_ready \/ ~bit2) THEN ins ELSE NoToken
  BY <1>1, RingContents, Parameters DEF Bypass!fifo_in, Bypass!Valid, Fifo!outs, Valid
<1>2. Ring(i)!Clock
  BY DEF NoneStep, Inner!Clock, Inner!FifoWrite, Inner!TailUpdate, Inner!HeadUpdate,
     Inner!FullUpdate, Inner!EmptyUpdate, Inner!WriteEn, Inner!ReadEn, Inner!Successor,
     Inner!Slots, Inner!Valid, Ring!Clock, Ring!FifoWrite, Ring!TailUpdate, Ring!HeadUpdate,
     Ring!FullUpdate, Ring!EmptyUpdate, Ring!WriteEn, Ring!ReadEn, Ring!Successor,
     Ring!Slots, Ring!Valid
<1> HIDE DEF i
<1>b. i \in Wire
  BY <1>a, Types DEF Wire
<1>3. /\ RingInv'
      /\ rst => bit2' /\ Fifo!Contents' = <<>>
      /\ ~rst => Fifo!Contents' =
           LET c == Fifo!Contents \o Transfer(i, ~bit1 \/ outs_ready)
           IN  IF outs_ready /\ ~bit2 THEN Tail(c) ELSE c
      /\ ~rst /\ ~bit2 /\ ~outs_ready => ~bit2' /\ Memory'[head'] = Memory[head]
  BY <1>1, <1>2, <1>b, RingEdge, RingContents, Types
<1>4. IInv'
  BY <1>1, <1>3, Types DEF IInv, TypeOK, KindInv, RegistersAgree, RingInv, RingType, NoneStep, Env
<1>5. /\ ins_ready = ((~bit1 \/ outs_ready) \/ outs_ready)
      /\ outs = (IF bit2 THEN ins ELSE Memory[head])
      /\ Contents = Fifo!Contents /\ Contents' = Fifo!Contents'
  BY <1>1, WiringLemma, WiringNext, RingContents, Parameters DEF Wiring, Bypass!outs,
     Bypass!ins_ready, Bypass!Valid, Fifo!outs, Fifo!ins_ready
<1>6. ~bit2' => outs' = Memory'[head']
  <2>1. Memory'[head'] # NoToken
    BY <1>4, Parameters DEF IInv, TypeOK
  <2> QED
    BY <1>1, <2>1, WiringNext DEF Wiring, Bypass!outs, Bypass!Valid, Fifo!outs
<1>7. CASE rst
  BY <1>1, <1>3, <1>4, <1>5, <1>7 DEF StepFacts
<1>8. CASE ~rst /\ ~bit2
  <2>1. Valid(outs) /\ Transfer(i, ~bit1 \/ outs_ready) = Transfer(ins, ins_ready)
    BY <1>1, <1>5, <1>8, <1>a, RingContents, Parameters DEF Transfer, Valid
  <2> QED
    BY <1>3, <1>4, <1>5, <1>6, <1>8, <2>1 DEF StepFacts, Holds
<1>9. CASE ~rst /\ bit2 /\ Valid(ins) /\ outs_ready
  <2>1. /\ Contents = <<>> /\ outs = ins /\ ins \in Data /\ Valid(outs)
        /\ Transfer(ins, ins_ready) = <<ins>> /\ Transfer(i, ~bit1 \/ outs_ready) = <<>>
        /\ Contents' = Contents \o Transfer(i, ~bit1 \/ outs_ready)
    BY <1>1, <1>3, <1>5, <1>9, <1>a, RingContents, Types DEF Transfer, Valid
  <2>2. Contents' = <<>> /\ Tail(Contents \o Transfer(ins, ins_ready)) = <<>>
    BY <2>1, Singles
  <2> QED
    BY <1>4, <1>9, <2>1, <2>2 DEF StepFacts, Holds
<1>10. CASE ~rst /\ bit2 /\ ~(Valid(ins) /\ outs_ready)
  <2>1. /\ ~(Valid(outs) /\ outs_ready)
        /\ Transfer(i, ~bit1 \/ outs_ready) = Transfer(ins, ins_ready)
        /\ Contents' = Contents \o Transfer(i, ~bit1 \/ outs_ready)
    BY <1>1, <1>3, <1>5, <1>10, <1>a, RingContents, Types DEF Transfer, Valid
  <2>2. ASSUME Holds(outs, outs_ready) PROVE outs' = outs
    <3>1. /\ Contents = <<>> /\ outs = ins /\ ins \in Data /\ ~outs_ready
          /\ Transfer(ins, ins_ready) = <<ins>>
      BY <1>1, <1>5, <1>10, <2>2, RingContents, Types DEF Holds, Transfer
    <3>2. Contents' = <<ins>>
      BY <2>1, <3>1, Singles
    <3>3. /\ ~bit2' => Head(Fifo!Contents') = Memory'[head']
          /\ bit2' => Fifo!Contents' = <<>>
      <4>1. Fifo!Contents' = Read(Memory', head', Fifo!Count')
            /\ Fifo!Count' \in 0 .. NUM_SLOTS /\ (bit2' <=> Fifo!Count' = 0)
        BY <1>3, RingStateNext DEF RingFacts
      <4>2. Memory' \in [Slots -> Data] /\ head' \in Slots
        BY <1>3 DEF RingInv, RingType
      <4> QED
        BY <4>1, <4>2, ReadType
    <3>4. <<ins>> # <<>> /\ Head(<<ins>>) = ins
      BY <3>1, Singles
    <3>5. ~bit2'
      BY <1>5, <3>2, <3>3, <3>4
    <3> QED
      BY <1>5, <1>6, <3>1, <3>2, <3>3, <3>4, <3>5
  <2> QED
    BY <1>4, <1>10, <2>1, <2>2 DEF StepFacts
<1> QED
  BY <1>7, <1>8, <1>9, <1>10, Types

\* The queue's tail register stays Count slots ahead of its head.
LEMMA TailStep ==
  ASSUME NEW h \in Slots, NEW n \in 0 .. NUM_SLOTS, NEW w \in 0 .. 1, NEW r \in 0 .. 1,
         r = 1 => n # 0, w = 1 => n # NUM_SLOTS
  PROVE  Skip((h + n) % NUM_SLOTS, w) = (Skip(h, r) + (n + w - r)) % NUM_SLOTS
<1> USE Parameters
<1> DEFINE t == (h + n) % NUM_SLOTS
           g == Skip(h, r)
           m == n + w - r
<1>1. h \in Nat /\ h < NUM_SLOTS /\ n \in Nat /\ n <= NUM_SLOTS
  BY DEF Slots
<1>2. IsSlot(t, h + n)
  BY AheadLemma, Zenon DEF Turn
<1> HIDE DEF t
<1>3. Skip(t, w) = IF w = 1 THEN (IF t = NUM_SLOTS - 1 THEN 0 ELSE t + 1) ELSE t
  BY <1>2, SuccessorLemma DEF Skip, IsSlot
<1>4. g \in Slots /\ g = IF r = 1 THEN (IF h = NUM_SLOTS - 1 THEN 0 ELSE h + 1) ELSE h
  BY SuccessorLemma DEF Skip
<1> HIDE DEF g
<1>5. m \in 0 .. NUM_SLOTS /\ g \in Nat /\ g < NUM_SLOTS
  BY <1>1, <1>4 DEF Slots
<1> DEFINE u == (g + m) % NUM_SLOTS
<1>6. IsSlot(u, g + m)
  BY <1>4, <1>5, AheadLemma, Zenon DEF Turn
<1> HIDE DEF u
<1>7. Skip(t, w) = u
  BY <1>1, <1>2, <1>3, <1>4, <1>5, <1>6 DEF Slots, IsSlot
<1> QED
  BY <1>7 DEF t, g, u

\* A reset puts the initial tokens into the first slots.
LEMMA PreloadLemma ==
  ASSUME IInv, NEW mem \in [Slots -> Data]
  PROVE  /\ Que!Preload(mem) \in [Slots -> Data]
         /\ Read(Que!Preload(mem), 0, Len(initial)) = initial
<1> USE Parameters
<1> DEFINE p == Que!Preload(mem)
           n == Len(initial)
           s == Read(p, 0, n)
<1>1. /\ initial \in Seq(Data) /\ n \in 0 .. NUM_SLOTS /\ n \in Nat
      /\ \A k \in 1 .. n : initial[k] \in Data
  BY Types, ElementOfSeq
<1>2. p = [j \in Slots |-> IF j < n THEN initial[j + 1] ELSE mem[j]]
  BY DEF Que!Preload, Que!Slots, Slots
<1>3. ASSUME NEW j \in Slots, j < n PROVE initial[j + 1] \in Data
  <2>1. j + 1 \in 1 .. n
    BY <1>1, <1>3 DEF Slots
  <2> QED
    BY <1>1, <2>1
<1> HIDE DEF p, n
<1>4. p \in [Slots -> Data]
  BY <1>2, <1>3
<1>5. /\ s \in Seq(Data) /\ Len(s) = n
      /\ \A k \in 1 .. n : s[k] = p[(0 + k - 1) % NUM_SLOTS]
  <2>1. 0 \in Slots
    BY DEF Slots
  <2> QED
    BY <1>1, <1>4, <2>1, ReadType
<1>6. ASSUME NEW k \in 1 .. n PROVE s[k] = initial[k]
  <2>1. /\ (0 + k - 1) % NUM_SLOTS = k - 1 /\ k - 1 \in Slots /\ k - 1 < n /\ (k - 1) + 1 = k
    <3>1. 0 + k - 1 = k - 1 /\ k - 1 \in 0 .. 2 * NUM_SLOTS - 1 /\ k - 1 < NUM_SLOTS
          /\ k - 1 < n /\ (k - 1) + 1 = k /\ k - 1 \in Slots
      BY <1>1 DEF Slots
    <3> QED
      BY <3>1, SlotLemma
  <2>2. p[k - 1] = initial[(k - 1) + 1]
    BY <1>2, <2>1
  <2> QED
    BY <1>5, <2>1, <2>2
<1>7. s = initial
  <2> HIDE DEF s
  <2> QED
    BY <1>1, <1>5, <1>6, SeqEqual DEF n
<1> QED
  BY <1>4, <1>7 DEF p, n

LEMMA QueueContents ==
  ASSUME IInv, kind = "QUEUE"
  PROVE  /\ count \in 0 .. NUM_SLOTS /\ tail = (head + count) % NUM_SLOTS
         /\ ins_ready = (count # NUM_SLOTS)
         /\ outs = (IF count = 0 THEN NoToken ELSE Memory[head])
         /\ Contents = Read(Memory, head, count) /\ Capacity = NUM_SLOTS
         /\ Contents \in Seq(Data) /\ Len(Contents) = count
         /\ count # 0 => Contents # <<>> /\ Head(Contents) = Memory[head] /\ Memory[head] \in Data
         /\ count = 0 => Contents = <<>>
<1>1. count \in 0 .. NUM_SLOTS /\ tail = (head + count) % NUM_SLOTS
  BY Types, Parameters DEF IInv, KindInv, RegistersAgree
<1>2. /\ ins_ready = (count # NUM_SLOTS) /\ outs = (IF count = 0 THEN NoToken ELSE Memory[head])
      /\ Contents = Read(Memory, head, count) /\ Capacity = NUM_SLOTS
  BY WiringLemma DEF Wiring, Que!ins_ready, Que!outs, Que!Contents, Que!Full, Que!Empty, Read
<1>3. head \in Slots /\ Memory \in [Slots -> Data]
  BY Types
<1>4. /\ Read(Memory, head, count) \in Seq(Data) /\ Len(Read(Memory, head, count)) = count
      /\ count # 0 => /\ Read(Memory, head, count) # <<>>
                      /\ Head(Read(Memory, head, count)) = Memory[head]
      /\ count = 0 => Read(Memory, head, count) = <<>>
  BY <1>1, <1>3, ReadType
<1> QED
  BY <1>1, <1>2, <1>3, <1>4

LEMMA QueueState == ASSUME IInv, kind = "QUEUE" PROVE StateFacts
<1>1. Transfer(ins, ins_ready) \in Seq(Data)
  BY TransferType
<1>2. Valid(outs) => count # 0
  BY QueueContents DEF Valid
<1>3. Len(Contents) <= Capacity
  BY QueueContents, Parameters
<1> QED
  BY <1>1, <1>2, <1>3, QueueContents, HeadStays DEF StateFacts

\* The published count is exact: it moves with reads and writes, stays at its
\* limits, and a full queue refuses even while it is read.
LEMMA QueueEdge == ASSUME IInv, QueueStep PROVE IInv' /\ StepFacts
<1> USE Parameters
<1>1. kind' = kind /\ kind = "QUEUE" /\ initial' = initial /\ Que!Clock
  BY DEF QueueStep, Env
<1>2. Contents' = Read(Memory', head', count')
      /\ outs' = IF count' = 0 THEN NoToken ELSE Memory'[head']
  BY <1>1, WiringNext DEF Wiring, Que!Contents, Que!outs, Que!Empty, Read
<1> DEFINE w == Bit(Valid(ins) /\ count # NUM_SLOTS)
           r == Bit(outs_ready /\ count # 0)
<1>3. /\ w \in 0 .. 1 /\ r \in 0 .. 1
      /\ (w = 1 => ins \in Data) /\ (r = 1 => count # 0) /\ (w = 1 => count # NUM_SLOTS)
      /\ w = 1 <=> Valid(ins) /\ count # NUM_SLOTS
      /\ r = 1 <=> outs_ready /\ count # 0
  BY Types DEF Bit
<1>4. ASSUME rst
      PROVE  /\ count' \in 0 .. NUM_SLOTS /\ head' \in Slots /\ tail' = (head' + count') % NUM_SLOTS
             /\ Memory' \in [Slots -> Data] /\ Contents' = initial
  <2>1. count' = Len(initial) /\ head' = 0 /\ tail' = Len(initial) % NUM_SLOTS
    BY <1>1, <1>4 DEF Que!Clock
  <2>2. Len(initial) \in 0 .. NUM_SLOTS /\ 0 \in Slots /\ 0 + Len(initial) = Len(initial)
    BY Types DEF Slots
  <2>3. Memory \in [Slots -> Data] /\ tail \in Slots
    BY Types
  <2>4. CASE initial # <<>>
    <3>1. Memory' = Que!Preload(Memory)
      BY <1>1, <1>4, <2>4 DEF Que!Clock
    <3>2. /\ Que!Preload(Memory) \in [Slots -> Data]
          /\ Read(Que!Preload(Memory), 0, Len(initial)) = initial
      BY <2>3, PreloadLemma
    <3> QED
      BY <1>2, <2>1, <2>2, <3>1, <3>2
  <2>5. CASE initial = <<>>
    <3>1. Memory' = IF Valid(ins) /\ count # NUM_SLOTS THEN [Memory EXCEPT ![tail] = ins] ELSE Memory
      BY <1>1, <2>5 DEF Que!Clock, Que!WriteEn, Que!Full, Que!Valid, Valid
    <3>2. Memory' \in [Slots -> Data]
      BY <2>3, <3>1, Types
    <3>3. Read(Memory', head', 0) = <<>> /\ Len(<<>>) = 0
      BY DEF Read
    <3> QED
      BY <1>2, <2>1, <2>2, <2>5, <3>2, <3>3
  <2> QED
    BY <2>4, <2>5
<1>5. ASSUME ~rst
      PROVE  /\ count' \in 0 .. NUM_SLOTS /\ head' \in Slots /\ tail' = (head' + count') % NUM_SLOTS
             /\ Memory' \in [Slots -> Data] /\ Contents' = Edge(Contents, w, ins, r)
             /\ count' = count + w - r /\ head' = Skip(head, r)
             /\ Memory' = Put(Memory, head, count, w, ins)
  <2>1. count \in 0 .. NUM_SLOTS /\ tail = (head + count) % NUM_SLOTS /\ count \in Nat
    BY <1>1, QueueContents
  <2>2. /\ count' = CASE w = 1 /\ r # 1 -> count + 1
                      [] r = 1 /\ w # 1 -> count - 1
                      [] OTHER -> count
        /\ tail' = IF w = 1 THEN Wrap(tail) ELSE tail
        /\ head' = IF r = 1 THEN Wrap(head) ELSE head
        /\ Memory' = IF w = 1 THEN [Memory EXCEPT ![tail] = ins] ELSE Memory
    <3> HIDE DEF w, r
    <3> QED
      BY <1>1, <1>3, <1>5 DEF Que!Clock, Que!WriteEn, Que!ReadEn, Que!Full, Que!Empty, Que!Valid,
         Valid, Wrap
  <2> HIDE DEF w, r
  <2>3. count' = count + w - r
    BY <1>3, <2>1, <2>2
  <2>4. /\ Memory' = Put(Memory, head, count, w, ins) /\ head' = Skip(head, r)
        /\ tail' = Skip((head + count) % NUM_SLOTS, w)
    BY <2>1, <2>2 DEF Put, Skip
  <2>5. Moves(Memory, head, count, w, ins, r)
    BY <1>3, <2>1, Types, ReadStep
  <2>6. Skip((head + count) % NUM_SLOTS, w) = (Skip(head, r) + (count + w - r)) % NUM_SLOTS
    <3>1. head \in Slots
      BY Types
    <3> QED
      BY <1>3, <2>1, <3>1, TailStep, Zenon
  <2>7. Contents = Read(Memory, head, count)
    BY <1>1, QueueContents
  <2> QED
    BY <1>2, <2>3, <2>4, <2>5, <2>6, <2>7, Zenon DEF Moves
<1> HIDE DEF w, r
<1>6. IInv'
  <2>1. /\ count' \in 0 .. NUM_SLOTS /\ head' \in Slots /\ tail' = (head' + count') % NUM_SLOTS
        /\ Memory' \in [Slots -> Data]
    BY <1>4, <1>5, Types
  <2>3. tail' \in Slots
    <3>1. Turn(head' + count')
      BY <2>1, AheadLemma
    <3> QED
      BY <2>1, <3>1, Zenon DEF Turn, IsSlot
  <2>4. count' \in 0 .. (NUM_SLOTS + DV_LATENCY) /\ count' <= NUM_SLOTS
    BY <2>1
  <2> QED
    BY <1>1, <2>1, <2>3, <2>4, Types DEF QueueStep, Env, IInv, TypeOK, KindInv, RegistersAgree
<1>7. StepFacts
  <2>1. CASE rst
    BY <1>4, <2>1 DEF StepFacts
  <2>2. CASE ~rst
    <3>1. Valid(outs) <=> count # 0
      BY <1>1, QueueContents DEF Valid
    <3>2. Transfer(ins, ins_ready) = IF w = 1 THEN <<ins>> ELSE <<>>
      BY <1>1, <1>3, QueueContents DEF Transfer
    <3>3. Contents' = IF r = 1 THEN Tail(Contents \o Transfer(ins, ins_ready))
                               ELSE Contents \o Transfer(ins, ins_ready)
      BY <1>5, <2>2, <3>2 DEF Edge
    <3>4. ASSUME Holds(outs, outs_ready) PROVE outs' = outs
      <4>1. r = 0 /\ count # 0 /\ ~outs_ready /\ count \in 0 .. NUM_SLOTS /\ head \in Slots
        BY <1>1, <1>3, <3>1, <3>4, Types, QueueContents DEF Holds
      <4>2. count' # 0 /\ head' = head
        BY <1>3, <1>5, <2>2, <4>1 DEF Skip
      <4>3. w = 1 => (head + count) % NUM_SLOTS # head
        <5>1. w = 1 => count \in 0 .. NUM_SLOTS - 1 /\ 0 \in 0 .. NUM_SLOTS - 1
          BY <1>3, <4>1
        <5>2. w = 1 => (head + count) % NUM_SLOTS # (head + 0) % NUM_SLOTS
          BY <4>1, <5>1, DistinctSlots, Zenon
        <5>3. (head + 0) % NUM_SLOTS = head
          <6>1. head + 0 = head /\ head \in 0 .. 2 * NUM_SLOTS - 1 /\ head < NUM_SLOTS
            BY <4>1 DEF Slots
          <6> QED
            BY <6>1, SlotLemma
        <5> QED
          BY <5>2, <5>3
      <4>4. Memory'[head] = Memory[head]
        BY <1>5, <2>2, <4>1, <4>3, Types DEF Put
      <4> QED
        BY <1>1, <1>2, <4>1, <4>2, <4>4, QueueContents
    <3> QED
      BY <1>3, <2>2, <3>1, <3>3, <3>4 DEF StepFacts
  <2> QED
    BY <2>1, <2>2, Types
<1> QED
  BY <1>6, <1>7

\* The cells of the shift register, the one at the output first.
Cells(v, mem) ==
  [k \in 1 .. NUM_SLOTS |-> IF v[NUM_SLOTS - k] THEN <<mem[NUM_SLOTS - k]>> ELSE <<>>]

LEMMA CellsType ==
  ASSUME NEW v \in [Slots -> BOOLEAN], NEW mem \in [Slots -> Data]
  PROVE  /\ Cells(v, mem) \in Seq(Seq(Data)) /\ Len(Cells(v, mem)) = NUM_SLOTS
         /\ Cells(v, mem) # <<>>
         /\ \A k \in 1 .. NUM_SLOTS :
              /\ Len(Cells(v, mem)[k]) <= 1
              /\ Cells(v, mem)[k] =
                   IF v[NUM_SLOTS - k] THEN <<mem[NUM_SLOTS - k]>> ELSE <<>>
<1> USE Parameters
<1> DEFINE s == Cells(v, mem)
<1>1. ASSUME NEW k \in 1 .. NUM_SLOTS
      PROVE  /\ s[k] = IF v[NUM_SLOTS - k] THEN <<mem[NUM_SLOTS - k]>> ELSE <<>>
             /\ s[k] \in Seq(Data) /\ Len(s[k]) <= 1
  <2>1. NUM_SLOTS - k \in Slots
    BY DEF Slots
  <2>2. s[k] = IF v[NUM_SLOTS - k] THEN <<mem[NUM_SLOTS - k]>> ELSE <<>>
    BY DEF Cells
  <2>3. mem[NUM_SLOTS - k] \in Data
    BY <2>1
  <2> HIDE DEF s
  <2> QED
    BY <2>2, <2>3, Singles
<1>2. ASSUME NEW k \in 1 .. NUM_SLOTS
      PROVE  (IF v[NUM_SLOTS - k] THEN <<mem[NUM_SLOTS - k]>> ELSE <<>>) \in Seq(Data)
  BY <1>1
<1>3. s \in Seq(Seq(Data)) /\ Len(s) = NUM_SLOTS
  BY <1>2 DEF Cells
<1> HIDE DEF s
<1>4. s # <<>>
  BY <1>3, EmptySeq
<1> QED
  BY <1>1, <1>3, <1>4 DEF s

\* The registers stand for the token at the output followed by the others.
LEMMA CellsSplit ==
  ASSUME NEW v \in [Slots -> BOOLEAN], NEW mem \in [Slots -> Data]
  PROVE  LET s == Cells(v, mem)
         IN  /\ FlattenSeq(s) = s[1] \o FlattenSeq(Tail(s))
             /\ FlattenSeq(Tail(s)) \in Seq(Data) /\ FlattenSeq(s) \in Seq(Data)
             /\ Len(FlattenSeq(s)) <= NUM_SLOTS
             /\ s[1] = IF v[NUM_SLOTS - 1] THEN <<mem[NUM_SLOTS - 1]>> ELSE <<>>
<1> USE Parameters
<1> DEFINE s == Cells(v, mem)
           t == Tail(s)
<1>1. /\ s \in Seq(Seq(Data)) /\ Len(s) = NUM_SLOTS /\ s # <<>>
      /\ \A k \in 1 .. NUM_SLOTS :
           /\ Len(s[k]) <= 1
           /\ s[k] = IF v[NUM_SLOTS - k] THEN <<mem[NUM_SLOTS - k]>> ELSE <<>>
  BY CellsType
<1> HIDE DEF s
<1>2. t \in Seq(Seq(Data)) /\ s[1] \in Seq(Data) /\ s = <<s[1]>> \o t
  BY <1>1
<1>3. FlattenSeq(<<s[1]>> \o t) = s[1] \o FlattenSeq(t)
  BY <1>2, FlattenCons
<1>4. FlattenSeq(t) \in Seq(Data)
  BY <1>2, FlattenType
<1>5. FlattenSeq(s) \in Seq(Data) /\ Len(FlattenSeq(s)) <= NUM_SLOTS
  <2>1. \A k \in 1 .. Len(s) : Len(s[k]) <= 1
    BY <1>1
  <2> QED
    BY <1>1, <2>1, FlattenType
<1>6. 1 \in 1 .. NUM_SLOTS
  OBVIOUS
<1>7. s[1] = IF v[NUM_SLOTS - 1] THEN <<mem[NUM_SLOTS - 1]>> ELSE <<>>
  BY <1>1, <1>6
<1>8. FlattenSeq(s) = s[1] \o FlattenSeq(t)
  BY <1>2, <1>3
<1> QED
  BY <1>4, <1>5, <1>7, <1>8 DEF s

Shifts(v, mem, b, x) ==
  LET v2 == [i \in Slots |-> IF i = 0 THEN b ELSE v[i - 1]]
      mem2 == [i \in Slots |-> IF i = 0 THEN x ELSE mem[i - 1]]
  IN  /\ v2 \in [Slots -> BOOLEAN] /\ mem2 \in [Slots -> Data]
      /\ FlattenSeq(Cells(v2, mem2)) =
           FlattenSeq(Tail(Cells(v, mem))) \o IF b THEN <<x>> ELSE <<>>

\* A shift drops the cell at the output and puts a new one at the input.
LEMMA CellsShift ==
  ASSUME NEW v \in [Slots -> BOOLEAN], NEW mem \in [Slots -> Data],
         NEW b \in BOOLEAN, NEW x \in Data
  PROVE  Shifts(v, mem, b, x)
<1> USE Parameters
<1> DEFINE v2 == [i \in Slots |-> IF i = 0 THEN b ELSE v[i - 1]]
           mem2 == [i \in Slots |-> IF i = 0 THEN x ELSE mem[i - 1]]
           s == Cells(v, mem)
           s2 == Cells(v2, mem2)
           t == Tail(s)
           c == IF b THEN <<x>> ELSE <<>>
<1>1. \A i \in Slots : i # 0 => i - 1 \in Slots
  BY DEF Slots
<1>2. v2 \in [Slots -> BOOLEAN] /\ mem2 \in [Slots -> Data]
  BY <1>1
<1>3. /\ s \in Seq(Seq(Data)) /\ Len(s) = NUM_SLOTS /\ s # <<>>
      /\ \A k \in 1 .. NUM_SLOTS :
           s[k] = IF v[NUM_SLOTS - k] THEN <<mem[NUM_SLOTS - k]>> ELSE <<>>
  BY CellsType
<1>4. \A i \in Slots : v2[i] = (IF i = 0 THEN b ELSE v[i - 1])
                       /\ mem2[i] = (IF i = 0 THEN x ELSE mem[i - 1])
  OBVIOUS
<1> HIDE DEF v2, mem2
<1>5. /\ s2 \in Seq(Seq(Data)) /\ Len(s2) = NUM_SLOTS
      /\ \A k \in 1 .. NUM_SLOTS :
           s2[k] = IF v2[NUM_SLOTS - k] THEN <<mem2[NUM_SLOTS - k]>> ELSE <<>>
  BY <1>2, CellsType
<1> HIDE DEF s, s2
<1>6. /\ t \in Seq(Seq(Data)) /\ Len(t) = NUM_SLOTS - 1
      /\ \A k \in 1 .. NUM_SLOTS - 1 : t[k] = s[k + 1]
  BY <1>3
<1>7. c \in Seq(Data)
  BY Singles
<1> HIDE DEF t, c
<1>8. ASSUME NEW k \in 1 .. NUM_SLOTS - 1 PROVE s2[k] = t[k]
  <2>1. /\ k \in 1 .. NUM_SLOTS /\ k + 1 \in 1 .. NUM_SLOTS /\ NUM_SLOTS - k \in Slots
        /\ NUM_SLOTS - k # 0 /\ (NUM_SLOTS - k) - 1 = NUM_SLOTS - (k + 1)
    BY DEF Slots
  <2>2. v2[NUM_SLOTS - k] = v[NUM_SLOTS - (k + 1)] /\ mem2[NUM_SLOTS - k] = mem[NUM_SLOTS - (k + 1)]
    BY <1>4, <2>1
  <2> QED
    BY <1>3, <1>5, <1>6, <2>1, <2>2
<1>9. s2[NUM_SLOTS] = c
  <2>1. NUM_SLOTS \in 1 .. NUM_SLOTS /\ NUM_SLOTS - NUM_SLOTS = 0 /\ 0 \in Slots
    BY DEF Slots
  <2>2. v2[NUM_SLOTS - NUM_SLOTS] = b /\ mem2[NUM_SLOTS - NUM_SLOTS] = x
    <3>1. v2[0] = b /\ mem2[0] = x
      BY <2>1 DEF v2, mem2
    <3> QED
      BY <2>1, <3>1, Zenon
  <2>3. s2[NUM_SLOTS] = IF b THEN <<x>> ELSE <<>>
    BY <1>5, <2>1, <2>2, Zenon
  <2> QED
    BY <2>3, Zenon DEF c
<1>10. s2 = t \o <<c>>
  <2> DEFINE u == t \o <<c>>
  <2>1. /\ u \in Seq(Seq(Data)) /\ Len(u) = NUM_SLOTS
        /\ \A k \in 1 .. NUM_SLOTS : u[k] = IF k = NUM_SLOTS THEN c ELSE t[k]
    <3>1. t \in Seq(Seq(Data)) /\ c \in Seq(Data)
      BY <1>6, <1>7
    <3>2. /\ u \in Seq(Seq(Data)) /\ Len(u) = Len(t) + 1 /\ u[Len(t) + 1] = c
          /\ \A k \in 1 .. Len(t) : u[k] = t[k]
      BY <3>1
    <3>3. Len(t) + 1 = NUM_SLOTS /\ \A k \in 1 .. NUM_SLOTS : k = NUM_SLOTS \/ k \in 1 .. Len(t)
      BY <1>6
    <3> HIDE DEF u
    <3>4. ASSUME NEW k \in 1 .. NUM_SLOTS PROVE u[k] = IF k = NUM_SLOTS THEN c ELSE t[k]
      BY <3>2, <3>3
    <3> QED
      BY <3>2, <3>3, <3>4
  <2> HIDE DEF u
  <2>2. ASSUME NEW k \in 1 .. NUM_SLOTS PROVE u[k] = s2[k]
    <3>1. CASE k = NUM_SLOTS
      BY <1>9, <2>1, <3>1
    <3>2. CASE k # NUM_SLOTS
      <4>1. k \in 1 .. NUM_SLOTS - 1
        BY <3>2
      <4> QED
        BY <1>8, <2>1, <3>2, <4>1
    <3> QED
      BY <3>1, <3>2
  <2>3. u = s2
    BY <1>5, <2>1, <2>2, SeqEqual
  <2> QED
    BY <2>3 DEF u
<1>11. FlattenSeq(s2) = FlattenSeq(t) \o c
  BY <1>6, <1>7, <1>10, FlattenSnoc
<1> QED
  BY <1>2, <1>11, Zenon DEF v2, mem2, s, s2, t, c, Shifts

ShiftQueue == Shift!Contents = FlattenSeq(Cells(valid_reg, Memory))

LEMMA ShiftContents == ShiftQueue
<1>1. Shift!Contents = FlattenSeq([k \in 1 .. NUM_SLOTS |-> Shift!Stored(NUM_SLOTS - k)])
  BY Zenon DEF Shift!Contents, Shift!FlattenSeq, FlattenSeq
<1>2. [k \in 1 .. NUM_SLOTS |-> Shift!Stored(NUM_SLOTS - k)] = Cells(valid_reg, Memory)
  BY DEF Shift!Stored, Cells
<1> QED
  BY <1>1, <1>2 DEF ShiftQueue

LEMMA ShiftContentsNext == ShiftQueue'
  BY ShiftContents, PTL

LEMMA ShiftWires ==
  ASSUME IInv, kind = "SHIFT_REG_BREAK_DV"
  PROVE  LET last == Cells(valid_reg, Memory)[1]
             rest == FlattenSeq(Tail(Cells(valid_reg, Memory)))
         IN  /\ outs = (IF valid_reg[NUM_SLOTS - 1] THEN Memory[NUM_SLOTS - 1] ELSE NoToken)
             /\ Valid(outs) <=> valid_reg[NUM_SLOTS - 1]
             /\ Valid(outs) => outs \in Data
             /\ ins_ready = (~Valid(outs) \/ outs_ready)
             /\ Contents = last \o rest /\ rest \in Seq(Data) /\ Contents \in Seq(Data)
             /\ last = IF Valid(outs) THEN <<outs>> ELSE <<>>
             /\ Len(Contents) <= NUM_SLOTS /\ Capacity = NUM_SLOTS
             /\ Contents = FlattenSeq(Cells(valid_reg, Memory))
<1> USE Parameters
<1>1. /\ outs = (IF valid_reg[NUM_SLOTS - 1] THEN Memory[NUM_SLOTS - 1] ELSE NoToken)
      /\ ins_ready = (~Valid(outs) \/ outs_ready)
      /\ Contents = FlattenSeq(Cells(valid_reg, Memory)) /\ Capacity = NUM_SLOTS
  BY WiringLemma, ShiftContents DEF Wiring, ShiftQueue, Shift!outs, Shift!ins_ready, Shift!regEn,
     Shift!Valid, Valid
<1>2. Memory[NUM_SLOTS - 1] \in Data /\ valid_reg[NUM_SLOTS - 1] \in BOOLEAN
  <2>1. NUM_SLOTS - 1 \in Slots
    BY DEF Slots
  <2> QED
    BY <2>1, Types
<1>3. (Valid(outs) <=> valid_reg[NUM_SLOTS - 1]) /\ (Valid(outs) => outs \in Data)
  BY <1>1, <1>2 DEF Valid
<1>4. valid_reg \in [Slots -> BOOLEAN] /\ Memory \in [Slots -> Data]
  BY Types
<1> DEFINE s == Cells(valid_reg, Memory)
<1>5. /\ FlattenSeq(s) = s[1] \o FlattenSeq(Tail(s))
      /\ FlattenSeq(Tail(s)) \in Seq(Data) /\ FlattenSeq(s) \in Seq(Data)
      /\ Len(FlattenSeq(s)) <= NUM_SLOTS
      /\ s[1] = IF valid_reg[NUM_SLOTS - 1] THEN <<Memory[NUM_SLOTS - 1]>> ELSE <<>>
  BY <1>4, CellsSplit
<1> HIDE DEF s
<1>6. s[1] = IF Valid(outs) THEN <<outs>> ELSE <<>>
  BY <1>1, <1>3, <1>5
<1> QED
  BY <1>1, <1>3, <1>5, <1>6 DEF s

LEMMA ShiftState == ASSUME IInv, kind = "SHIFT_REG_BREAK_DV" PROVE StateFacts
<1> DEFINE last == Cells(valid_reg, Memory)[1]
           rest == FlattenSeq(Tail(Cells(valid_reg, Memory)))
<1>1. /\ Valid(outs) => outs \in Data
      /\ Contents = last \o rest /\ rest \in Seq(Data) /\ Contents \in Seq(Data)
      /\ last = IF Valid(outs) THEN <<outs>> ELSE <<>>
      /\ Len(Contents) <= NUM_SLOTS /\ Capacity = NUM_SLOTS
  BY ShiftWires
<1> HIDE DEF last, rest
<1>2. Transfer(ins, ins_ready) \in Seq(Data)
  BY TransferType
<1>3. ASSUME Valid(outs)
      PROVE  Contents # <<>> /\ Head(Contents) = outs
  <2>1. last = <<outs>> /\ outs \in Data
    BY <1>1, <1>3
  <2>2. last \in Seq(Data) /\ last # <<>> /\ Head(last) = outs
    BY <2>1, Singles
  <2> QED
    BY <1>1, <2>2, HeadStays
<1> QED
  BY <1>1, <1>2, <1>3, HeadStays DEF StateFacts

\* The valid bits and the data shift in step, bubbles included, or stall as a
\* whole; what a reset leaves in the data slots is never marked valid.
LEMMA ShiftEdge == ASSUME IInv, ShiftStep PROVE IInv' /\ StepFacts
<1> USE Parameters
<1>1. kind' = kind /\ kind = "SHIFT_REG_BREAK_DV" /\ initial = <<>> /\ Shift!Clock
  BY DEF ShiftStep, Env, IInv, KindInv
<1> DEFINE last == Cells(valid_reg, Memory)[1]
           rest == FlattenSeq(Tail(Cells(valid_reg, Memory)))
<1>2. /\ outs = (IF valid_reg[NUM_SLOTS - 1] THEN Memory[NUM_SLOTS - 1] ELSE NoToken)
      /\ Valid(outs) => outs \in Data
      /\ ins_ready = (~Valid(outs) \/ outs_ready)
      /\ Contents = last \o rest /\ rest \in Seq(Data) /\ Contents \in Seq(Data)
      /\ last = IF Valid(outs) THEN <<outs>> ELSE <<>>
      /\ Contents = FlattenSeq(Cells(valid_reg, Memory))
  BY <1>1, ShiftWires
<1>3. /\ Contents' = FlattenSeq(Cells(valid_reg', Memory'))
      /\ outs' = IF valid_reg'[NUM_SLOTS - 1] THEN Memory'[NUM_SLOTS - 1] ELSE NoToken
  BY <1>1, WiringNext, ShiftContentsNext DEF Wiring, ShiftQueue, Shift!outs
<1>4. /\ valid_reg' = CASE rst -> [i \in Slots |-> FALSE]
                        [] ~rst /\ ins_ready ->
                             [i \in Slots |-> IF i = 0 THEN Valid(ins) ELSE valid_reg[i - 1]]
                        [] OTHER -> valid_reg
      /\ IF ins_ready
           THEN \E bus \in Data : /\ Valid(ins) => bus = ins
                                  /\ Memory' = [i \in Slots |-> IF i = 0 THEN bus ELSE Memory[i - 1]]
           ELSE Memory' = Memory
  <2>1. ins_ready = Shift!regEn
    BY <1>1, WiringLemma DEF Wiring, Shift!ins_ready
  <2> QED
    BY <1>1, <2>1 DEF Shift!Clock, Shift!Control, Shift!DataUpdate, Shift!ShiftData, Shift!Slots,
       Shift!Valid, Valid, Slots
<1> HIDE DEF last, rest
<1>5. ins_ready \in BOOLEAN /\ Valid(ins) \in BOOLEAN
  BY <1>2, Types DEF Valid
<1>6. valid_reg \in [Slots -> BOOLEAN] /\ Memory \in [Slots -> Data] /\ rst \in BOOLEAN
  BY Types
<1>7. ASSUME ins_ready
      PROVE  /\ Memory' \in [Slots -> Data]
             /\ ~rst => /\ valid_reg' \in [Slots -> BOOLEAN]
                        /\ Contents' = rest \o Transfer(ins, ins_ready)
  <2>1. PICK bus \in Data : /\ Valid(ins) => bus = ins
                            /\ Memory' = [i \in Slots |-> IF i = 0 THEN bus ELSE Memory[i - 1]]
    BY <1>4, <1>7
  <2> DEFINE v2 == [i \in Slots |-> IF i = 0 THEN Valid(ins) ELSE valid_reg[i - 1]]
             mem2 == [i \in Slots |-> IF i = 0 THEN bus ELSE Memory[i - 1]]
  <2>2. /\ v2 \in [Slots -> BOOLEAN] /\ mem2 \in [Slots -> Data]
        /\ FlattenSeq(Cells(v2, mem2)) = rest \o IF Valid(ins) THEN <<bus>> ELSE <<>>
    <3>1. Shifts(valid_reg, Memory, Valid(ins), bus)
      BY <1>5, <1>6, CellsShift, Zenon
    <3> QED
      BY <3>1, Zenon DEF Shifts, rest
  <2>3. Memory' = mem2 /\ (~rst => valid_reg' = v2)
    BY <1>4, <1>7, <2>1
  <2>4. (IF Valid(ins) THEN <<bus>> ELSE <<>>) = Transfer(ins, ins_ready)
    BY <1>7, <2>1 DEF Transfer
  <2> HIDE DEF v2, mem2
  <2> QED
    BY <1>3, <2>2, <2>3, <2>4
<1>8. ASSUME ~ins_ready
      PROVE  Memory' = Memory /\ (~rst => valid_reg' = valid_reg /\ Contents' = Contents)
  BY <1>2, <1>3, <1>4, <1>8
<1>9. ASSUME rst
      PROVE  valid_reg' \in [Slots -> BOOLEAN] /\ Contents' = <<>>
  <2>1. valid_reg' = [i \in Slots |-> FALSE]
    BY <1>4, <1>9
  <2>2. Memory' \in [Slots -> Data] /\ valid_reg' \in [Slots -> BOOLEAN]
    BY <1>5, <1>6, <1>7, <1>8, <2>1
  <2> DEFINE s == Cells(valid_reg', Memory')
  <2>3. /\ s \in Seq(Seq(Data)) /\ Len(s) = NUM_SLOTS
        /\ \A k \in 1 .. NUM_SLOTS :
             s[k] = IF valid_reg'[NUM_SLOTS - k] THEN <<Memory'[NUM_SLOTS - k]>> ELSE <<>>
    BY <2>2, CellsType
  <2>4. \A k \in 1 .. NUM_SLOTS : ~valid_reg'[NUM_SLOTS - k]
    BY <2>1 DEF Slots
  <2>5. \A k \in 1 .. Len(s) : s[k] = <<>>
    BY <2>3, <2>4
  <2> HIDE DEF s
  <2>6. FlattenSeq(s) = <<>>
    BY <2>3, <2>5, FlattenType
  <2> QED
    BY <1>3, <2>2, <2>6 DEF s
<1>10. IInv'
  <2>1. Memory' \in [Slots -> Data] /\ valid_reg' \in [Slots -> BOOLEAN]
    BY <1>5, <1>6, <1>7, <1>8, <1>9
  <2> QED
    BY <1>1, <2>1, Types DEF ShiftStep, Env, IInv, TypeOK, KindInv, RegistersAgree
<1>11. CASE rst
  BY <1>1, <1>9, <1>10, <1>11 DEF StepFacts
<1>12. CASE ~rst /\ ins_ready /\ Valid(outs)
  <2> DEFINE tr == Transfer(ins, ins_ready)
  <2>1. outs_ready /\ tr \in Seq(Data) /\ outs \in Data /\ Contents' = rest \o tr
        /\ Contents = <<outs>> \o rest /\ rest \in Seq(Data)
    BY <1>2, <1>7, <1>12, TransferType
  <2> HIDE DEF tr
  <2>2. Tail((<<outs>> \o rest) \o tr) = rest \o tr
    BY <2>1, ConsTail
  <2> QED
    BY <1>10, <1>12, <2>1, <2>2 DEF StepFacts, Holds, tr
<1>13. CASE ~rst /\ ins_ready /\ ~Valid(outs)
  <2>1. Contents = rest /\ Contents' = rest \o Transfer(ins, ins_ready)
    BY <1>2, <1>7, <1>13, ConcatEmptySeq
  <2> QED
    BY <1>10, <1>13, <2>1 DEF StepFacts, Holds
<1>14. CASE ~rst /\ ~ins_ready
  <2>1. Contents' = Contents /\ outs' = outs /\ ~(Valid(outs) /\ outs_ready)
    BY <1>2, <1>3, <1>8, <1>14
  <2>2. Transfer(ins, ins_ready) = <<>> /\ Contents \o <<>> = Contents
    BY <1>2, <1>14, ConcatEmptySeq DEF Transfer
  <2> QED
    BY <1>10, <1>14, <2>1, <2>2 DEF StepFacts
<1> QED
  BY <1>5, <1>6, <1>11, <1>12, <1>13, <1>14
-----------------------------------------------------------------------------
(* All kinds together.                                                     *)

LEMMA StateLemma == IInv => StateFacts
  BY DvState, RState, DvrState, FifoState, NoneState, None1State, ShiftState, CntState,
     QueueState DEF IInv, TypeOK, Kinds

LEMMA StateLemmaNext == IInv' => StateFacts'
  BY StateLemma, PTL

LEMMA StepLemma == ASSUME IInv, Next PROVE IInv' /\ StepFacts
  BY DvEdge, REdge, DvrEdge, FifoEdge, NoneEdge, None1Edge, ShiftEdge, CntEdge, QueueEdge
  DEF Next

\* The reset values are consistent, and stand for the initial tokens.
LEMMA InitLemma == ASSUME Init PROVE IInv /\ Contents = initial
<1> USE Parameters
<1>1. /\ kind \in Kinds /\ initial \in InitTokens \cup {<<>>}
      /\ kind # "QUEUE" => initial = <<>>
  BY DEF Init
<1>2. initial \in Seq(Data) /\ Len(initial) \in 0 .. NUM_SLOTS /\ Len(initial) \in Nat
  <2>1. initial \in InitTokens \/ initial = <<>>
    BY <1>1
  <2>2. initial \in Seq(Data) /\ Len(initial) <= NUM_SLOTS
    <3>1. <<>> \in Seq(Data) /\ Len(<<>>) <= NUM_SLOTS
      OBVIOUS
    <3> QED
      BY <2>1, <3>1, BuffersAssumption
  <2> QED
    BY <2>2, LenProperties
<1>3. 0 \in Slots /\ 0 + Len(initial) = Len(initial)
  BY <1>2 DEF Slots
<1>4. /\ head = 0 /\ tail = Len(initial) % NUM_SLOTS /\ count = Len(initial)
      /\ tail \in Slots /\ tail = (head + count) % NUM_SLOTS
  <2>1. head = 0 /\ tail = Len(initial) % NUM_SLOTS /\ count = Len(initial)
    BY DEF Init
  <2>2. Turn(0 + Len(initial))
    BY <1>2, <1>3, AheadLemma
  <2>3. tail = (head + count) % NUM_SLOTS
    BY <1>3, <2>1, Zenon
  <2>4. IsSlot(tail, 0 + Len(initial))
    BY <2>1, <2>2, <2>3, Zenon DEF Turn
  <2>5. tail \in Slots
    BY <2>4, Zenon DEF IsSlot
  <2> QED
    BY <2>1, <2>3, <2>5, Zenon
<1>5. Memory \in [Slots -> Data]
  BY DEF Init
<1>6. /\ bit1 = FALSE /\ bit2 = (kind \in {"ONE_SLOT_BREAK_DVR", "FIFO_BREAK_DV", "FIFO_BREAK_NONE"})
      /\ word = Zero /\ valid_reg = [i \in Slots |-> FALSE]
      /\ ins \in Wire /\ outs_ready \in BOOLEAN /\ rst \in BOOLEAN
  BY DEF Init
<1>7. TypeOK
  <2>1. count \in 0 .. (NUM_SLOTS + DV_LATENCY)
    BY <1>2, <1>4
  <2> QED
    BY <1>1, <1>3, <1>4, <1>5, <1>6, <2>1 DEF TypeOK
<1>8. kind # "QUEUE" => Len(initial) = 0
  BY <1>1, Singles
<1>9. KindInv
  <2>1. kind \in {"FIFO_BREAK_DV", "FIFO_BREAK_NONE"} => Fifo!FlagsAgree
    <3>1. kind # "QUEUE" => tail = 0
      <4>1. 0 \in 0 .. 2 * NUM_SLOTS - 1
        OBVIOUS
      <4> QED
        BY <1>4, <1>8, <4>1, SlotLemma
    <3> QED
      BY <1>4, <1>6, <3>1 DEF Fifo!FlagsAgree
  <2>2. kind = "QUEUE" => count <= NUM_SLOTS
    BY <1>2, <1>4
  <2>3. kind = "COUNTER_BUFFER" => count < DV_LATENCY
    BY <1>4, <1>8
  <2> QED
    BY <1>1, <1>4, <1>6, <2>1, <2>2, <2>3 DEF KindInv, RegistersAgree
<1>10. IInv
  BY <1>7, <1>9 DEF IInv
<1>11. CASE kind \in {"ONE_SLOT_BREAK_DV", "ONE_SLOT_BREAK_R", "ONE_SLOT_BREAK_DVR",
                      "FIFO_BREAK_NONE_1", "COUNTER_BUFFER"}
  <2>1. Contents = <<>> /\ initial = <<>>
    BY <1>1, <1>6, <1>11, WiringLemma DEF Wiring, Dv!Contents, R!Contents, Dvr!Contents,
       Cnt!Contents
  <2> QED
    BY <1>10, <2>1
<1>12. CASE kind \in {"FIFO_BREAK_DV", "FIFO_BREAK_NONE"}
  <2>1. Contents = Fifo!Contents /\ initial = <<>> /\ bit2
    BY <1>1, <1>6, <1>12, WiringLemma DEF Wiring
  <2>2. bit2 => Fifo!Contents = <<>>
    BY <1>10, <1>12, RingContents
  <2> QED
    BY <1>10, <2>1, <2>2
<1>13. CASE kind = "SHIFT_REG_BREAK_DV"
  <2> DEFINE s == Cells(valid_reg, Memory)
  <2>1. Contents = FlattenSeq(s) /\ initial = <<>>
    BY <1>1, <1>10, <1>13, ShiftWires
  <2>2. /\ s \in Seq(Seq(Data)) /\ Len(s) = NUM_SLOTS
        /\ \A k \in 1 .. NUM_SLOTS :
             s[k] = IF valid_reg[NUM_SLOTS - k] THEN <<Memory[NUM_SLOTS - k]>> ELSE <<>>
    BY <1>7, CellsType DEF TypeOK
  <2>3. \A k \in 1 .. NUM_SLOTS : ~valid_reg[NUM_SLOTS - k]
    BY <1>6 DEF Slots
  <2>4. \A k \in 1 .. Len(s) : s[k] = <<>>
    BY <2>2, <2>3
  <2> HIDE DEF s
  <2>5. FlattenSeq(s) = <<>>
    BY <2>2, <2>4, FlattenType
  <2> QED
    BY <1>10, <2>1, <2>5
<1>14. CASE kind = "QUEUE"
  <2>1. Que!InitRegs
    BY <1>14 DEF Init
  <2>2. PICK mem \in [Slots -> Data] : Memory = Que!Preload(mem)
    BY <2>1 DEF Que!InitRegs, Que!Slots, Slots
  <2>3. Read(Que!Preload(mem), 0, Len(initial)) = initial
    BY <1>10, PreloadLemma
  <2>4. Contents = Read(Memory, head, count)
    BY <1>10, <1>14, QueueContents
  <2> QED
    BY <1>4, <1>10, <2>2, <2>3, <2>4
<1> QED
  BY <1>1, <1>11, <1>12, <1>13, <1>14 DEF Kinds

Stutter == UNCHANGED <<Contents, Capacity, ins_ready, outs>>

LEMMA StutterLemma == ASSUME UNCHANGED vars PROVE Stutter
<1>1. /\ kind' = kind /\ bit1' = bit1 /\ bit2' = bit2 /\ word' = word /\ count' = count
      /\ head' = head /\ valid_reg' = valid_reg /\ Memory' = Memory /\ tail' = tail
      /\ ins' = ins /\ outs_ready' = outs_ready
  BY DEF vars, regs
<1>2. UNCHANGED <<Dv!outs, Dv!ins_ready, Dv!Contents, R!outs, R!ins_ready, R!Contents,
                  Dvr!outs, Dvr!ins_ready, Dvr!Contents, Cnt!outs, Cnt!ins_ready, Cnt!Contents>>
  BY <1>1 DEF Dv!outs, Dv!ins_ready, Dv!Contents, R!outs, R!ins_ready, R!Contents, R!Valid,
     Dvr!outs, Dvr!ins_ready, Dvr!Contents, Cnt!outs, Cnt!ins_ready, Cnt!Contents, Cnt!done
<1>3. UNCHANGED <<Fifo!outs, Fifo!ins_ready, Fifo!Contents, Que!outs, Que!ins_ready, Que!Contents>>
  BY <1>1 DEF Fifo!outs, Fifo!ins_ready, Fifo!Contents, Fifo!Count, Que!outs, Que!ins_ready,
     Que!Contents, Que!Empty, Que!Full
<1>4. UNCHANGED <<Shift!outs, Shift!ins_ready, Shift!Contents>>
  BY <1>1, ShiftContents, ShiftContentsNext DEF Shift!outs, Shift!ins_ready, Shift!regEn,
     Shift!Valid, ShiftQueue
<1>5. UNCHANGED <<Bypass!outs, Bypass!ins_ready, Bypass1!outs, Bypass1!ins_ready>>
  BY <1>1, <1>2, <1>3 DEF Bypass!outs, Bypass!ins_ready, Bypass!Valid, Bypass1!outs,
     Bypass1!ins_ready, Bypass1!Valid
<1>6. Contents' = Contents
  BY <1>1, <1>2, <1>3, <1>4 DEF Contents
<1>7. ins_ready' = ins_ready
  BY <1>1, <1>2, <1>3, <1>4, <1>5 DEF ins_ready
<1>8. outs' = outs
  BY <1>1, <1>2, <1>3, <1>4, <1>5 DEF outs
<1>9. Capacity' = Capacity
  BY <1>1 DEF Capacity
<1> QED
  BY <1>6, <1>7, <1>8, <1>9 DEF Stutter

\* The registers of every kind stay consistent with each other.
THEOREM Invariance == Spec => []IInv
<1>1. Init => IInv
  BY InitLemma
<1>2. IInv /\ [Next]_vars => IInv'
  <2>1. IInv /\ UNCHANGED vars => IInv'
    BY DEF IInv, TypeOK, KindInv, RegistersAgree, vars, regs, Fifo!FlagsAgree
  <2> QED
    BY <2>1, StepLemma
<1> QED
  BY <1>1, <1>2, PTL DEF Spec

\* Every register of every buffer kind stays in its range: the count of a
\* queue in particular never passes its number of slots or zero.
THEOREM TypeCorrect == Spec => []TypeOK
<1>1. IInv => TypeOK
  BY DEF IInv
<1> QED
  BY <1>1, Invariance, PTL

\* Full and Empty agree with the pointers, the registered ready with its slot and
\* the queue's tail with its count (RegistersAgree), for every number of slots and
\* under every sequence of reads, writes, simultaneous ones and resets.
THEOREM RegistersCorrect == Spec => []RegistersAgree
<1>1. IInv => RegistersAgree
  BY DEF IInv, KindInv
<1> QED
  BY <1>1, Invariance, PTL

\* A step of a buffer, of any kind, is a clock edge of the elastic FIFO.
LEMMA ClockRefines == ASSUME IInv, Next PROVE Channel_!Clock
<1>1. /\ StepFacts /\ StateFacts' /\ StateFacts
  BY StepLemma, StateLemma, StateLemmaNext
<1>2. kind' = kind /\ initial' = initial
      /\ (Holds(ins, ins_ready) /\ ~rst => ins' = ins)
  BY DEF Next, Env, DvStep, RStep, DvrStep, FifoStep, NoneStep, None1Step, ShiftStep,
     CntStep, QueueStep
<1>3. Capacity' = Capacity
  BY <1>2 DEF Capacity
<1>4. rst \in BOOLEAN
  BY Types
<1>5. Contents' = CASE rst -> initial
                    [] ~rst /\ Valid(outs) /\ outs_ready -> Tail(Channel_!Content)
                    [] OTHER -> Channel_!Content
  BY <1>1, <1>4 DEF StepFacts, Channel_!Content, Channel_!Transfer, Channel_!Valid, Transfer, Valid
<1>6. Len(Contents') <= Capacity /\ Channel_!OffersOldest'
  BY <1>1, <1>3 DEF StateFacts, Channel_!OffersOldest, Channel_!Content, Channel_!Transfer,
     Channel_!Valid, Transfer, Valid
<1>7. Holds(outs, outs_ready) /\ ~rst => outs' = outs
  BY <1>1 DEF StepFacts
<1> QED
  BY <1>2, <1>3, <1>5, <1>6, <1>7 DEF Channel_!Clock, Channel_!Valid, Channel_!Holds, Valid, Holds

\* Whatever its kind, number of slots, delay and initial tokens, a buffer is a
\* lossless, order-preserving FIFO of its capacity that keeps its offers.
THEOREM Refinement == Spec => ImplementsElasticFifo
<1>1. Init => Channel_!Init
  <2> SUFFICES ASSUME Init PROVE Channel_!Init
    OBVIOUS
  <2>1. StateFacts /\ Contents = initial
    BY InitLemma, StateLemma
  <2> QED
    BY <2>1 DEF StateFacts, Channel_!Init, Channel_!OffersOldest, Channel_!Content,
       Channel_!Transfer, Channel_!Valid, Transfer, Valid
<1>2. IInv /\ [Next]_vars => [Channel_!Clock]_(Channel_!vars)
  <2>1. UNCHANGED vars => UNCHANGED Channel_!vars
    <3> SUFFICES ASSUME UNCHANGED vars PROVE UNCHANGED Channel_!vars
      OBVIOUS
    <3>1. Stutter
      BY StutterLemma
    <3>2. ins' = ins /\ outs_ready' = outs_ready /\ rst' = rst /\ initial' = initial
      BY DEF vars
    <3> QED
      BY <3>1, <3>2 DEF Stutter, Channel_!vars
  <2> QED
    BY <2>1, ClockRefines
<1> QED
  BY <1>1, <1>2, Invariance, PTL DEF Spec, ImplementsElasticFifo, Channel_!Spec
=============================================================================
