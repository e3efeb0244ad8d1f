--------------------------- MODULE SharingProofs ---------------------------
(***************************************************************************)
(* The sharing wrapper never overruns, and each operation has, to all      *)
(* appearances, a unit of its own: for any number of operations, any       *)
(* credits and any latency.                                                *)
(***************************************************************************)
EXTENDS Sharing, CountingLemmas

\* Who is in the unit, and which of its stages are taken.
Occurs(q, i) == {k \in DOMAIN q : q[k] = i}
Entries(i) == Occurs(cond_buffer, i)
Stages == {s \in 1 .. latency : Valid(unit[s])}

TypeOK ==
  /\ counter_reg \in [Ops -> Nat] /\ unit \in [1 .. latency -> Wire]
  /\ cond_buffer \in Seq(Ops) /\ out_buffer \in [Ops -> Seq(Data)]
  /\ ins \in [Ops -> Wire] /\ outs_ready \in [Ops -> BOOLEAN] /\ rst \in BOOLEAN

\* Every credit is at home, in the unit, or with a result that waits.
CreditInv ==
  \A i \in Ops : counter_reg[i] + Cardinality(Entries(i)) + Len(out_buffer[i]) = credits(i)

\* The condition buffer has one entry for every token in the unit.
PairInv == Len(cond_buffer) = Cardinality(Stages)

IInv == TypeOK /\ CreditInv /\ PairInv
-----------------------------------------------------------------------------
LEMMA CreditsType == \A i \in Ops : credits(i) \in Nat /\ credits(i) >= 1
  BY SharingAssumption DEF credits, Ops

\* The sets that are counted are finite.
LEMMA CountTypes ==
  ASSUME TypeOK
  PROVE  /\ \A i \in Ops : IsFiniteSet(Entries(i)) /\ Cardinality(Entries(i)) \in Nat
         /\ IsFiniteSet(Stages) /\ Cardinality(Stages) \in Nat
         /\ Cardinality(Stages) <= latency
         /\ ~Valid(unit_out) => Cardinality(Stages) < latency
  <1>1. Len(cond_buffer) \in Nat /\ DOMAIN cond_buffer = 1 .. Len(cond_buffer)
    BY DEF TypeOK
  <1>2. \A n \in Nat : IsFiniteSet(1 .. n) /\ Cardinality(1 .. n) = n
    <2> TAKE n \in Nat
    <2>1. 1 \in Int /\ n \in Int
      OBVIOUS
    <2>2. IsFiniteSet(1 .. n) /\ Cardinality(1 .. n) = IF 1 > n THEN 0 ELSE n - 1 + 1
      BY <2>1, FS_Interval
    <2> QED
      BY <2>1, <2>2
  <1>3. \A i \in Ops : Entries(i) \subseteq 1 .. Len(cond_buffer)
    BY <1>1 DEF Entries, Occurs
  <1>4. \A i \in Ops : IsFiniteSet(Entries(i)) /\ Cardinality(Entries(i)) \in Nat
    BY <1>1, <1>2, <1>3, FS_Subset, FS_CardinalityType
  <1>5. latency \in Nat /\ Stages \subseteq 1 .. latency
    BY SharingAssumption DEF Stages
  <1>6. /\ IsFiniteSet(Stages) /\ Cardinality(Stages) \in Nat /\ Cardinality(Stages) <= latency
        /\ Cardinality(Stages) = latency => Stages = 1 .. latency
    <2>1. IsFiniteSet(1 .. latency) /\ Cardinality(1 .. latency) = latency
      BY <1>2, <1>5
    <2>2. /\ IsFiniteSet(Stages) /\ Cardinality(Stages) <= Cardinality(1 .. latency)
          /\ Cardinality(1 .. latency) = Cardinality(Stages) => 1 .. latency = Stages
      BY <1>5, <2>1, FS_Subset
    <2> QED
      BY <2>1, <2>2, FS_CardinalityType
  <1>7. ~Valid(unit_out) => Stages # 1 .. latency
    BY SharingAssumption DEF unit_out, Stages
  <1> QED
    BY <1>4, <1>5, <1>6, <1>7

\* The arbiter grants at most one operation, one that offers a token and has a
\* credit left.
LEMMA Granted ==
  ASSUME TypeOK, arbiter_out # {}
  PROVE  \E i \in Ops : /\ arbiter_out = {i} /\ (CHOOSE j \in arbiter_out : TRUE) = i
                        /\ counter_reg[i] > 0 /\ Valid(toSharedUnit)
  <1>1. PICK i \in Ops : i \in arbiter_out
    BY DEF arbiter_out
  <1>2. ASSUME NEW j \in arbiter_out PROVE j = i
    <2>1. /\ i \in Int /\ j \in Int /\ i >= 1 /\ j >= 1 /\ sync_valid(i) /\ sync_valid(j)
          /\ \A k \in 1 .. i - 1 : ~sync_valid(k)
          /\ \A k \in 1 .. j - 1 : ~sync_valid(k)
      BY <1>1, <1>2 DEF arbiter_out, Ops
    <2>2. ~(j < i) /\ ~(i < j)
      BY <2>1
    <2> QED
      BY <2>1, <2>2
  <1>3. arbiter_out = {i}
    BY <1>1, <1>2
  <1>4. sync_valid(i)
    BY <1>1 DEF arbiter_out
  <1>5. (CHOOSE j \in arbiter_out : TRUE) = i
    BY <1>3
  <1> QED
    BY <1>3, <1>4, <1>5 DEF sync_valid, toSharedUnit
-----------------------------------------------------------------------------
(* What the invariant says of a cycle.                                     *)

\* A result that leaves the unit finds room, and its operation's counter is
\* below its limit; so the unit never stalls.
LEMMA Room ==
  ASSUME IInv
  PROVE  /\ Valid(unit_out) => cond_buffer # <<>> /\ Head(cond_buffer) \in Ops
         /\ Valid(unit_out) => branch_ready
         /\ \A i \in Ops : Valid(branch_out(i)) => out_buffer_ready(i)
         /\ \A i \in Ops : Valid(out_buffer_out(i)) => credit_ready(i)
         /\ unit_ready /\ cond_ins_ready
         /\ cond_ready <=> Valid(unit_out)
  <1> USE DEF IInv
  <1>1. ASSUME Valid(unit_out) PROVE cond_buffer # <<>> /\ Head(cond_buffer) \in Ops
    <2>1. latency \in Stages
      BY <1>1, SharingAssumption DEF unit_out, Stages
    <2>2. Cardinality(Stages) # 0
      BY <2>1, CountTypes, FS_EmptySet
    <2> QED
      BY <2>2 DEF PairInv, TypeOK
  <1>2. ASSUME NEW i \in Ops, Valid(unit_out), Head(cond_buffer) = i
        PROVE  Len(out_buffer[i]) < credits(i) /\ credit_ready(i)
    <2>1. 1 \in Entries(i)
      BY <1>1, <1>2 DEF Entries, Occurs, TypeOK
    <2>2. Cardinality(Entries(i)) # 0
      BY <2>1, CountTypes, FS_EmptySet
    <2>3. Cardinality(Entries(i)) \in Nat /\ counter_reg[i] \in Nat /\ Len(out_buffer[i]) \in Nat
      BY CountTypes DEF TypeOK
    <2> QED
      BY <2>2, <2>3, CreditsType DEF CreditInv, credit_ready
  <1>3. ASSUME NEW i \in Ops, out_buffer[i] # <<>> PROVE credit_ready(i)
    <2>1. /\ Cardinality(Entries(i)) \in Nat /\ counter_reg[i] \in Nat
          /\ Len(out_buffer[i]) \in Nat /\ Len(out_buffer[i]) # 0
      BY <1>3, CountTypes DEF TypeOK
    <2> QED
      BY <2>1, CreditsType DEF CreditInv, credit_ready
  <1>4. Valid(unit_out) => branch_ready
    BY <1>1, <1>2 DEF branch_ready, out_buffer_ready, OutSlots
  <1>5. \A i \in Ops : Valid(branch_out(i)) => Valid(unit_out) /\ Head(cond_buffer) = i
    BY DEF branch_out, Valid
  <1>6. \A i \in Ops : Valid(branch_out(i)) => out_buffer_ready(i)
    BY <1>2, <1>5 DEF out_buffer_ready, OutSlots
  <1>7. \A i \in Ops : Valid(out_buffer_out(i)) => credit_ready(i)
    BY <1>2, <1>3, <1>5 DEF out_buffer_out
  <1>8. unit_ready /\ (cond_ready <=> Valid(unit_out))
    BY <1>4 DEF unit_ready, cond_ready
  <1>9. cond_ins_ready
    BY <1>8, CountTypes DEF cond_ins_ready, CondSlots, PairInv
  <1> QED
    BY <1>1, <1>4, <1>6, <1>7, <1>8, <1>9
-----------------------------------------------------------------------------
(* Counting in a queue.                                                    *)

LEMMA OccursFinite ==
  ASSUME NEW S, NEW q \in Seq(S), NEW i
  PROVE  /\ IsFiniteSet(Occurs(q, i)) /\ Cardinality(Occurs(q, i)) \in Nat
         /\ Occurs(q, i) \subseteq 1 .. Len(q)
  <1>1. Len(q) \in Nat /\ Occurs(q, i) \subseteq 0 .. Len(q) /\ Occurs(q, i) \subseteq 1 .. Len(q)
    BY DEF Occurs
  <1> QED
    BY <1>1, InIntervalFinite

\* Taking the head off a queue removes one occurrence of it.
LEMMA OccursTail ==
  ASSUME NEW S, NEW q \in Seq(S), q # <<>>, NEW i
  PROVE  Cardinality(Occurs(Tail(q), i)) = Cardinality(Occurs(q, i)) - Bit(Head(q) = i)
  <1> DEFINE A == Occurs(q, i) \ {1}
             T == Occurs(Tail(q), i)
  <1>1. /\ Len(q) \in Nat /\ Len(q) >= 1 /\ DOMAIN q = 1 .. Len(q) /\ Tail(q) \in Seq(S)
        /\ Head(q) = q[1] /\ DOMAIN Tail(q) = 1 .. Len(q) - 1
        /\ \A k \in 1 .. Len(q) - 1 : Tail(q)[k] = q[k + 1]
    <2>1. Len(q) \in Nat /\ Len(q) >= 1 /\ DOMAIN q = 1 .. Len(q) /\ Head(q) = q[1]
      BY EmptySeq, LenProperties
    <2>2. /\ Tail(q) \in Seq(S) /\ Len(Tail(q)) = Len(q) - 1
          /\ \A k \in 1 .. Len(Tail(q)) : Tail(q)[k] = q[k + 1]
      BY HeadTailProperties
    <2>3. DOMAIN Tail(q) = 1 .. Len(q) - 1
      BY <2>2, LenProperties
    <2> QED
      BY <2>1, <2>2, <2>3
  <1>2. ASSUME NEW k \in Int PROVE k + (-1) \in T <=> k \in A
    <2>1. k + (-1) \in 1 .. Len(q) - 1 <=> k \in 1 .. Len(q) /\ k # 1
      BY <1>1
    <2>2. k + (-1) \in 1 .. Len(q) - 1 => Tail(q)[k + (-1)] = q[k]
      BY <1>1
    <2> QED
      BY <1>1, <2>1, <2>2 DEF Occurs
  <1>3. A \subseteq Int /\ T \subseteq Int /\ -1 \in Int
    BY <1>1 DEF Occurs
  <1>a. IsFiniteSet(Occurs(q, i)) /\ Cardinality(Occurs(q, i)) \in Nat
    BY OccursFinite
  <1>4. /\ IsFiniteSet(A) /\ Cardinality(A) = Cardinality(Occurs(q, i)) - Bit(1 \in Occurs(q, i))
    BY <1>a, FS_RemoveElement DEF Bit
  <1>5. 1 \in Occurs(q, i) <=> Head(q) = i
    BY <1>1 DEF Occurs
  <1> HIDE DEF A, T
  <1>6. Cardinality(T) = Cardinality(A)
    BY <1>2, <1>3, <1>4, Shifted
  <1> QED
    BY <1>4, <1>5, <1>6 DEF T, Bit

\* Adding an element adds one occurrence of it.
LEMMA OccursAppend ==
  ASSUME NEW S, NEW q \in Seq(S), NEW e \in S, NEW i
  PROVE  Cardinality(Occurs(q \o <<e>>, i)) = Cardinality(Occurs(q, i)) + Bit(e = i)
  <1> DEFINE r == q \o <<e>>
             n == Len(q) + 1
  <1>1. /\ Len(q) \in Nat /\ DOMAIN q = 1 .. Len(q) /\ DOMAIN r = 1 .. n
        /\ r[n] = e /\ \A k \in 1 .. Len(q) : r[k] = q[k]
    OBVIOUS
  <1>2. n \notin 1 .. Len(q) /\ 1 .. n = (1 .. Len(q)) \cup {n}
    BY <1>1
  <1> HIDE DEF r, n
  <1>3. Occurs(r, i) \ {n} = Occurs(q, i) \ {n} /\ n \notin Occurs(q, i)
    BY <1>1, <1>2 DEF Occurs
  <1>4. n \in Occurs(r, i) <=> e = i
    BY <1>1, <1>2 DEF Occurs
  <1>5. IsFiniteSet(Occurs(q, i)) /\ Cardinality(Occurs(q, i)) \in Nat
    BY OccursFinite
  <1>6. Cardinality(Occurs(r, i)) = Cardinality(Occurs(q, i)) + Bit(n \in Occurs(r, i))
                                     - Bit(n \in Occurs(q, i))
    BY <1>3, <1>5, OneDiffers
  <1> QED
    BY <1>3, <1>4, <1>5, <1>6 DEF Bit, r
-----------------------------------------------------------------------------
(* A clock edge.                                                           *)

\* The operation that enters in this cycle, and the one whose result leaves
\* the unit.
Leaves(i) == Valid(unit_out) /\ Head(cond_buffer) = i

\* The unit shifts: its last stage leaves, the granted token enters.
LEMMA UnitStep ==
  ASSUME IInv, UnitUpdate, ~rst
  PROVE  Cardinality(Stages') = Cardinality(Stages) - Bit(Valid(unit_out)) + Bit(arbiter_out # {})
  <1> DEFINE A == Stages \ {latency}
             B == Stages' \ {1}
  <1>1. latency \in Nat /\ latency >= 1
    BY SharingAssumption
  <1>2. unit' = [s \in 1 .. latency |-> IF s = 1 THEN toSharedUnit ELSE unit[s - 1]]
    BY Room DEF UnitUpdate
  <1>3. ASSUME NEW k \in Int PROVE k + 1 \in B <=> k \in A
    <2>1. k + 1 \in 1 .. latency /\ k + 1 # 1 <=> k \in 1 .. latency /\ k # latency
      BY <1>1
    <2>2. k + 1 \in 1 .. latency /\ k + 1 # 1 => unit'[k + 1] = unit[k]
      BY <1>1, <1>2
    <2> QED
      BY <2>1, <2>2 DEF Stages
  <1>4. A \subseteq Int /\ B \subseteq Int /\ 1 \in Int
    BY <1>1 DEF Stages
  <1>5. latency \in Stages <=> Valid(unit_out)
    BY <1>1 DEF Stages, unit_out
  <1>6. 1 \in Stages' <=> arbiter_out # {}
    <2>1. 1 \in 1 .. latency /\ unit'[1] = toSharedUnit
      BY <1>1, <1>2
    <2>2. Valid(toSharedUnit) <=> arbiter_out # {}
      BY Granted DEF IInv, toSharedUnit, Valid
    <2> QED
      BY <2>1, <2>2 DEF Stages
  <1>7. IsFiniteSet(Stages) /\ Cardinality(Stages) \in Nat
    BY CountTypes DEF IInv
  <1>8. IsFiniteSet(A) /\ Cardinality(A) = Cardinality(Stages) - Bit(Valid(unit_out))
    BY <1>5, <1>7, FS_RemoveElement DEF Bit
  <1> HIDE DEF A
  <1>9. IsFiniteSet(B) /\ Cardinality(B) = Cardinality(A)
    <2> HIDE DEF B
    <2> QED
      BY <1>3, <1>4, <1>8, Shifted
  <1>10. Cardinality(Stages') = Cardinality(B) + Bit(1 \in Stages')
    <2>1. Stages' \ {1} = B \ {1} /\ 1 \notin B
      OBVIOUS
    <2>2. Cardinality(B) \in Nat
      BY <1>9, FS_CardinalityType
    <2> HIDE DEF B
    <2>3. Cardinality(Stages') = Cardinality(B) + Bit(1 \in Stages') - Bit(1 \in B)
      BY <1>9, <2>1, OneDiffers
    <2> QED
      BY <2>1, <2>2, <2>3 DEF Bit
  <1> QED
    BY <1>6, <1>8, <1>9, <1>10 DEF Bit

\* The condition buffer without the entry of a result that leaves the unit.
Rest == IF Valid(unit_out) THEN Tail(cond_buffer) ELSE cond_buffer

\* The condition buffer moves with it: no entry is dropped.
LEMMA CondMove ==
  ASSUME IInv, CondUpdate, ~rst
  PROVE  cond_buffer' = Rest \o (IF arbiter_out # {} THEN <<CHOOSE i \in arbiter_out : TRUE>>
                                                     ELSE <<>>)
  <1>1. (cond_ready <=> Valid(unit_out)) /\ cond_ins_ready
    BY Room
  <1>2. cond_buffer' = (IF cond_ready THEN Tail(cond_buffer) ELSE cond_buffer)
          \o (IF arbiter_out # {} /\ cond_ins_ready
                THEN <<CHOOSE i \in arbiter_out : TRUE>> ELSE <<>>)
    BY DEF CondUpdate
  <1> DEFINE a == CHOOSE i \in arbiter_out : TRUE
  <1> HIDE DEF a
  <1>3. cond_buffer' = (IF cond_ready THEN Tail(cond_buffer) ELSE cond_buffer)
          \o (IF arbiter_out # {} /\ cond_ins_ready THEN <<a>> ELSE <<>>)
    BY <1>2 DEF a
  <1>4. cond_buffer' = Rest \o (IF arbiter_out # {} THEN <<a>> ELSE <<>>)
    BY <1>1, <1>3 DEF Rest
  <1> QED
    BY <1>4 DEF a

LEMMA CondStep ==
  ASSUME IInv, CondUpdate, ~rst
  PROVE  /\ cond_buffer' \in Seq(Ops)
         /\ Len(cond_buffer') = Len(cond_buffer) - Bit(Valid(unit_out)) + Bit(arbiter_out # {})
         /\ \A i \in Ops : Cardinality(Entries(i)') =
              Cardinality(Entries(i)) - Bit(Leaves(i)) + Bit(opin_ready(i))
  <1> DEFINE rest == IF Valid(unit_out) THEN Tail(cond_buffer) ELSE cond_buffer
  <1>1. cond_buffer \in Seq(Ops) /\ (Valid(unit_out) => cond_buffer # <<>>)
    BY Room DEF IInv, TypeOK
  <1>2. /\ rest \in Seq(Ops) /\ Len(rest) = Len(cond_buffer) - Bit(Valid(unit_out))
        /\ Len(cond_buffer) \in Nat
    BY <1>1, HeadTailProperties, LenProperties DEF Bit
  <1>3. \A i \in Ops : /\ Cardinality(Occurs(rest, i)) = Cardinality(Entries(i)) - Bit(Leaves(i))
                       /\ Cardinality(Entries(i)) \in Nat
    <2> TAKE i \in Ops
    <2>1. Cardinality(Entries(i)) \in Nat
      BY CountTypes DEF IInv
    <2>2. CASE Valid(unit_out)
      BY <1>1, <2>1, <2>2, OccursTail DEF Entries, Leaves
    <2>3. CASE ~Valid(unit_out)
      BY <2>1, <2>3 DEF Entries, Leaves, Bit
    <2> QED
      BY <2>1, <2>2, <2>3
  <1>4. cond_buffer' = rest \o (IF arbiter_out # {} THEN <<CHOOSE i \in arbiter_out : TRUE>>
                                                    ELSE <<>>)
    BY CondMove, Zenon DEF Rest
  <1> HIDE DEF rest
  <1>5. CASE arbiter_out = {}
    <2>1. cond_buffer' = rest
      BY <1>2, <1>4, <1>5
    <2>2. \A i \in Ops : ~opin_ready(i)
      BY <1>5 DEF opin_ready
    <2> QED
      BY <1>2, <1>3, <1>5, <2>1, <2>2 DEF Bit, Entries
  <1>6. CASE arbiter_out # {}
    <2>1. PICK a \in Ops : arbiter_out = {a} /\ (CHOOSE j \in arbiter_out : TRUE) = a
      BY <1>6, Granted DEF IInv
    <2>2. cond_buffer' = rest \o <<a>>
      BY <1>4, <1>6, <2>1
    <2>3. cond_buffer' \in Seq(Ops) /\ Len(cond_buffer') = Len(rest) + 1
      BY <1>2, <2>1, <2>2
    <2>4. \A i \in Ops : opin_ready(i) <=> a = i
      BY <2>1 DEF opin_ready
    <2>5. ASSUME NEW i \in Ops
          PROVE  Cardinality(Entries(i)') = Cardinality(Entries(i)) - Bit(Leaves(i)) + Bit(opin_ready(i))
      <3>1. Cardinality(Occurs(rest \o <<a>>, i)) = Cardinality(Occurs(rest, i)) + Bit(a = i)
        BY <1>2, <2>1, OccursAppend
      <3>2. Entries(i)' = Occurs(rest \o <<a>>, i)
        BY <2>2 DEF Entries, Occurs
      <3> QED
        BY <1>3, <2>4, <3>1, <3>2 DEF Bit
    <2> QED
      BY <1>2, <1>6, <2>3, <2>5 DEF Bit
  <1> QED
    BY <1>5, <1>6

\* A result enters its output buffer as it leaves the unit, and leaves it when
\* the credit goes back.
LEMMA OutStep ==
  ASSUME IInv, OutBufferUpdate, ~rst, NEW i \in Ops
  PROVE  /\ out_buffer'[i] \in Seq(Data)
         /\ Len(out_buffer'[i]) = Len(out_buffer[i]) + Bit(Leaves(i)) - Bit(credit_return(i))
  <1> DEFINE content == out_buffer[i] \o Transfer(branch_out(i), out_buffer_ready(i))
  <1>1. out_buffer[i] \in Seq(Data) /\ Len(out_buffer[i]) \in Nat
    BY DEF IInv, TypeOK
  <1>2. /\ Valid(unit_out) => cond_buffer # <<>>
        /\ Valid(branch_out(i)) => out_buffer_ready(i)
    BY Room
  <1>3. /\ Valid(branch_out(i)) <=> Leaves(i)
        /\ Leaves(i) => branch_out(i) \in Data
    <2>1. unit_out \in Wire
      BY SharingAssumption DEF IInv, TypeOK, unit_out
    <2> QED
      BY <1>2, <2>1 DEF branch_out, Leaves, Valid, Wire
  <1>4. content \in Seq(Data) /\ Len(content) = Len(out_buffer[i]) + Bit(Leaves(i))
    <2>1. CASE Leaves(i)
      <3>1. content = out_buffer[i] \o <<branch_out(i)>>
        BY <1>2, <1>3, <2>1 DEF Transfer
      <3> QED
        BY <1>1, <1>3, <2>1, <3>1 DEF Bit
    <2>2. CASE ~Leaves(i)
      <3>1. content = out_buffer[i]
        <4>1. Transfer(branch_out(i), out_buffer_ready(i)) = <<>>
          BY <1>3, <2>2 DEF Transfer
        <4>2. out_buffer[i] \o <<>> = out_buffer[i]
          BY <1>1
        <4> QED
          BY <4>1, <4>2
      <3> QED
        BY <1>1, <2>2, <3>1 DEF Bit
    <2> QED
      BY <2>1, <2>2
  <1>5. out_buffer'[i] = IF content # <<>> /\ fork_ready(i) THEN Tail(content) ELSE content
    BY DEF OutBufferUpdate
  <1> HIDE DEF content
  <1>6. Valid(out_buffer_out(i)) <=> content # <<>>
    <2>1. CASE out_buffer[i] = <<>>
      <3>1. content # <<>> <=> Leaves(i)
        BY <1>1, <1>4, <2>1, EmptySeq DEF Bit
      <3> QED
        BY <1>3, <2>1, <3>1 DEF out_buffer_out
    <2>2. CASE out_buffer[i] # <<>>
      <3>1. Head(out_buffer[i]) \in Data /\ Len(out_buffer[i]) # 0
        BY <1>1, <2>2, EmptySeq, HeadTailProperties
      <3>a. Len(content) # 0
        <4>1. Bit(Leaves(i)) \in Nat
          BY DEF Bit
        <4> QED
          BY <1>1, <1>4, <3>1, <4>1
      <3>2. content # <<>>
        BY <3>a, EmptySeq
      <3> QED
        BY <2>2, <3>1, <3>2, ChannelAssumption DEF out_buffer_out, Valid
    <2> QED
      BY <2>1, <2>2
  <1>7. credit_return(i) <=> content # <<>> /\ fork_ready(i)
    BY <1>6 DEF credit_return
  <1>8. CASE credit_return(i)
    <2>1. out_buffer'[i] = Tail(content) /\ content # <<>>
      BY <1>5, <1>7, <1>8
    <2>2. Tail(content) \in Seq(Data) /\ Len(Tail(content)) = Len(content) - 1
      BY <1>4, <2>1, HeadTailProperties
    <2>3. Bit(credit_return(i)) = 1 /\ Bit(Leaves(i)) \in Int
      BY <1>8 DEF Bit
    <2>4. Len(out_buffer'[i]) = Len(content) - 1
      BY <2>1, <2>2
    <2>5. out_buffer'[i] \in Seq(Data)
      BY <2>1, <2>2
    <2> QED
      BY <1>1, <1>4, <2>3, <2>4, <2>5
  <1>9. CASE ~credit_return(i)
    <2>1. out_buffer'[i] = content
      BY <1>5, <1>7, <1>9
    <2>2. Bit(credit_return(i)) = 0 /\ Bit(Leaves(i)) \in Int
      BY <1>9 DEF Bit
    <2> QED
      BY <1>1, <1>4, <2>1, <2>2
  <1> QED
    BY <1>8, <1>9

\* The credits follow.
LEMMA CreditStep ==
  ASSUME IInv, CreditUpdate, ~rst, NEW i \in Ops
  PROVE  /\ counter_reg'[i] = counter_reg[i] + Bit(credit_return(i)) - Bit(opin_ready(i))
         /\ counter_reg'[i] \in Nat
  <1>1. counter_reg[i] \in Nat
    BY DEF IInv, TypeOK
  <1>2. opin_ready(i) => counter_reg[i] > 0
    BY DEF opin_ready, arbiter_out, sync_valid
  <1>3. counter_reg'[i] = counter_reg[i] + Bit(credit_return(i)) - Bit(opin_ready(i))
    BY <1>1 DEF CreditUpdate, Bit
  <1> QED
    BY <1>1, <1>2, <1>3 DEF Bit

LEMMA IInvInit == Init => IInv
  <1> SUFFICES ASSUME Init PROVE IInv
    OBVIOUS
  <1>1. TypeOK
    BY CreditsType DEF Init, TypeOK, Wire
  <1>2. \A i \in Ops : Entries(i) = {}
    BY DEF Init, Entries, Occurs
  <1>3. Stages = {}
    BY DEF Init, Stages, Valid
  <1>4. CreditInv
    <2> SUFFICES ASSUME NEW i \in Ops
                 PROVE  counter_reg[i] + Cardinality(Entries(i)) + Len(out_buffer[i]) = credits(i)
      BY DEF CreditInv
    <2>1. counter_reg[i] = credits(i) /\ Len(out_buffer[i]) = 0
      BY DEF Init
    <2>2. Cardinality(Entries(i)) = 0
      BY <1>2, FS_EmptySet
    <2> QED
      BY <2>1, <2>2, CreditsType
  <1>5. PairInv
    BY <1>3, FS_EmptySet DEF Init, PairInv
  <1> QED
    BY <1>1, <1>4, <1>5 DEF IInv

\* A reset empties everything and brings all credits home.
LEMMA ResetStep ==
  ASSUME IInv, Next, rst
  PROVE  IInv'
  <1>1. /\ counter_reg' = [i \in Ops |-> credits(i)] /\ cond_buffer' = <<>>
        /\ unit' = [s \in 1 .. latency |-> NoToken] /\ out_buffer' = [i \in Ops |-> <<>>]
    BY DEF Next, Clock, CreditUpdate, UnitUpdate, CondUpdate, OutBufferUpdate
  <1>2. TypeOK'
    BY <1>1, CreditsType DEF Next, Env, TypeOK, Wire
  <1>3. \A i \in Ops : Entries(i)' = {}
    BY <1>1 DEF Entries, Occurs
  <1>4. Stages' = {}
    BY <1>1 DEF Stages, Valid
  <1>5. CreditInv'
    <2> SUFFICES ASSUME NEW i \in Ops
                 PROVE  counter_reg'[i] + Cardinality(Entries(i)') + Len(out_buffer'[i]) = credits(i)
      BY DEF CreditInv, credits
    <2>1. counter_reg'[i] = credits(i) /\ Len(out_buffer'[i]) = 0
      BY <1>1
    <2>2. Cardinality(Entries(i)') = 0
      BY <1>3, FS_EmptySet
    <2> QED
      BY <2>1, <2>2, CreditsType
  <1>6. PairInv'
    BY <1>1, <1>4, FS_EmptySet DEF PairInv
  <1> QED
    BY <1>2, <1>5, <1>6 DEF IInv

LEMMA ClockStep ==
  ASSUME IInv, Next, ~rst
  PROVE  IInv'
  <1>1. CreditUpdate /\ UnitUpdate /\ CondUpdate /\ OutBufferUpdate
    BY DEF Next, Clock
  <1>2. TypeOK'
    <2>1. counter_reg' \in [Ops -> Nat]
      BY <1>1, CreditStep DEF CreditUpdate
    <2>2. out_buffer' \in [Ops -> Seq(Data)]
      BY <1>1, OutStep DEF OutBufferUpdate
    <2>3. cond_buffer' \in Seq(Ops)
      BY <1>1, CondStep
    <2>4. toSharedUnit \in Wire
      <3>1. CASE arbiter_out = {}
        BY <3>1 DEF toSharedUnit, Wire
      <3>2. CASE arbiter_out # {}
        BY <3>2, Granted DEF toSharedUnit, IInv, TypeOK
      <3> QED
        BY <3>1, <3>2
    <2>5. unit' \in [1 .. latency -> Wire]
      <3>1. unit' = [s \in 1 .. latency |-> IF s = 1 THEN toSharedUnit ELSE unit[s - 1]]
        BY <1>1, Room DEF UnitUpdate
      <3>2. \A s \in 1 .. latency : s # 1 => unit[s - 1] \in Wire
        BY SharingAssumption DEF IInv, TypeOK
      <3> QED
        BY <2>4, <3>1, <3>2
    <2> QED
      BY <2>1, <2>2, <2>3, <2>5 DEF TypeOK, Next, Env
  <1>3. CreditInv'
    <2> SUFFICES ASSUME NEW i \in Ops
                 PROVE  counter_reg'[i] + Cardinality(Entries(i)') + Len(out_buffer'[i]) = credits(i)
      BY DEF CreditInv, credits
    <2>1. /\ counter_reg[i] \in Nat /\ Cardinality(Entries(i)) \in Nat /\ Len(out_buffer[i]) \in Nat
          /\ counter_reg[i] + Cardinality(Entries(i)) + Len(out_buffer[i]) = credits(i)
      BY CountTypes DEF IInv, TypeOK, CreditInv
    <2>2. counter_reg'[i] = counter_reg[i] + Bit(credit_return(i)) - Bit(opin_ready(i))
      BY <1>1, CreditStep
    <2>3. Cardinality(Entries(i)') = Cardinality(Entries(i)) - Bit(Leaves(i)) + Bit(opin_ready(i))
      BY <1>1, CondStep
    <2>4. Len(out_buffer'[i]) = Len(out_buffer[i]) + Bit(Leaves(i)) - Bit(credit_return(i))
      BY <1>1, OutStep
    <2>5. Bit(credit_return(i)) \in Int /\ Bit(opin_ready(i)) \in Int /\ Bit(Leaves(i)) \in Int
      BY DEF Bit
    <2> QED
      BY <2>1, <2>2, <2>3, <2>4, <2>5
  <1>4. PairInv'
    BY <1>1, CondStep, UnitStep DEF IInv, PairInv
  <1> QED
    BY <1>2, <1>3, <1>4 DEF IInv

LEMMA IInvStep == IInv /\ [Next]_vars => IInv'
  <1> SUFFICES ASSUME IInv, [Next]_vars PROVE IInv'
    OBVIOUS
  <1>1. CASE Next
    BY <1>1, ResetStep, ClockStep
  <1>2. CASE UNCHANGED vars
    BY <1>2 DEF vars, regs, IInv, TypeOK, CreditInv, PairInv, Entries, Occurs, Stages
  <1> QED
    BY <1>1, <1>2

\* In every reachable state all credits are accounted for, and the condition
\* buffer has one entry for each token in the shared unit.
THEOREM CreditsAccounted == Spec => []IInv
  BY IInvInit, IInvStep, PTL DEF Spec

\* A granted token always finds the unit and the condition buffer ready, and a
\* result always finds room (NoOverrun): for any number of operations, any
\* occupancy and any latency, the readys left unconnected are not needed.
THEOREM SharingNeverOverruns == Spec => []NoOverrun
  <1>1. IInv => NoOverrun
    BY Room DEF NoOverrun
  <1> QED
    BY <1>1, CreditsAccounted, PTL
-----------------------------------------------------------------------------
(***************************************************************************)
(* Sharing is invisible.  The tokens of an operation are those that wait   *)
(* in its output buffer, then those in the unit that the condition buffer  *)
(* says are its own.                                                       *)
(***************************************************************************)

\* Who owns which token, one cell for each token in the unit.
Marks(tokens, owners, i) ==
  [k \in DOMAIN tokens |-> IF k \in DOMAIN owners => owners[k] = i THEN <<tokens[k]>> ELSE <<>>]

Mark(x, a, i) == IF a = i THEN <<x>> ELSE <<>>

LEMMA MarksType ==
  ASSUME NEW u \in Seq(Data), NEW c \in Seq(Ops), Len(u) = Len(c), NEW i
  PROVE  /\ Marks(u, c, i) \in Seq(Seq(Data)) /\ Len(Marks(u, c, i)) = Len(u)
         /\ \A k \in 1 .. Len(u) : Marks(u, c, i)[k] = Mark(u[k], c[k], i)
         /\ Owned(u, c, i) = FlattenSeq(Marks(u, c, i)) /\ Owned(u, c, i) \in Seq(Data)
  <1> DEFINE s == Marks(u, c, i)
  <1>1. /\ Len(u) \in Nat /\ DOMAIN u = 1 .. Len(u) /\ DOMAIN c = 1 .. Len(u)
        /\ \A k \in 1 .. Len(u) : u[k] \in Data
    OBVIOUS
  <1>2. s = [k \in 1 .. Len(u) |-> Mark(u[k], c[k], i)]
    BY <1>1 DEF Marks, Mark
  <1>3. \A k \in 1 .. Len(u) : Mark(u[k], c[k], i) \in Seq(Data)
    BY <1>1 DEF Mark
  <1> HIDE DEF s
  <1>4. s \in Seq(Seq(Data)) /\ Len(s) = Len(u)
    BY <1>1, <1>2, <1>3
  <1>5. \A k \in 1 .. Len(u) : s[k] = Mark(u[k], c[k], i)
    BY <1>2
  <1>6. Owned(u, c, i) = FlattenSeq(s)
    BY DEF Owned, Marks, s
  <1>7. FlattenSeq(s) \in Seq(Data)
    BY <1>4, FlattenType
  <1> QED
    BY <1>4, <1>5, <1>6, <1>7 DEF s

Takes(x, u, a, c, i) == Owned(<<x>> \o u, <<a>> \o c, i) = Mark(x, a, i) \o Owned(u, c, i)
Gives(x, u, a, c, i) == Owned(u \o <<x>>, c \o <<a>>, i) = Owned(u, c, i) \o Mark(x, a, i)

\* The oldest token and its entry, and the youngest and its entry.
LEMMA OwnedEnds ==
  ASSUME NEW u \in Seq(Data), NEW c \in Seq(Ops), Len(u) = Len(c),
         NEW x \in Data, NEW a \in Ops, NEW i
  PROVE  Takes(x, u, a, c, i) /\ Gives(x, u, a, c, i)
  <1> DEFINE n == Len(u)
             s == Marks(u, c, i)
             m == Mark(x, a, i)
  <1>1. /\ s \in Seq(Seq(Data)) /\ Len(s) = n /\ n \in Nat
        /\ \A k \in 1 .. n : s[k] = Mark(u[k], c[k], i)
        /\ Owned(u, c, i) = FlattenSeq(s)
    BY MarksType
  <1>2. m \in Seq(Data)
    BY DEF Mark
  <1>3. Takes(x, u, a, c, i)
    <2> DEFINE u2 == <<x>> \o u
               c2 == <<a>> \o c
               t == Marks(u2, c2, i)
               v == <<m>> \o s
    <2>1. /\ u2 \in Seq(Data) /\ Len(u2) = n + 1 /\ u2[1] = x
          /\ \A k \in 1 .. n : u2[k + 1] = u[k]
      OBVIOUS
    <2>2. /\ c2 \in Seq(Ops) /\ Len(c2) = n + 1 /\ c2[1] = a
          /\ \A k \in 1 .. n : c2[k + 1] = c[k]
      OBVIOUS
    <2> HIDE DEF u2, c2
    <2>3. /\ t \in Seq(Seq(Data)) /\ Len(t) = n + 1
          /\ \A k \in 1 .. n + 1 : t[k] = Mark(u2[k], c2[k], i)
          /\ Owned(u2, c2, i) = FlattenSeq(t)
      BY <2>1, <2>2, MarksType
    <2> HIDE DEF s, m, n, t
    <2>4. /\ v \in Seq(Seq(Data)) /\ Len(v) = Len(s) + 1 /\ v[1] = m
          /\ \A k \in 1 .. Len(s) : v[k + 1] = s[k]
      BY <1>1, <1>2
    <2> HIDE DEF v
    <2>5. ASSUME NEW k \in 1 .. n + 1 PROVE t[k] = v[k]
      <3>1. CASE k = 1
        BY <1>1, <2>1, <2>2, <2>3, <2>4, <3>1 DEF m
      <3>2. CASE k # 1
        <4>1. k - 1 \in 1 .. n /\ (k - 1) + 1 = k
          BY <1>1, <3>2
        <4>2. t[k] = Mark(u2[k], c2[k], i) /\ v[k] = s[k - 1]
          BY <1>1, <2>3, <2>4, <4>1
        <4>3. u2[k] = u[k - 1] /\ c2[k] = c[k - 1]
          BY <2>1, <2>2, <4>1
        <4> QED
          BY <1>1, <4>1, <4>2, <4>3
      <3> QED
        BY <3>1, <3>2
    <2>6. t = v
      BY <1>1, <2>3, <2>4, <2>5, SeqEqual
    <2>7. FlattenSeq(v) = m \o FlattenSeq(s)
      BY <1>1, <1>2, FlattenCons DEF v
    <2> QED
      BY <1>1, <2>3, <2>6, <2>7 DEF Takes, u2, c2, m
  <1>4. Gives(x, u, a, c, i)
    <2> DEFINE u2 == u \o <<x>>
               c2 == c \o <<a>>
               t == Marks(u2, c2, i)
               v == s \o <<m>>
    <2>1. /\ u2 \in Seq(Data) /\ Len(u2) = n + 1 /\ u2[n + 1] = x
          /\ \A k \in 1 .. n : u2[k] = u[k]
      OBVIOUS
    <2>2. /\ c2 \in Seq(Ops) /\ Len(c2) = n + 1 /\ c2[n + 1] = a
          /\ \A k \in 1 .. n : c2[k] = c[k]
      OBVIOUS
    <2> HIDE DEF u2, c2
    <2>3. /\ t \in Seq(Seq(Data)) /\ Len(t) = n + 1
          /\ \A k \in 1 .. n + 1 : t[k] = Mark(u2[k], c2[k], i)
          /\ Owned(u2, c2, i) = FlattenSeq(t)
      BY <2>1, <2>2, MarksType
    <2> HIDE DEF s, m, n, t
    <2>4. /\ v \in Seq(Seq(Data)) /\ Len(v) = Len(s) + 1 /\ v[Len(s) + 1] = m
          /\ \A k \in 1 .. Len(s) : v[k] = s[k]
      BY <1>1, <1>2
    <2> HIDE DEF v
    <2>5. ASSUME NEW k \in 1 .. n + 1 PROVE t[k] = v[k]
      <3>1. CASE k = n + 1
        <4>1. t[k] = Mark(x, a, i)
          BY <2>1, <2>2, <2>3, <3>1
        <4>2. v[k] = m
          BY <1>1, <2>4, <3>1
        <4> QED
          BY <4>1, <4>2 DEF m
      <3>2. CASE k # n + 1
        <4>1. k \in 1 .. n
          BY <1>1, <3>2
        <4> QED
          BY <1>1, <2>1, <2>2, <2>3, <2>4, <4>1
      <3> QED
        BY <3>1, <3>2
    <2>6. t = v
      BY <1>1, <2>3, <2>4, <2>5, SeqEqual
    <2>7. FlattenSeq(v) = FlattenSeq(s) \o m
      BY <1>1, <1>2, FlattenSnoc DEF v
    <2> QED
      BY <1>1, <2>3, <2>6, <2>7 DEF Gives, u2, c2, m
  <1> QED
    BY <1>3, <1>4

LEMMA OwnedEmpty ==
  ASSUME NEW i
  PROVE  Owned(<<>>, <<>>, i) = <<>>
  <1>1. Marks(<<>>, <<>>, i) = <<>>
    BY DEF Marks
  <1>2. Owned(<<>>, <<>>, i) = FlattenSeq(Marks(<<>>, <<>>, i))
    BY DEF Owned, Marks
  <1> QED
    BY <1>1, <1>2, FlattenEmpty

\* The stages of the unit, the output first.
Line(w) == [s \in 1 .. latency |-> Transfer(w[latency + 1 - s], TRUE)]

LEMMA LineType ==
  ASSUME NEW w \in [1 .. latency -> Wire]
  PROVE  /\ Line(w) \in Seq(Seq(Data)) /\ Len(Line(w)) = latency /\ Line(w) # <<>>
         /\ \A s \in 1 .. latency : Line(w)[s] = Transfer(w[latency + 1 - s], TRUE)
  <1> USE SharingAssumption
  <1> DEFINE l == Line(w)
  <1>1. \A s \in 1 .. latency : Transfer(w[latency + 1 - s], TRUE) \in Seq(Data)
    <2> TAKE s \in 1 .. latency
    <2>1. w[latency + 1 - s] \in Wire
      OBVIOUS
    <2> QED
      BY <2>1 DEF Transfer, Valid, Wire
  <1>2. \A s \in 1 .. latency : l[s] = Transfer(w[latency + 1 - s], TRUE)
    BY DEF Line
  <1>3. l \in Seq(Seq(Data)) /\ Len(l) = latency
    BY <1>1 DEF Line, Transfer, Valid
  <1> HIDE DEF l
  <1>4. l # <<>>
    BY <1>3, EmptySeq
  <1> QED
    BY <1>2, <1>3, <1>4 DEF l

\* The tokens behind the output stage.
Behind(w) == FlattenSeq(Tail(Line(w)))

LEMMA LineSplit ==
  ASSUME NEW w \in [1 .. latency -> Wire]
  PROVE  /\ FlattenSeq(Line(w)) = Transfer(w[latency], TRUE) \o Behind(w)
         /\ Behind(w) \in Seq(Data)
  <1> USE SharingAssumption
  <1> DEFINE l == Line(w)
             t == Tail(l)
  <1>0. /\ l \in Seq(Seq(Data)) /\ Len(l) = latency /\ l # <<>>
        /\ \A s \in 1 .. latency : l[s] = Transfer(w[latency + 1 - s], TRUE)
    BY LineType
  <1>1. l[1] = Transfer(w[latency + 1 - 1], TRUE)
    <2> HIDE DEF l
    <2>1. 1 \in 1 .. latency
      OBVIOUS
    <2> QED
      BY <1>0, <2>1, Zenon
  <1>2. latency + 1 - 1 = latency /\ l \in Seq(Seq(Data)) /\ l # <<>>
    BY <1>0
  <1> HIDE DEF l
  <1>3. t \in Seq(Seq(Data)) /\ l[1] \in Seq(Data) /\ l = <<l[1]>> \o t
    BY <1>2
  <1>4. FlattenSeq(<<l[1]>> \o t) = l[1] \o FlattenSeq(t)
    BY <1>3, FlattenCons
  <1>5. FlattenSeq(t) \in Seq(Data)
    BY <1>3, FlattenType
  <1>6. FlattenSeq(l) = Transfer(w[latency], TRUE) \o FlattenSeq(t)
    BY <1>1, <1>2, <1>3, <1>4
  <1> QED
    BY <1>5, <1>6 DEF l, Behind

Advance(w, x) == [s \in 1 .. latency |-> IF s = 1 THEN x ELSE w[s - 1]]

LEMMA LineShift ==
  ASSUME NEW w \in [1 .. latency -> Wire], NEW x \in Wire
  PROVE  FlattenSeq(Line(Advance(w, x))) = Behind(w) \o Transfer(x, TRUE)
  <1> USE SharingAssumption
  <1> DEFINE w2 == Advance(w, x)
             l == Line(w)
             l2 == Line(w2)
             t == Tail(l)
             c == Transfer(x, TRUE)
  <1>1. w2 \in [1 .. latency -> Wire] /\ \A s \in 1 .. latency : w2[s] = IF s = 1 THEN x ELSE w[s - 1]
    BY DEF Advance
  <1>2. /\ l \in Seq(Seq(Data)) /\ Len(l) = latency /\ l # <<>>
        /\ \A s \in 1 .. latency : l[s] = Transfer(w[latency + 1 - s], TRUE)
    BY LineType
  <1> HIDE DEF w2
  <1>3. /\ l2 \in Seq(Seq(Data)) /\ Len(l2) = latency
        /\ \A s \in 1 .. latency : l2[s] = Transfer(w2[latency + 1 - s], TRUE)
    BY <1>1, LineType
  <1> HIDE DEF l, l2
  <1>4. /\ t \in Seq(Seq(Data)) /\ Len(t) = latency - 1
        /\ \A k \in 1 .. latency - 1 : t[k] = l[k + 1]
    BY <1>2
  <1>5. c \in Seq(Data)
    BY DEF Transfer, Valid, Wire
  <1> HIDE DEF t, c
  <1>6. ASSUME NEW k \in 1 .. latency - 1 PROVE l2[k] = t[k]
    <2>1. /\ k \in 1 .. latency /\ k + 1 \in 1 .. latency /\ latency + 1 - k \in 1 .. latency
          /\ latency + 1 - k # 1 /\ (latency + 1 - k) - 1 = latency + 1 - (k + 1)
      OBVIOUS
    <2>2. w2[latency + 1 - k] = w[latency + 1 - (k + 1)]
      BY <1>1, <2>1
    <2> QED
      BY <1>2, <1>3, <1>4, <2>1, <2>2
  <1>7. l2[latency] = c
    <2>1. latency \in 1 .. latency /\ latency + 1 - latency = 1 /\ 1 \in 1 .. latency
      OBVIOUS
    <2>2. w2[latency + 1 - latency] = x
      BY <1>1, <2>1
    <2> QED
      BY <1>3, <2>1, <2>2, Zenon DEF c
  <1>8. l2 = t \o <<c>>
    <2> DEFINE v == t \o <<c>>
    <2>1. /\ v \in Seq(Seq(Data)) /\ Len(v) = Len(t) + 1 /\ v[Len(t) + 1] = c
          /\ \A k \in 1 .. Len(t) : v[k] = t[k]
      BY <1>4, <1>5
    <2>2. Len(t) + 1 = latency /\ \A k \in 1 .. latency : k = latency \/ k \in 1 .. Len(t)
      BY <1>4
    <2> HIDE DEF v
    <2>3. \A k \in 1 .. latency : v[k] = l2[k]
      <3> TAKE k \in 1 .. latency
      <3>1. CASE k = latency
        BY <1>7, <2>1, <2>2, <3>1
      <3>2. CASE k \in 1 .. Len(t)
        BY <1>4, <1>6, <2>1, <3>2
      <3> QED
        BY <2>2, <3>1, <3>2
    <2>4. v = l2
      BY <1>3, <2>1, <2>2, <2>3, SeqEqual
    <2> QED
      BY <2>4 DEF v
  <1>9. FlattenSeq(l2) = FlattenSeq(t) \o c
    BY <1>4, <1>5, <1>8, FlattenSnoc
  <1> QED
    BY <1>9 DEF l, l2, w2, t, c, Behind
-----------------------------------------------------------------------------
(* The second invariant: the condition buffer names an owner for every     *)
(* token in the unit, and an operation owns as many as it has entries.     *)

MineInv ==
  /\ Len(UnitTokens) = Len(cond_buffer)
  /\ \A i \in Ops : Len(Owned(UnitTokens, cond_buffer, i)) = Cardinality(Entries(i))

\* The result that reaches operation i's output buffer in this cycle.
Leaving(i) == Transfer(branch_out(i), out_buffer_ready(i))
Kept(i) == Owned(Behind(unit), Rest, i)

UnitFacts ==
  /\ Behind(unit) \in Seq(Data) /\ Rest \in Seq(Ops) /\ Len(Behind(unit)) = Len(Rest)
  /\ \A i \in Ops : /\ Owned(UnitTokens, cond_buffer, i) = Leaving(i) \o Kept(i)
                    /\ Leaving(i) = (IF Leaves(i) THEN <<unit_out>> ELSE <<>>)
                    /\ Leaving(i) \in Seq(Data) /\ Kept(i) \in Seq(Data)
                    /\ Leaves(i) => unit_out \in Data
                    /\ Len(Leaving(i) \o Kept(i)) = Bit(Leaves(i)) + Len(Kept(i))

\* The head of the condition buffer is the owner of the unit's output.
LEMMA UnitState == ASSUME IInv, MineInv PROVE UnitFacts
  <1>1. /\ unit \in [1 .. latency -> Wire] /\ unit_out \in Wire /\ cond_buffer \in Seq(Ops)
        /\ (Valid(unit_out) => unit_out \in Data)
    BY SharingAssumption DEF IInv, TypeOK, unit_out, Valid, Wire
  <1>2. UnitTokens = Transfer(unit_out, TRUE) \o Behind(unit) /\ Behind(unit) \in Seq(Data)
    BY <1>1, LineSplit DEF UnitTokens, Line, unit_out
  <1>3. /\ Valid(unit_out) => cond_buffer # <<>> /\ Head(cond_buffer) \in Ops
        /\ \A i \in Ops : Valid(branch_out(i)) => out_buffer_ready(i)
    BY Room
  <1>4. \A i \in Ops : Leaving(i) = IF Leaves(i) THEN <<unit_out>> ELSE <<>>
    BY <1>3 DEF Leaving, Transfer, branch_out, Leaves, Valid
  <1>5. /\ Rest \in Seq(Ops) /\ Len(Behind(unit)) = Len(Rest)
        /\ \A i \in Ops : Owned(UnitTokens, cond_buffer, i) = Leaving(i) \o Kept(i)
    <2>1. CASE ~Valid(unit_out)
      <3>1. UnitTokens = Behind(unit) /\ Rest = cond_buffer
        <4>1. Transfer(unit_out, TRUE) = <<>>
          BY <2>1 DEF Transfer
        <4>2. <<>> \o Behind(unit) = Behind(unit)
          BY <1>2, ConcatEmptySeq
        <4> QED
          BY <1>2, <2>1, <4>1, <4>2 DEF Rest
      <3>2. Len(Behind(unit)) = Len(Rest) /\ Rest \in Seq(Ops)
        BY <1>1, <3>1 DEF MineInv
      <3>3. \A i \in Ops : Kept(i) \in Seq(Data)
        BY <1>2, <3>2, MarksType DEF Kept
      <3>4. \A i \in Ops : Leaving(i) = <<>> /\ <<>> \o Kept(i) = Kept(i)
        BY <1>4, <2>1, <3>3, ConcatEmptySeq DEF Leaves
      <3> QED
        BY <3>1, <3>2, <3>4 DEF Kept
    <2>2. CASE Valid(unit_out)
      <3> DEFINE a == Head(cond_buffer)
                 x == unit_out
                 u == Behind(unit)
      <3>1. a \in Ops /\ Rest \in Seq(Ops) /\ cond_buffer = <<a>> \o Rest /\ x \in Data
        <4>1. cond_buffer \in Seq(Ops) /\ cond_buffer # <<>> /\ a \in Ops /\ Rest = Tail(cond_buffer)
          BY <1>1, <1>3, <2>2 DEF Rest
        <4>2. Tail(cond_buffer) \in Seq(Ops) /\ cond_buffer = <<Head(cond_buffer)>> \o Tail(cond_buffer)
          BY <4>1
        <4> QED
          BY <1>1, <2>2, <4>1, <4>2
      <3>2. UnitTokens = <<x>> \o u
        BY <1>2, <2>2 DEF Transfer
      <3>3. Len(u) = Len(Rest)
        <4>1. Len(<<x>> \o u) = Len(u) + 1 /\ Len(u) \in Nat
          BY <1>2, <3>1
        <4> HIDE DEF a
        <4>2. Len(<<a>> \o Rest) = Len(Rest) + 1 /\ Len(Rest) \in Nat
          BY <3>1
        <4> QED
          BY <3>1, <3>2, <4>1, <4>2 DEF MineInv
      <3>4. \A i \in Ops : Takes(x, u, a, Rest, i)
        BY <1>2, <3>1, <3>3, OwnedEnds
      <3>5. \A i \in Ops : Mark(x, a, i) = Leaving(i)
        BY <1>4, <2>2 DEF Mark, Leaves
      <3>6. ASSUME NEW i \in Ops
            PROVE  Owned(UnitTokens, cond_buffer, i) = Leaving(i) \o Kept(i)
        <4>1. Owned(<<x>> \o u, <<a>> \o Rest, i) = Mark(x, a, i) \o Owned(u, Rest, i)
          BY <3>4 DEF Takes
        <4> HIDE DEF x, u, a
        <4> QED
          BY <3>1, <3>2, <3>5, <4>1, Zenon DEF Kept, u
      <3> QED
        BY <3>1, <3>3, <3>6
    <2> QED
      BY <2>1, <2>2
  <1>6. ASSUME NEW i \in Ops
        PROVE  /\ Leaving(i) \in Seq(Data) /\ Kept(i) \in Seq(Data)
               /\ Leaves(i) => unit_out \in Data
               /\ Len(Leaving(i) \o Kept(i)) = Bit(Leaves(i)) + Len(Kept(i))
    <2>1. Kept(i) \in Seq(Data)
      BY <1>2, <1>5, MarksType DEF Kept
    <2>2. Leaves(i) => unit_out \in Data
      BY <1>1 DEF Leaves
    <2>3. Leaving(i) \in Seq(Data) /\ Len(Leaving(i)) = Bit(Leaves(i))
      <3>1. CASE Leaves(i)
        <4>1. Leaving(i) = <<unit_out>> /\ unit_out \in Data
          BY <1>4, <2>2, <3>1
        <4> QED
          BY <3>1, <4>1 DEF Bit
      <3>2. CASE ~Leaves(i)
        <4>1. Leaving(i) = <<>>
          BY <1>4, <3>2
        <4> QED
          BY <3>2, <4>1 DEF Bit
      <3> QED
        BY <3>1, <3>2
    <2>4. Len(Leaving(i) \o Kept(i)) = Len(Leaving(i)) + Len(Kept(i))
      BY <2>1, <2>3, ConcatProperties
    <2> QED
      BY <2>1, <2>2, <2>3, <2>4
  <1> QED
    BY <1>2, <1>4, <1>5, <1>6 DEF UnitFacts

\* Where a token goes in, the one operation that is granted gets it.
LEMMA UnitMove ==
  ASSUME IInv, MineInv, UnitUpdate, CondUpdate, ~rst
  PROVE  /\ Len(UnitTokens') = Len(cond_buffer')
         /\ \A i \in Ops : /\ Owned(UnitTokens', cond_buffer', i) =
                                Kept(i) \o Transfer(ins[i], opin_ready(i))
                           /\ Transfer(ins[i], opin_ready(i)) \in Seq(Data)
                           /\ Len(Kept(i) \o Transfer(ins[i], opin_ready(i))) =
                                Len(Kept(i)) + Bit(opin_ready(i))
  <1> DEFINE u == Behind(unit)
             x == toSharedUnit
  <1>1. /\ u \in Seq(Data) /\ Rest \in Seq(Ops) /\ Len(u) = Len(Rest) /\ Len(u) \in Nat
        /\ \A i \in Ops : Kept(i) = Owned(u, Rest, i) /\ Kept(i) \in Seq(Data)
    BY UnitState DEF UnitFacts, Kept
  <1>2. unit' = Advance(unit, x)
    BY Room DEF UnitUpdate, Advance
  <1>3. unit \in [1 .. latency -> Wire] /\ ins \in [Ops -> Wire]
    BY DEF IInv, TypeOK
  <1>4. CASE arbiter_out = {}
    <2>1. x = NoToken /\ x \in Wire /\ Transfer(x, TRUE) = <<>>
      BY <1>4 DEF toSharedUnit, Wire, Transfer, Valid
    <2>2. UnitTokens' = u
      <3>1. UnitTokens' = FlattenSeq(Line(unit'))
        BY DEF UnitTokens, Line
      <3>2. FlattenSeq(Line(Advance(unit, x))) = u \o Transfer(x, TRUE)
        BY <1>3, <2>1, LineShift
      <3>3. u \o <<>> = u
        BY <1>1, ConcatEmptySeq
      <3> QED
        BY <1>2, <2>1, <3>1, <3>2, <3>3
    <2>3. cond_buffer' = Rest
      <3>1. cond_buffer' = Rest \o <<>>
        BY <1>4, CondMove, Zenon
      <3> QED
        BY <1>1, <3>1, ConcatEmptySeq
    <2>4. \A i \in Ops : Transfer(ins[i], opin_ready(i)) = <<>> /\ ~opin_ready(i)
      BY <1>4 DEF opin_ready, Transfer
    <2>5. \A i \in Ops : Kept(i) \o <<>> = Kept(i) /\ <<>> \in Seq(Data) /\ Len(Kept(i)) \in Nat
      BY <1>1, ConcatEmptySeq
    <2>6. \A i \in Ops : Bit(opin_ready(i)) = 0
      BY <2>4 DEF Bit
    <2> HIDE DEF u, x
    <2>7. Len(UnitTokens') = Len(cond_buffer')
      BY <1>1, <2>2, <2>3
    <2>8. ASSUME NEW i \in Ops
          PROVE  /\ Owned(UnitTokens', cond_buffer', i) = Kept(i) \o Transfer(ins[i], opin_ready(i))
                 /\ Transfer(ins[i], opin_ready(i)) \in Seq(Data)
                 /\ Len(Kept(i) \o Transfer(ins[i], opin_ready(i))) = Len(Kept(i)) + Bit(opin_ready(i))
      <3>1. Owned(UnitTokens', cond_buffer', i) = Kept(i)
        BY <1>1, <2>2, <2>3
      <3> DEFINE k == Kept(i)
                 n == Transfer(ins[i], opin_ready(i))
      <3>2. n = <<>> /\ k \o <<>> = k /\ <<>> \in Seq(Data) /\ Len(k) \in Nat /\ Bit(opin_ready(i)) = 0
        BY <2>4, <2>5, <2>6
      <3> HIDE DEF k, n
      <3>3. k \o n = k /\ n \in Seq(Data) /\ Len(k \o n) = Len(k) + Bit(opin_ready(i))
        BY <3>2
      <3> QED
        BY <3>1, <3>3 DEF k, n
    <2> QED
      BY <2>7, <2>8
  <1>5. CASE arbiter_out # {}
    <2>1. PICK a \in Ops : /\ arbiter_out = {a} /\ (CHOOSE j \in arbiter_out : TRUE) = a
                           /\ Valid(toSharedUnit)
      BY <1>5, Granted DEF IInv
    <2>2. x = ins[a]
      BY <1>5, <2>1 DEF toSharedUnit
    <2>3. x \in Data /\ x \in Wire /\ Transfer(x, TRUE) = <<x>>
      BY <1>3, <2>1, <2>2 DEF Wire, Transfer, Valid
    <2> HIDE DEF x, u
    <2>4. UnitTokens' = u \o <<x>>
      <3>1. UnitTokens' = FlattenSeq(Line(unit'))
        BY DEF UnitTokens, Line
      <3>2. FlattenSeq(Line(Advance(unit, x))) = u \o Transfer(x, TRUE)
        BY <1>3, <2>3, LineShift DEF u
      <3> QED
        BY <1>2, <2>3, <3>1, <3>2
    <2>5. cond_buffer' = Rest \o <<a>>
      <3>1. cond_buffer' = Rest \o <<CHOOSE j \in arbiter_out : TRUE>>
        BY <1>5, CondMove, Zenon
      <3> QED
        BY <2>1, <3>1
    <2>6. Len(UnitTokens') = Len(cond_buffer')
      <3>1. Len(u \o <<x>>) = Len(u) + 1
        BY <1>1, <2>3
      <3>2. Len(Rest \o <<a>>) = Len(Rest) + 1
        BY <1>1
      <3> QED
        BY <1>1, <2>4, <2>5, <3>1, <3>2
    <2>7. ASSUME NEW i \in Ops
          PROVE  /\ Mark(x, a, i) = Transfer(ins[i], opin_ready(i))
                 /\ Mark(x, a, i) \in Seq(Data) /\ Len(Mark(x, a, i)) = Bit(opin_ready(i))
      <3>1. opin_ready(i) <=> a = i
        BY <2>1 DEF opin_ready
      <3>2. CASE a = i
        <4>1. Transfer(ins[i], opin_ready(i)) = <<x>> /\ Mark(x, a, i) = <<x>> /\ Bit(opin_ready(i)) = 1
          BY <2>1, <2>2, <3>1, <3>2 DEF Mark, Transfer, Bit, x
        <4> QED
          BY <2>3, <4>1
      <3>3. CASE a # i
        <4>1. Transfer(ins[i], opin_ready(i)) = <<>> /\ Mark(x, a, i) = <<>> /\ Bit(opin_ready(i)) = 0
          BY <3>1, <3>3 DEF Mark, Transfer, Bit
        <4> QED
          BY <4>1
      <3> QED
        BY <3>2, <3>3
    <2>8. ASSUME NEW i \in Ops
          PROVE  /\ Owned(UnitTokens', cond_buffer', i) = Kept(i) \o Transfer(ins[i], opin_ready(i))
                 /\ Transfer(ins[i], opin_ready(i)) \in Seq(Data)
                 /\ Len(Kept(i) \o Transfer(ins[i], opin_ready(i))) = Len(Kept(i)) + Bit(opin_ready(i))
      <3>1. Gives(x, u, a, Rest, i)
        BY <1>1, <2>3, OwnedEnds
      <3>2. Owned(u \o <<x>>, Rest \o <<a>>, i) = Owned(u, Rest, i) \o Mark(x, a, i)
        BY <3>1, Zenon DEF Gives
      <3>3. Owned(UnitTokens', cond_buffer', i) = Kept(i) \o Mark(x, a, i)
        BY <1>1, <2>4, <2>5, <3>2
      <3>4. Len(Kept(i) \o Mark(x, a, i)) = Len(Kept(i)) + Len(Mark(x, a, i))
        BY <1>1, <2>7, ConcatProperties
      <3> QED
        BY <2>7, <3>3, <3>4
    <2> QED
      BY <2>6, <2>8
  <1> QED
    BY <1>4, <1>5

Cleared == unit = [s \in 1 .. latency |-> NoToken] /\ cond_buffer = <<>>

LEMMA ClearedMine == Cleared => MineInv
  <1> SUFFICES ASSUME unit = [s \in 1 .. latency |-> NoToken], cond_buffer = <<>> PROVE MineInv
    BY DEF Cleared
  <1>1. UnitTokens = <<>>
    <2> DEFINE l == Line(unit)
    <2>1. unit \in [1 .. latency -> Wire]
      BY DEF Wire
    <2>2. /\ l \in Seq(Seq(Data)) /\ Len(l) = latency
          /\ \A s \in 1 .. latency : l[s] = Transfer(unit[latency + 1 - s], TRUE)
      BY <2>1, LineType
    <2>3. \A s \in 1 .. latency : unit[latency + 1 - s] = NoToken
      BY SharingAssumption
    <2>4. \A s \in 1 .. Len(l) : l[s] = <<>>
      BY <2>2, <2>3 DEF Transfer, Valid
    <2> HIDE DEF l
    <2>5. FlattenSeq(l) = <<>>
      BY <2>2, <2>4, FlattenType
    <2> QED
      BY <2>5 DEF UnitTokens, Line, l
  <1>2. \A i \in Ops : Entries(i) = {}
    BY DEF Entries, Occurs
  <1>3. \A i \in Ops : Len(Owned(UnitTokens, cond_buffer, i)) = 0
    BY <1>1, OwnedEmpty
  <1> QED
    BY <1>1, <1>2, <1>3, FS_EmptySet DEF MineInv

LEMMA ClearedMineNext == Cleared' => MineInv'
  BY ClearedMine, PTL

LEMMA MineInvInit == Init => MineInv
  BY ClearedMine DEF Init, Cleared

LEMMA MineInvStep == IInv /\ MineInv /\ [Next]_vars => MineInv'
  <1> SUFFICES ASSUME IInv, MineInv, [Next]_vars PROVE MineInv'
    OBVIOUS
  <1>1. CASE Next /\ rst
    <2>1. unit' = [s \in 1 .. latency |-> NoToken] /\ cond_buffer' = <<>>
      BY <1>1 DEF Next, Clock, UnitUpdate, CondUpdate
    <2> QED
      BY <2>1, ClearedMineNext DEF Cleared
  <1>2. CASE Next /\ ~rst
    <2>1. UnitUpdate /\ CondUpdate
      BY <1>2 DEF Next, Clock
    <2>2. Len(UnitTokens') = Len(cond_buffer')
      BY <1>2, <2>1, UnitMove
    <2>3. ASSUME NEW i \in Ops
          PROVE  Len(Owned(UnitTokens', cond_buffer', i)) = Cardinality(Entries(i)')
      <3>1. Len(Owned(UnitTokens', cond_buffer', i)) = Len(Kept(i)) + Bit(opin_ready(i))
        BY <1>2, <2>1, UnitMove
      <3>2. Cardinality(Entries(i)') = Cardinality(Entries(i)) - Bit(Leaves(i)) + Bit(opin_ready(i))
        BY <1>2, <2>1, CondStep
      <3>3. Cardinality(Entries(i)) = Bit(Leaves(i)) + Len(Kept(i)) /\ Kept(i) \in Seq(Data)
        BY UnitState DEF UnitFacts, MineInv
      <3>4. Bit(Leaves(i)) \in Int /\ Bit(opin_ready(i)) \in Int /\ Len(Kept(i)) \in Nat
        BY <3>3 DEF Bit
      <3> QED
        BY <3>1, <3>2, <3>3, <3>4
    <2> QED
      BY <2>2, <2>3 DEF MineInv, Owned, Entries
  <1>3. CASE UNCHANGED vars
    BY <1>3 DEF vars, regs, MineInv, UnitTokens, Owned, Entries, Occurs
  <1> QED
    BY <1>1, <1>2, <1>3 DEF IInv, TypeOK
-----------------------------------------------------------------------------
(* The step of an operation's own FIFO.                                    *)

\* The front of a sequence stays the front when something follows it.
LEMMA FrontOfConcat ==
  ASSUME NEW S, NEW s \in Seq(S), NEW t \in Seq(S), s # <<>>
  PROVE  s \o t # <<>> /\ Head(s \o t) = Head(s) /\ Tail(s \o t) = Tail(s) \o t
  <1>1. s \o t # <<>> /\ Head(s \o t) = Head(s)
    OBVIOUS
  <1>2. Tail(s \o t) = Tail(s) \o t
    OBVIOUS
  <1> QED
    BY <1>1, <1>2

\* What is in operation i's output buffer during a cycle.
Waiting(i) == out_buffer[i] \o Leaving(i)

LEMMA OutState ==
  ASSUME IInv, MineInv, NEW i \in Ops
  PROVE  /\ Waiting(i) \in Seq(Data) /\ out_buffer[i] \in Seq(Data)
         /\ Valid(opout(i)) <=> Waiting(i) # <<>>
         /\ Waiting(i) # <<>> => opout(i) = Head(Waiting(i))
         /\ Valid(opout(i)) => credit_ready(i)
  <1> DEFINE b == out_buffer[i]
             l == Leaving(i)
             w == Waiting(i)
  <1>1. b \in Seq(Data)
    BY DEF IInv, TypeOK
  <1>2. /\ l = (IF Leaves(i) THEN <<unit_out>> ELSE <<>>) /\ l \in Seq(Data)
        /\ Leaves(i) => unit_out \in Data
    BY UnitState DEF UnitFacts
  <1>3. (Valid(unit_out) => cond_buffer # <<>>) /\ (Valid(out_buffer_out(i)) => credit_ready(i))
    BY Room
  <1>4. branch_out(i) = IF Leaves(i) THEN unit_out ELSE NoToken
    BY <1>3 DEF branch_out, Leaves, Valid
  <1>5. w \in Seq(Data)
    BY <1>1, <1>2, ConcatProperties DEF Waiting
  <1>6. /\ Valid(out_buffer_out(i)) <=> w # <<>>
        /\ w # <<>> => out_buffer_out(i) = Head(w)
    <2>1. CASE b # <<>>
      <3>1. Head(b) \in Data /\ out_buffer_out(i) = Head(b)
        BY <1>1, <2>1 DEF out_buffer_out
      <3> HIDE DEF b, l, w
      <3>2. b \o l # <<>> /\ Head(b \o l) = Head(b)
        BY <1>1, <1>2, <2>1
      <3>3. w = b \o l
        BY DEF w, b, l, Waiting
      <3> QED
        BY <3>1, <3>2, <3>3, ChannelAssumption DEF Valid
    <2>2. CASE b = <<>>
      <3>1. out_buffer_out(i) = branch_out(i)
        BY <2>2 DEF out_buffer_out
      <3>2. w = l
        <4>1. <<>> \o l = l
          BY <1>2, ConcatEmptySeq
        <4> QED
          BY <2>2, <4>1 DEF Waiting
      <3>3. CASE Leaves(i)
        <4>1. w = <<unit_out>> /\ unit_out \in Data /\ out_buffer_out(i) = unit_out
          BY <1>2, <1>4, <3>1, <3>2, <3>3
        <4>2. <<unit_out>> # <<>> /\ Head(<<unit_out>>) = unit_out
          OBVIOUS
        <4> HIDE DEF w
        <4> QED
          BY <4>1, <4>2, ChannelAssumption DEF Valid
      <3>4. CASE ~Leaves(i)
        <4>1. w = <<>> /\ out_buffer_out(i) = NoToken
          BY <1>2, <1>4, <3>1, <3>2, <3>4
        <4> HIDE DEF w
        <4> QED
          BY <4>1 DEF Valid
      <3> QED
        BY <3>3, <3>4
    <2> QED
      BY <2>1, <2>2
  <1>7. opout(i) = out_buffer_out(i) /\ (Valid(opout(i)) => credit_ready(i))
    BY <1>3 DEF opout, Valid
  <1> QED
    BY <1>1, <1>5, <1>6, <1>7

\* The tokens of an operation: those that wait, then those the unit keeps.
Offers(i) ==
  /\ Contents(i) = Waiting(i) \o Kept(i) /\ Contents(i) \in Seq(Data)
  /\ Waiting(i) # <<>> => Contents(i) # <<>> /\ Head(Contents(i)) = Head(Waiting(i))
  /\ Len(Contents(i)) <= credits(i)
  /\ Private(i)!OffersOldest

LEMMA OffersHold ==
  ASSUME IInv, MineInv, NEW i \in Ops
  PROVE  Offers(i)
  <1> DEFINE b == out_buffer[i]
             l == Leaving(i)
             k == Kept(i)
             w == Waiting(i)
             c == Contents(i)
             t == Transfer(ins[i], opin_ready(i))
  <1>1. /\ w \in Seq(Data) /\ b \in Seq(Data)
        /\ Valid(opout(i)) <=> w # <<>>
        /\ w # <<>> => opout(i) = Head(w)
    BY OutState
  <1>2. /\ Owned(UnitTokens, cond_buffer, i) = l \o k /\ l \in Seq(Data) /\ k \in Seq(Data)
    BY UnitState DEF UnitFacts
  <1>3. c = w \o k /\ c \in Seq(Data) /\ c = b \o (l \o k)
    <2>1. c = b \o (l \o k)
      BY <1>2 DEF Contents
    <2>2. w = b \o l
      BY DEF Waiting
    <2> HIDE DEF w, c, b, l, k
    <2>3. b \o (l \o k) = (b \o l) \o k /\ (b \o l) \o k \in Seq(Data)
      <3>1. b \in Seq(Data) /\ l \in Seq(Data) /\ k \in Seq(Data)
        BY <1>1, <1>2 DEF b, l, k
      <3>2. b \o l \in Seq(Data)
        BY <3>1, ConcatProperties
      <3>3. (b \o l) \o k \in Seq(Data)
        BY <3>1, <3>2, ConcatProperties
      <3>4. b \o (l \o k) = (b \o l) \o k
        BY <3>1, ConcatAssociative
      <3> QED
        BY <3>3, <3>4
    <2> QED
      BY <2>1, <2>2, <2>3
  <1>4. t \in Seq(Data)
    BY DEF IInv, TypeOK, Wire, Transfer, Valid
  <1>5. Len(c) <= credits(i)
    <2>1. Len(b) \in Nat /\ Len(l \o k) \in Nat /\ Len(b \o (l \o k)) = Len(b) + Len(l \o k)
      <3> HIDE DEF b, l, k
      <3> QED
        BY <1>1, <1>2, ConcatProperties
    <2>2. Len(l \o k) = Cardinality(Entries(i))
      BY <1>2 DEF MineInv
    <2>3. counter_reg[i] + Cardinality(Entries(i)) + Len(b) = credits(i) /\ counter_reg[i] \in Nat
      BY DEF IInv, CreditInv, TypeOK
    <2> HIDE DEF b, l, k, c
    <2> QED
      BY <1>3, <2>1, <2>2, <2>3, CreditsType
  <1>6. Private(i)!OffersOldest <=> (Valid(opout(i)) => c \o t # <<>> /\ opout(i) = Head(c \o t))
    BY DEF Private!OffersOldest, Private!Content, Private!Valid, Private!Transfer, Valid, Transfer
  <1> HIDE DEF w, k, c, t
  <1>7. w # <<>> => c # <<>> /\ Head(c) = Head(w) /\ c \o t # <<>> /\ Head(c \o t) = Head(w)
    <2> SUFFICES ASSUME w # <<>> PROVE c # <<>> /\ Head(c) = Head(w) /\ c \o t # <<>> /\ Head(c \o t) = Head(w)
      OBVIOUS
    <2>1. w \o k # <<>> /\ Head(w \o k) = Head(w)
      BY <1>1, <1>2 DEF k
    <2>2. c # <<>> /\ Head(c) = Head(w)
      BY <1>3, <2>1
    <2>3. c \o t # <<>> /\ Head(c \o t) = Head(c)
      BY <1>3, <1>4, <2>2, FrontOfConcat DEF c, t
    <2> QED
      BY <2>2, <2>3
  <1>8. Private(i)!OffersOldest
    BY <1>1, <1>6, <1>7
  <1> QED
    BY <1>3, <1>5, <1>7, <1>8 DEF Offers, w, k, c

LEMMA OffersHoldNext ==
  ASSUME NEW i \in Ops
  PROVE  (IInv /\ MineInv)' => Offers(i)'
  <1>1. IInv /\ MineInv => Offers(i)
    BY OffersHold
  <1> QED
    BY <1>1, PTL

WaitingFacts(i) ==
  /\ Waiting(i) # <<>> => opout(i) = Head(Waiting(i))
  /\ Waiting(i) = out_buffer[i] \o Leaving(i) /\ Leaving(i) \in Seq(Data)

LEMMA WaitingNext ==
  ASSUME NEW i \in Ops
  PROVE  (IInv /\ MineInv)' => WaitingFacts(i)'
  <1>1. IInv /\ MineInv => WaitingFacts(i)
    BY OutState, UnitState DEF UnitFacts, Waiting, WaitingFacts
  <1> QED
    BY <1>1, PTL

\* The queue of an operation moves as a FIFO's does.
QueueMoves(i) ==
  Contents(i)' = IF Valid(opout(i)) /\ outs_ready[i]
                   THEN Tail(Contents(i) \o Transfer(ins[i], opin_ready(i)))
                   ELSE Contents(i) \o Transfer(ins[i], opin_ready(i))

LEMMA QueueStep ==
  ASSUME IInv, MineInv, Next, ~rst, NEW i \in Ops
  PROVE  /\ QueueMoves(i)
         /\ Valid(opout(i)) /\ ~outs_ready[i] => out_buffer'[i] = Waiting(i)
  <1> DEFINE w == Waiting(i)
             k == Kept(i)
             c == Contents(i)
             t == Transfer(ins[i], opin_ready(i))
             o == out_buffer'[i]
  <1>1. UnitUpdate /\ CondUpdate /\ OutBufferUpdate
    BY DEF Next, Clock
  <1>2. Owned(UnitTokens', cond_buffer', i) = k \o t /\ t \in Seq(Data)
    BY <1>1, UnitMove
  <1>3. Contents(i)' = o \o Owned(UnitTokens', cond_buffer', i)
    BY DEF Contents, Owned
  <1>4. o = IF w # <<>> /\ fork_ready(i) THEN Tail(w) ELSE w
    BY <1>1 DEF OutBufferUpdate, Waiting, Leaving
  <1>5. /\ w \in Seq(Data) /\ (Valid(opout(i)) <=> w # <<>>)
        /\ Valid(opout(i)) => credit_ready(i)
    BY OutState
  <1>6. o = IF Valid(opout(i)) /\ outs_ready[i] THEN Tail(w) ELSE w
    BY <1>4, <1>5 DEF fork_ready
  <1>7. k \in Seq(Data)
    BY UnitState DEF UnitFacts
  <1>8. c = w \o k
    BY OffersHold DEF Offers
  <1> HIDE DEF w, k, c, t, o
  <1>9. c \o t = w \o (k \o t) /\ k \o t \in Seq(Data)
    <2>1. (w \o k) \o t = w \o (k \o t)
      BY <1>2, <1>5, <1>7, ConcatAssociative
    <2>2. k \o t \in Seq(Data)
      BY <1>2, <1>7, ConcatProperties
    <2> QED
      BY <1>8, <2>1, <2>2
  <1>10. Contents(i)' = IF Valid(opout(i)) /\ outs_ready[i] THEN Tail(c \o t) ELSE c \o t
    <2>1. CASE Valid(opout(i)) /\ outs_ready[i]
      <3>1. w # <<>> /\ o = Tail(w)
        BY <1>5, <1>6, <2>1
      <3>2. Tail(w \o (k \o t)) = Tail(w) \o (k \o t)
        BY <1>5, <1>9, <3>1, FrontOfConcat
      <3> QED
        BY <1>2, <1>3, <1>9, <2>1, <3>1, <3>2
    <2>2. CASE ~(Valid(opout(i)) /\ outs_ready[i])
      <3>1. o = w
        BY <1>6, <2>2
      <3> QED
        BY <1>2, <1>3, <1>9, <2>2, <3>1
    <2> QED
      BY <2>1, <2>2
  <1> QED
    BY <1>6, <1>10 DEF QueueMoves, w, c, t, o

LEMMA ClockRefines ==
  ASSUME IInv, MineInv, IInv', MineInv', Next, NEW i \in Ops
  PROVE  Private(i)!Clock
  <1> DEFINE c == Contents(i)
             t == Transfer(ins[i], opin_ready(i))
  <1>1. Offers(i)'
    BY OffersHoldNext
  <1>2. Len(c)' <= credits(i) /\ (Private(i)!OffersOldest)'
    BY <1>1 DEF Offers, credits
  <1>3. c' = IF rst THEN <<>>
             ELSE IF Valid(opout(i)) /\ outs_ready[i] THEN Tail(c \o t) ELSE c \o t
    <2>1. CASE ~rst
      BY <2>1, QueueStep DEF QueueMoves
    <2>2. CASE rst
      <3>1. out_buffer'[i] = <<>> /\ cond_buffer' = <<>>
        BY <2>2 DEF Next, Clock, OutBufferUpdate, CondUpdate
      <3>2. UnitTokens' = <<>>
        BY <3>1, EmptySeq DEF MineInv
      <3> QED
        BY <2>2, <3>1, <3>2, OwnedEmpty DEF Contents, Owned
    <2> QED
      BY <2>1, <2>2
  <1>4. Valid(opout(i)) /\ ~outs_ready[i] /\ ~rst => opout(i)' = opout(i)
    <2> SUFFICES ASSUME Valid(opout(i)), ~outs_ready[i], ~rst PROVE opout(i)' = opout(i)
      OBVIOUS
    <2> DEFINE w == Waiting(i)
               l == Leaving(i)
    <2>1. out_buffer'[i] = w
      BY QueueStep
    <2>2. w \in Seq(Data) /\ w # <<>> /\ opout(i) = Head(w)
      BY OutState
    <2>3. w' = w \o l' /\ l' \in Seq(Data) /\ (w' # <<>> => opout(i)' = Head(w'))
      BY <2>1, WaitingNext DEF WaitingFacts
    <2> HIDE DEF w, l
    <2>4. w' # <<>> /\ Head(w') = Head(w)
      BY <2>2, <2>3, FrontOfConcat
    <2> QED
      BY <2>2, <2>3, <2>4
  <1>5. Valid(ins[i]) /\ ~opin_ready(i) /\ ~rst => ins'[i] = ins[i]
    BY DEF Next, Env, Holds
  <1>6. credits(i)' = credits(i)
    BY DEF credits
  <1> QED
    BY <1>2, <1>3, <1>4, <1>5, <1>6
       DEF Private!Clock, Private!Content, Private!Valid, Private!Transfer, Private!Holds, Valid, Transfer

LEMMA InitRefines ==
  ASSUME Init, NEW i \in Ops
  PROVE  Private(i)!Init
  <1>1. IInv /\ MineInv
    BY IInvInit, MineInvInit
  <1>2. Len(Contents(i)) <= credits(i) /\ Private(i)!OffersOldest
    BY <1>1, OffersHold DEF Offers
  <1>3. Contents(i) = <<>>
    <2>1. out_buffer[i] = <<>> /\ cond_buffer = <<>>
      BY DEF Init
    <2>2. UnitTokens = <<>>
      BY <1>1, <2>1, EmptySeq DEF MineInv
    <2> QED
      BY <2>1, <2>2, OwnedEmpty DEF Contents
  <1> QED
    BY <1>2, <1>3 DEF Private!Init

\* In every reachable state the condition buffer names the owner of every
\* token in the shared unit, and an operation owns as many of them as it has
\* entries.
THEOREM OwnersKnown == Spec => []MineInv
  BY CreditsAccounted, MineInvInit, MineInvStep, PTL DEF Spec

\* Sharing is invisible (PrivateUnits): for any number of operations, any
\* occupancy and any latency, each operation sees a lossless FIFO of its own,
\* with room for as many tokens as it has credits, whatever the others do.
THEOREM SharingIsInvisible == Spec => PrivateUnits
  <1> DEFINE Step == \A i \in Ops : [Private(i)!Clock]_(Private(i)!vars)
             Start == \A i \in Ops : Private(i)!Init
  <1>1. Init => Start
    BY InitRefines
  <1>2. IInv /\ MineInv /\ (IInv /\ MineInv)' /\ [Next]_vars => [Step]_vars
    BY ClockRefines
  <1>3. PrivateUnits <=> Start /\ [][Step]_vars
    BY DEF PrivateUnits
  <1> HIDE DEF Step, Start
  <1> QED
    BY <1>1, <1>2, <1>3, CreditsAccounted, OwnersKnown, PTL DEF Spec
=============================================================================
