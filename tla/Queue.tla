------------------------------- MODULE Queue -------------------------------
(***************************************************************************)
(* handshake.queue: the circular FIFO that publishes how full it is.  A    *)
(* Count register replaces the flags, `ready` does not look at the         *)
(* consumer, and a reset loads initial tokens.  Memory is not reset beyond *)
(* the initial tokens.                                                     *)
(***************************************************************************)
EXTENDS Channel, Naturals, Sequences

CONSTANT NUM_SLOTS

VARIABLES head, tail, Count, Memory,
          initial,                 \* the initial tokens of the instance
          ins, outs_ready, rst

Slots == 0 .. NUM_SLOTS - 1

Empty == Count = 0
Full == Count = NUM_SLOTS
ins_ready == ~Full
ReadEn == outs_ready /\ ~Empty
WriteEn == Valid(ins) /\ ~Full
outs == IF Empty THEN NoToken ELSE Memory[head]
outs_size == Count
ins_space == NUM_SLOTS - Count

Preload(mem) == [i \in Slots |-> IF i < Len(initial) THEN initial[i + 1] ELSE mem[i]]

Clock ==
  /\ Count' = CASE rst -> Len(initial)
                [] ~rst /\ WriteEn /\ ~ReadEn -> Count + 1
                [] ~rst /\ ReadEn /\ ~WriteEn -> Count - 1
                [] OTHER -> Count
  /\ tail' = CASE rst -> Len(initial) % NUM_SLOTS
               [] ~rst /\ WriteEn -> (tail + 1) % NUM_SLOTS
               [] OTHER -> tail
  /\ head' = CASE rst -> 0
               [] ~rst /\ ReadEn -> (head + 1) % NUM_SLOTS
               [] OTHER -> head
  /\ Memory' = CASE rst /\ initial # <<>> -> Preload(Memory)
                 [] ~(rst /\ initial # <<>>) /\ WriteEn -> [Memory EXCEPT ![tail] = ins]
                 [] OTHER -> Memory

InitRegs ==
  /\ Count = Len(initial)
  /\ tail = Len(initial) % NUM_SLOTS
  /\ head = 0
  /\ \E mem \in [Slots -> Data] : Memory = Preload(mem)

Contents == [k \in 1 .. Count |-> Memory[(head + k - 1) % NUM_SLOTS]]
=============================================================================
