---------------------------- MODULE FifoBreakDv ----------------------------
(***************************************************************************)
(* fifo_break_dv: the circular FIFO of NUM_SLOTS >= 2 slots.  Head and     *)
(* Tail chase each other modulo NUM_SLOTS; because they are equal both     *)
(* when the FIFO is empty and when it is full, two flags are kept beside   *)
(* them and updated by processes of their own.  One Clock step is one      *)
(* rising edge: every process reads the registers and the wires of the     *)
(* cycle that ends, and all registers change together.                     *)
(***************************************************************************)
EXTENDS Channel, Naturals, Sequences

CONSTANT NUM_SLOTS

VARIABLES head, tail,         \* the signals Head and Tail
          Full, Empty,
          Memory,
          ins, outs_ready, rst  \* the wires the unit reads

Slots == 0 .. NUM_SLOTS - 1

-----------------------------------------------------------------------------
(* The concurrent assignments.                                             *)

ins_ready == ~Full \/ outs_ready
ReadEn == outs_ready /\ ~Empty
WriteEn == Valid(ins) /\ (~Full \/ outs_ready)
outs == IF Empty THEN NoToken ELSE Memory[head]
-----------------------------------------------------------------------------
(* The clocked processes, one definition each.                             *)

\* Mutant: the pointer wraps one slot too late.
Successor_LateWrap(i) == (i + 1) % (NUM_SLOTS + 1)

Successor(i) == (i + 1) % NUM_SLOTS

FifoWrite ==
  Memory' = CASE rst -> [i \in Slots |-> Zero]
              [] ~rst /\ WriteEn -> [Memory EXCEPT ![tail] = ins]
              [] OTHER -> Memory

TailUpdate ==
  tail' = CASE rst -> 0
             [] ~rst /\ WriteEn -> Successor(tail)
             [] OTHER -> tail

HeadUpdate ==
  head' = CASE rst -> 0
             [] ~rst /\ ReadEn -> Successor(head)
             [] OTHER -> head

\* Mutant: a write with a simultaneous read may set the flag.
FullUpdate_IgnoresRead ==
  Full' = CASE rst -> FALSE
            [] ~rst /\ WriteEn -> (Successor(tail) = head \/ Full)
            [] ~rst /\ ~WriteEn /\ ReadEn -> FALSE
            [] OTHER -> Full

\* Only a write without a read can fill the FIFO, only a read without a write
\* makes it not full; a simultaneous read and write leaves the flag alone.
FullUpdate ==
  Full' = CASE rst -> FALSE
            [] ~rst /\ WriteEn /\ ~ReadEn -> (Successor(tail) = head \/ Full)
            [] ~rst /\ ~WriteEn /\ ReadEn -> FALSE
            [] OTHER -> Full

EmptyUpdate ==
  Empty' = CASE rst -> TRUE
             [] ~rst /\ ~WriteEn /\ ReadEn -> (Successor(head) = tail \/ Empty)
             [] ~rst /\ WriteEn /\ ~ReadEn -> FALSE
             [] OTHER -> Empty

Clock == FifoWrite /\ TailUpdate /\ HeadUpdate /\ FullUpdate /\ EmptyUpdate

InitRegs ==
  /\ head = 0 /\ tail = 0
  /\ Full = FALSE /\ Empty = TRUE
  /\ Memory = [i \in Slots |-> Zero]
-----------------------------------------------------------------------------
(* The tokens the registers stand for.                                     *)

Count == CASE Full -> NUM_SLOTS
           [] ~Full /\ head <= tail -> tail - head
           [] OTHER -> tail + NUM_SLOTS - head

Contents == [i \in 1 .. Count |-> Memory[(head + i - 1) % NUM_SLOTS]]

\* Equal pointers are told apart by exactly one of the flags, and a flag is
\* only ever up on equal pointers: FullUpdate and EmptyUpdate, two processes
\* that never look at each other's flag, stay consistent with the pointers
\* under every sequence of reads, writes, simultaneous ones and resets.
FlagsAgree ==
  /\ ~(Full /\ Empty)
  /\ Full \/ Empty <=> head = tail
=============================================================================
