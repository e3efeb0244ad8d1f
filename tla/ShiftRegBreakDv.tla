-------------------------- MODULE ShiftRegBreakDv --------------------------
(***************************************************************************)
(* shift_reg_break_dv: NUM_SLOTS registers that shift together.  All slots *)
(* share one handshake, so bubbles are carried along and the register      *)
(* stalls as a whole while its last slot is not taken.  The valid bits are *)
(* reset; the data slots are not.                                          *)
(***************************************************************************)
EXTENDS Channel, Naturals, Sequences, SequencesExt

CONSTANT NUM_SLOTS

VARIABLES valid_reg, Memory, ins, outs_ready, rst

Slots == 0 .. NUM_SLOTS - 1

outs == IF valid_reg[NUM_SLOTS - 1] THEN Memory[NUM_SLOTS - 1] ELSE NoToken
regEn == ~Valid(outs) \/ outs_ready
ins_ready == regEn

\* The inner, dataless unit.
Control ==
  valid_reg' =
    CASE rst -> [i \in Slots |-> FALSE]
      [] ~rst /\ regEn ->
           [i \in Slots |-> IF i = 0 THEN Valid(ins) ELSE valid_reg[i - 1]]
      [] OTHER -> valid_reg

\* The data slots.  The bus may carry anything while the input is not valid.
ShiftData(bus) ==
  Memory' = [i \in Slots |-> IF i = 0 THEN bus ELSE Memory[i - 1]]

DataUpdate ==
  IF regEn THEN \E bus \in Data : (Valid(ins) => bus = ins) /\ ShiftData(bus)
           ELSE Memory' = Memory

Clock == Control /\ DataUpdate

InitRegs ==
  /\ valid_reg = [i \in Slots |-> FALSE]
  /\ Memory \in [Slots -> Data]

\* The tokens in flight, the oldest at the output.
Stored(i) == IF valid_reg[i] THEN <<Memory[i]>> ELSE <<>>
Contents == FlattenSeq([k \in 1 .. NUM_SLOTS |-> Stored(NUM_SLOTS - k)])
=============================================================================
