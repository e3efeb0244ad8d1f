--------------------------- MODULE OneSlotBreakDv ---------------------------
(* one_slot_break_dv: one register that breaks the data and valid paths.   *)
EXTENDS Channel

VARIABLES outputValid, outsReg, ins, outs_ready, rst

ins_ready == ~outputValid \/ outs_ready
outs == IF outputValid THEN outsReg ELSE NoToken

\* The inner, dataless unit and the data process around it.
Control == outputValid' = (~rst /\ (Valid(ins) \/ (outputValid /\ ~outs_ready)))

DataUpdate ==
  outsReg' = CASE rst -> Zero
               [] ~rst /\ Valid(ins) /\ ins_ready -> ins
               [] OTHER -> outsReg

Clock == Control /\ DataUpdate

InitRegs == outputValid = FALSE /\ outsReg = Zero

Contents == IF outputValid THEN <<outsReg>> ELSE <<>>
=============================================================================
