-------------------------- MODULE OneSlotBreakDvr --------------------------
(* one_slot_break_dvr: one register that breaks data, valid and ready; the *)
(* ready it shows is a register of its own, one cycle behind the slot.     *)
EXTENDS Channel

VARIABLES outputValid, inputReady, dataReg, ins, outs_ready, rst

enable == Valid(ins) /\ inputReady
stop == outputValid /\ ~outs_ready
ins_ready == inputReady
outs == IF outputValid THEN dataReg ELSE NoToken

\* Mutant: the registered ready, once low, stays low.
Control_StuckReady ==
  /\ inputReady' = (rst \/ (inputReady /\ ~stop /\ ~enable))
  /\ outputValid' = (~rst /\ (enable \/ stop))

\* The inner, dataless unit and the data process around it.
Control ==
  /\ inputReady' = (rst \/ (~stop /\ ~enable))
  /\ outputValid' = (~rst /\ (enable \/ stop))

DataUpdate ==
  dataReg' = CASE rst -> Zero
               [] ~rst /\ enable -> ins
               [] OTHER -> dataReg

Clock == Control /\ DataUpdate

InitRegs == inputReady = TRUE /\ outputValid = FALSE /\ dataReg = Zero

Contents == IF outputValid THEN <<dataReg>> ELSE <<>>
=============================================================================
