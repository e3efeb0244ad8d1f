--------------------------- MODULE OneSlotBreakR ---------------------------
(* one_slot_break_r: a bypass with one register that breaks the ready path; *)
(* the register catches the token the consumer did not take.               *)
EXTENDS Channel

VARIABLES fullReg, dataReg, ins, outs_ready, rst

outputValid == Valid(ins) \/ fullReg
ins_ready == ~fullReg
outs == IF fullReg THEN dataReg ELSE ins

fullReg_next == ~rst /\ outputValid /\ ~outs_ready
\* Mutant: the register is overwritten while it holds a token.
dataReg_next_Overwrites == CASE rst -> Zero
                             [] ~rst /\ Valid(ins) /\ ~outs_ready -> ins
                             [] OTHER -> dataReg

dataReg_next == CASE rst -> Zero
                  [] ~rst /\ ins_ready /\ Valid(ins) /\ ~outs_ready -> ins
                  [] OTHER -> dataReg

\* The token the slot keeps, for a circuit that looks at no more of it.
slot_next == IF fullReg_next THEN dataReg_next ELSE NoToken

Control == fullReg' = fullReg_next
DataUpdate == dataReg' = dataReg_next

Clock == Control /\ DataUpdate

InitRegs == fullReg = FALSE /\ dataReg = Zero

Contents == IF fullReg THEN <<dataReg>> ELSE <<>>
=============================================================================
