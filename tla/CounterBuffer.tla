--------------------------- MODULE CounterBuffer ---------------------------
(***************************************************************************)
(* counter_buffer: one slot that shows its token DV_LATENCY cycles after   *)
(* it was accepted, counted by delayCnt, and can be refilled in the cycle  *)
(* in which it is emptied.                                                 *)
(***************************************************************************)
EXTENDS Channel, Naturals

CONSTANT DV_LATENCY

VARIABLES occupied, delayCnt, outsReg, ins, outs_ready, rst

\* Mutant: done is a pulse one count early, missed by a stalled consumer.
done_Pulse == occupied /\ delayCnt = 1

done == occupied /\ delayCnt = 0
ins_ready == ~occupied \/ (done /\ outs_ready)
outs == IF done THEN outsReg ELSE NoToken

Load == Valid(ins) /\ ins_ready

\* The inner, dataless unit and the data process around it.
Control ==
  /\ occupied' = CASE rst -> FALSE
                   [] ~rst /\ ~occupied -> Valid(ins)
                   [] ~rst /\ done /\ outs_ready -> Valid(ins)
                   [] OTHER -> occupied
  /\ delayCnt' = CASE rst -> 0
                   [] ~rst /\ Load -> DV_LATENCY - 1
                   [] ~rst /\ occupied /\ delayCnt > 0 -> delayCnt - 1
                   [] OTHER -> delayCnt

DataUpdate ==
  outsReg' = CASE rst -> Zero
               [] ~rst /\ Load -> ins
               [] OTHER -> outsReg

Clock == Control /\ DataUpdate

InitRegs == occupied = FALSE /\ delayCnt = 0 /\ outsReg = Zero

Contents == IF occupied THEN <<outsReg>> ELSE <<>>
=============================================================================
