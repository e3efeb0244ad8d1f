------------------------------ MODULE Buffers ------------------------------
(***************************************************************************)
(* Every buffer the generator can place on a channel, one at a time: the   *)
(* kind of the instance is picked initially (generate_buffer dispatches on *)
(* the buffer type, and a handshake.queue is a unit of its own) and the    *)
(* unit then runs between a producer that follows the elastic protocol and *)
(* a consumer that stalls as it likes, under resets at any time.  The      *)
(* kinds share the register variables, since only one of them exists.      *)
(***************************************************************************)
EXTENDS Channel, Naturals, Sequences

CONSTANTS NUM_SLOTS,   \* slots of the multi-slot kinds
          DV_LATENCY,  \* delay of the counter buffer
          InitTokens   \* the initial tokens a queue may be given

ASSUME BuffersAssumption ==
  /\ NUM_SLOTS \in Nat /\ NUM_SLOTS >= 2
  /\ DV_LATENCY \in Nat /\ DV_LATENCY >= 1
  /\ \A t \in InitTokens : t \in Seq(Data) /\ Len(t) <= NUM_SLOTS

VARIABLES kind, initial,                       \* fixed by the instance
          bit1, bit2, word, count,             \* registers
          head, tail, valid_reg, Memory,
          ins, outs_ready, rst                 \* wires

regs == <<bit1, bit2, word, count, head, tail, valid_reg, Memory>>
vars == <<kind, initial, regs, ins, outs_ready, rst>>

Slots == 0 .. NUM_SLOTS - 1

Kinds == {"ONE_SLOT_BREAK_DV", "ONE_SLOT_BREAK_R", "ONE_SLOT_BREAK_DVR",
          "FIFO_BREAK_DV", "FIFO_BREAK_NONE", "FIFO_BREAK_NONE_1",
          "SHIFT_REG_BREAK_DV", "COUNTER_BUFFER", "QUEUE"}

Dv == INSTANCE OneSlotBreakDv  WITH outputValid <- bit1, outsReg <- word
R == INSTANCE OneSlotBreakR   WITH fullReg <- bit1, dataReg <- word
Dvr == INSTANCE OneSlotBreakDvr WITH outputValid <- bit1, inputReady <- bit2,
                                       dataReg <- word
Fifo == INSTANCE FifoBreakDv     WITH Full <- bit1, Empty <- bit2
Shift == INSTANCE ShiftRegBreakDv
Cnt == INSTANCE CounterBuffer   WITH occupied <- bit1, delayCnt <- count,
                                       outsReg <- word
Que == INSTANCE Queue           WITH Count <- count

\* fifo_break_none around an inner fifo_break_dv, which for a single slot is
\* generated as a one_slot_break_dv.
Bypass == INSTANCE FifoBreakNone WITH fifo_out <- Fifo!outs, fifo_ready <- Fifo!ins_ready
Inner == INSTANCE FifoBreakDv   WITH Full <- bit1, Empty <- bit2, ins <- Bypass!fifo_in
Bypass1 == INSTANCE FifoBreakNone WITH fifo_out <- Dv!outs, fifo_ready <- Dv!ins_ready
Inner1 == INSTANCE OneSlotBreakDv WITH outputValid <- bit1, outsReg <- word,
                                        ins <- Bypass1!fifo_in
-----------------------------------------------------------------------------
ins_ready ==
  CASE kind = "ONE_SLOT_BREAK_DV"  -> Dv!ins_ready
    [] kind = "ONE_SLOT_BREAK_R"   -> R!ins_ready
    [] kind = "ONE_SLOT_BREAK_DVR" -> Dvr!ins_ready
    [] kind = "FIFO_BREAK_DV"      -> Fifo!ins_ready
    [] kind = "FIFO_BREAK_NONE"    -> Bypass!ins_ready
    [] kind = "FIFO_BREAK_NONE_1"  -> Bypass1!ins_ready
    [] kind = "SHIFT_REG_BREAK_DV" -> Shift!ins_ready
    [] kind = "COUNTER_BUFFER"     -> Cnt!ins_ready
    [] kind = "QUEUE"              -> Que!ins_ready

outs ==
  CASE kind = "ONE_SLOT_BREAK_DV"  -> Dv!outs
    [] kind = "ONE_SLOT_BREAK_R"   -> R!outs
    [] kind = "ONE_SLOT_BREAK_DVR" -> Dvr!outs
    [] kind = "FIFO_BREAK_DV"      -> Fifo!outs
    [] kind = "FIFO_BREAK_NONE"    -> Bypass!outs
    [] kind = "FIFO_BREAK_NONE_1"  -> Bypass1!outs
    [] kind = "SHIFT_REG_BREAK_DV" -> Shift!outs
    [] kind = "COUNTER_BUFFER"     -> Cnt!outs
    [] kind = "QUEUE"              -> Que!outs

Contents ==
  CASE kind \in {"ONE_SLOT_BREAK_DV", "FIFO_BREAK_NONE_1"} -> Dv!Contents
    [] kind = "ONE_SLOT_BREAK_R"   -> R!Contents
    [] kind = "ONE_SLOT_BREAK_DVR" -> Dvr!Contents
    [] kind \in {"FIFO_BREAK_DV", "FIFO_BREAK_NONE"} -> Fifo!Contents
    [] kind = "SHIFT_REG_BREAK_DV" -> Shift!Contents
    [] kind = "COUNTER_BUFFER"     -> Cnt!Contents
    [] kind = "QUEUE"              -> Que!Contents

Capacity ==
  IF kind \in {"FIFO_BREAK_DV", "FIFO_BREAK_NONE", "SHIFT_REG_BREAK_DV", "QUEUE"}
    THEN NUM_SLOTS ELSE 1
-----------------------------------------------------------------------------
Env ==
  /\ UNCHANGED <<kind, initial>>
  /\ ins' \in Wire
  /\ Holds(ins, ins_ready) /\ ~rst => ins' = ins
  /\ outs_ready' \in BOOLEAN
  /\ rst' \in BOOLEAN

DvStep    == kind = "ONE_SLOT_BREAK_DV" /\ Dv!Clock /\ Env
             /\ UNCHANGED <<bit2, count, head, tail, valid_reg, Memory>>
RStep     == kind = "ONE_SLOT_BREAK_R" /\ R!Clock /\ Env
             /\ UNCHANGED <<bit2, count, head, tail, valid_reg, Memory>>
DvrStep   == kind = "ONE_SLOT_BREAK_DVR" /\ Dvr!Clock /\ Env
             /\ UNCHANGED <<count, head, tail, valid_reg, Memory>>
FifoStep  == kind = "FIFO_BREAK_DV" /\ Fifo!Clock /\ Env
             /\ UNCHANGED <<word, count, valid_reg>>
NoneStep  == kind = "FIFO_BREAK_NONE" /\ Inner!Clock /\ Env
             /\ UNCHANGED <<word, count, valid_reg>>
None1Step == kind = "FIFO_BREAK_NONE_1" /\ Inner1!Clock /\ Env
             /\ UNCHANGED <<bit2, count, head, tail, valid_reg, Memory>>
ShiftStep == kind = "SHIFT_REG_BREAK_DV" /\ Shift!Clock /\ Env
             /\ UNCHANGED <<bit1, bit2, word, count, head, tail>>
CntStep   == kind = "COUNTER_BUFFER" /\ Cnt!Clock /\ Env
             /\ UNCHANGED <<bit2, head, tail, valid_reg, Memory>>
QueueStep == kind = "QUEUE" /\ Que!Clock /\ Env
             /\ UNCHANGED <<bit1, bit2, word, valid_reg>>

Next == DvStep \/ RStep \/ DvrStep \/ FifoStep \/ NoneStep \/ None1Step
        \/ ShiftStep \/ CntStep \/ QueueStep

\* The reset values of the kind; registers it does not have sit at a fixed value.
Init ==
  /\ kind \in Kinds
  /\ initial \in IF kind = "QUEUE" THEN InitTokens ELSE {<<>>}
  /\ bit1 = FALSE
  /\ bit2 = (kind \in {"ONE_SLOT_BREAK_DVR", "FIFO_BREAK_DV", "FIFO_BREAK_NONE"})
  /\ word = Zero
  /\ count = Len(initial) /\ head = 0 /\ tail = Len(initial) % NUM_SLOTS
  /\ valid_reg = [i \in Slots |-> FALSE]
  /\ IF kind \in {"QUEUE", "SHIFT_REG_BREAK_DV"} THEN Memory \in [Slots -> Data]
                                              ELSE Memory = [i \in Slots |-> Zero]
  /\ CASE kind \in {"ONE_SLOT_BREAK_DV", "FIFO_BREAK_NONE_1"} -> Dv!InitRegs
       [] kind = "ONE_SLOT_BREAK_R"   -> R!InitRegs
       [] kind = "ONE_SLOT_BREAK_DVR" -> Dvr!InitRegs
       [] kind \in {"FIFO_BREAK_DV", "FIFO_BREAK_NONE"} -> Fifo!InitRegs
       [] kind = "SHIFT_REG_BREAK_DV" -> Shift!InitRegs
       [] kind = "COUNTER_BUFFER"     -> Cnt!InitRegs
       [] kind = "QUEUE"              -> Que!InitRegs
  /\ ins \in Wire /\ outs_ready \in BOOLEAN /\ rst \in BOOLEAN

\* The clock never stops and the consumer is ready again and again.
Spec == Init /\ [][Next]_vars /\ WF_vars(Next /\ outs_ready')
-----------------------------------------------------------------------------
TypeOK ==
  /\ kind \in Kinds /\ initial \in InitTokens \cup {<<>>}
  /\ bit1 \in BOOLEAN /\ bit2 \in BOOLEAN /\ word \in Data
  /\ count \in 0 .. (NUM_SLOTS + DV_LATENCY)
  /\ head \in Slots /\ tail \in Slots
  /\ valid_reg \in [Slots -> BOOLEAN] /\ Memory \in [Slots -> Data]
  /\ ins \in Wire /\ outs_ready \in BOOLEAN /\ rst \in BOOLEAN

\* Registers that say the same thing twice never disagree, although each has an
\* update of its own: Full and Empty with the pointers, the registered ready with
\* the slot behind it, a queue's tail with its head and published count.
RegistersAgree ==
  /\ kind \in {"FIFO_BREAK_DV", "FIFO_BREAK_NONE"} => Fifo!FlagsAgree
  /\ kind = "ONE_SLOT_BREAK_DVR" => bit2 = ~bit1
  /\ kind = "QUEUE" => count <= NUM_SLOTS /\ tail = (head + count) % NUM_SLOTS

Channel_ == INSTANCE ElasticFifo
            WITH q <- Contents, capacity <- Capacity, resetTokens <- initial

\* Whatever its kind, a buffer is a lossless, order-preserving FIFO of its
\* number of slots that keeps an offered token until it is taken; data left
\* in slots that a reset does not clear is never delivered.
ImplementsElasticFifo == Channel_!Spec

\* A producer that keeps its offer up is eventually served: no buffer can get
\* stuck with its ready low.
AcceptsOffers == Channel_!Accepts

\* A token inside a buffer eventually shows at the output, bubbles, delay
\* counters and registered readys notwithstanding.
DeliversTokens == Channel_!Delivers
=============================================================================
