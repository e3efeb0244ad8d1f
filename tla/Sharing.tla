------------------------------ MODULE Sharing ------------------------------
(***************************************************************************)
(* The sharing wrapper: the operations of a group take turns on one        *)
(* pipelined unit.  An operation needs a credit to enter, a condition      *)
(* buffer remembers who entered, and the result leaves through an output   *)
(* buffer of the operation's own; the credit comes back when the consumer  *)
(* takes the result.  Nothing on the way in looks at the unit's ready: the *)
(* credits alone must keep the unit, the condition buffer and the output   *)
(* buffers from overrunning.  One Next step is one clock edge.             *)
(*                                                                         *)
(* The buffers are modelled by what they promise (ElasticFifo).  An        *)
(* operation's operands, which the wrapper joins and never looks into,     *)
(* are one token, which also stands for the result computed from them.     *)
(***************************************************************************)
EXTENDS Channel, Integers, Sequences, SequencesExt

CONSTANTS GroupSize,   \* operations that share the unit
          Occupancy,   \* of each operation, in hundredths of a token
          latency      \* of the shared unit, rounded to cycles

ASSUME SharingAssumption ==
  /\ GroupSize \in Nat /\ GroupSize >= 2
  /\ Occupancy \in [1 .. GroupSize -> Nat]
  /\ latency \in Nat /\ latency >= 1

Ops == 1 .. GroupSize

VARIABLES counter_reg,       \* the credits each operation has left
          unit,              \* the unit's stages, the last one is its output
          cond_buffer,       \* who the tokens in the unit belong to
          out_buffer,        \* results that wait for each consumer
          ins, outs_ready, rst

regs == <<counter_reg, unit, cond_buffer, out_buffer>>
vars == <<regs, ins, outs_ready, rst>>

\* One more than the tokens the operation keeps in the unit, which hides the
\* cycle a credit needs to come back.
credits(i) == 1 - ((-Occupancy[i]) \div 100)
-----------------------------------------------------------------------------
(* The way in: sync, arbiter, mux.                                         *)

\* crush_sync: the operands and a credit.
sync_valid(i) == Valid(ins[i]) /\ counter_reg[i] > 0

\* bitscan: the least significant request, one-hot (as a set).
arbiter_out == {i \in Ops : sync_valid(i) /\ \A j \in 1 .. i - 1 : ~sync_valid(j)}
opin_ready(i) == i \in arbiter_out
toSharedUnit == IF arbiter_out = {} THEN NoToken
                ELSE ins[CHOOSE i \in arbiter_out : TRUE]
-----------------------------------------------------------------------------
(* The way out: output buffer, lazy fork, credit counter, branch.          *)

\* Mutant: output buffers of one slot, whatever the credits.
OutSlots_One(i) == 1

OutSlots(i) == credits(i)
\* Mutant: a condition buffer that leaves out the unit's output register.
CondSlots_ShortByOne == latency - 1

CondSlots == latency

unit_out == unit[latency]
credit_ready(i) == counter_reg[i] # credits(i)
\* The lazy fork hands a result to the consumer and the credit to the counter
\* in one cycle or not at all.
fork_ready(i) == outs_ready[i] /\ credit_ready(i)

\* crush_oh_branch: the unit's output goes where the condition says.
branch_out(i) ==
  IF cond_buffer # <<>> /\ Head(cond_buffer) = i THEN unit_out ELSE NoToken
out_buffer_ready(i) == Len(out_buffer[i]) < OutSlots(i) \/ fork_ready(i)
branch_ready == cond_buffer # <<>> /\ out_buffer_ready(Head(cond_buffer))
cond_ready == Valid(unit_out) /\ branch_ready

out_buffer_out(i) == IF out_buffer[i] # <<>> THEN Head(out_buffer[i]) ELSE branch_out(i)
opout(i) == IF credit_ready(i) THEN out_buffer_out(i) ELSE NoToken

\* Mutant: the credit comes back when the result leaves the unit, not when
\* the consumer has it.
credit_return_Early(i) == Valid(branch_out(i)) /\ out_buffer_ready(i)

credit_return(i) == Valid(out_buffer_out(i)) /\ fork_ready(i)
-----------------------------------------------------------------------------
(* The clocked processes.                                                  *)

\* crush_credit_dataless
CreditUpdate ==
  counter_reg' =
    [i \in Ops |->
       CASE rst -> credits(i)
         [] ~rst /\ credit_return(i) /\ ~opin_ready(i) -> counter_reg[i] + 1
         [] ~rst /\ ~credit_return(i) /\ opin_ready(i) -> counter_reg[i] - 1
         [] OTHER -> counter_reg[i]]

\* The pipelined unit stalls as a whole while its output is not taken; what
\* is offered to it meanwhile is lost.
unit_ready == ~Valid(unit_out) \/ branch_ready
UnitUpdate ==
  unit' = CASE rst -> [s \in 1 .. latency |-> NoToken]
            [] ~rst /\ unit_ready ->
                 [s \in 1 .. latency |-> IF s = 1 THEN toSharedUnit ELSE unit[s - 1]]
            [] OTHER -> unit

\* The condition buffer's ready is not connected: a full one drops the entry.
cond_ins_ready == Len(cond_buffer) < CondSlots \/ cond_ready
CondUpdate ==
  cond_buffer' =
    IF rst THEN <<>>
    ELSE (IF cond_ready THEN Tail(cond_buffer) ELSE cond_buffer)
         \o (IF arbiter_out # {} /\ cond_ins_ready
               THEN <<CHOOSE i \in arbiter_out : TRUE>> ELSE <<>>)

OutBufferUpdate ==
  out_buffer' =
    [i \in Ops |->
       LET content == out_buffer[i] \o Transfer(branch_out(i), out_buffer_ready(i))
       IN  CASE rst -> <<>>
             [] ~rst /\ content # <<>> /\ fork_ready(i) -> Tail(content)
             [] OTHER -> content]

Clock == CreditUpdate /\ UnitUpdate /\ CondUpdate /\ OutBufferUpdate
-----------------------------------------------------------------------------
(* The circuit around it: producers that follow the elastic protocol,      *)
(* consumers that may stall in any cycle, a reset at any time.             *)

Env ==
  /\ ins' \in [Ops -> Wire]
  /\ \A i \in Ops : Holds(ins[i], opin_ready(i)) /\ ~rst => ins'[i] = ins[i]
  /\ outs_ready' \in [Ops -> BOOLEAN]
  /\ rst' \in BOOLEAN

Init ==
  /\ counter_reg = [i \in Ops |-> credits(i)]
  /\ unit = [s \in 1 .. latency |-> NoToken]
  /\ cond_buffer = <<>>
  /\ out_buffer = [i \in Ops |-> <<>>]
  /\ ins \in [Ops -> Wire] /\ outs_ready \in [Ops -> BOOLEAN] /\ rst \in BOOLEAN

Next == Clock /\ Env

\* The clock never stops.
Spec == Init /\ [][Next]_vars /\ WF_vars(Next)
-----------------------------------------------------------------------------
(* What an operation is promised.                                          *)

\* The tokens in the unit, oldest first.
UnitTokens == FlattenSeq([s \in 1 .. latency |-> Transfer(unit[latency + 1 - s], TRUE)])

\* Those of operation i, by the condition buffer's entries.
Owned(tokens, owners, i) ==
  FlattenSeq([k \in DOMAIN tokens |-> IF k \in DOMAIN owners => owners[k] = i
                                        THEN <<tokens[k]>> ELSE <<>>])

\* The tokens of operation i that it has not got back yet, oldest first.
Contents(i) == out_buffer[i] \o Owned(UnitTokens, cond_buffer, i)

Private(i) == INSTANCE ElasticFifo WITH
  ins <- ins[i], ins_ready <- opin_ready(i), outs <- opout(i), outs_ready <- outs_ready[i],
  q <- Contents(i), capacity <- credits(i), resetTokens <- <<>>

\* Nobody looks at the readys of the unit and of the condition buffer when a
\* token enters (printVhdlImpl leaves them unconnected), and none has to: a
\* granted token always finds both ready, because a result always finds room
\* in its output buffer and the unit therefore never stalls.
NoOverrun ==
  /\ arbiter_out # {} => unit_ready /\ cond_ins_ready
  /\ Valid(unit_out) => branch_ready
  /\ \A i \in Ops : Valid(out_buffer_out(i)) => credit_ready(i)

\* Sharing is invisible: each operation behaves as if it had a unit of its
\* own, a lossless FIFO of as many tokens as it has credits.  A result that
\* went to the wrong operation, overtook another or vanished on the way would
\* break it, whatever the other operations and their consumers do.
PrivateUnits ==
  /\ \A i \in Ops : Private(i)!Init
  /\ [][\A i \in Ops : [Private(i)!Clock]_(Private(i)!vars)]_vars

\* No operation waits for another one's consumer: a token offered is taken
\* and a result delivered as long as the operation's own consumer keeps
\* taking results and the operations the arbiter prefers leave a gap now and
\* then.  The other consumers may stop for ever.
Independent ==
  \A i \in Ops :
    ([]<>(outs_ready[i]) /\ \A j \in 1 .. i - 1 : []<>(~sync_valid(j)))
    => /\ Valid(ins[i]) ~> (opin_ready(i) \/ rst)
       /\ Contents(i) # <<>> ~> ((Valid(opout(i)) /\ outs_ready[i]) \/ rst)
=============================================================================
