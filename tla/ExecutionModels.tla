--------------------------- MODULE ExecutionModels --------------------------
(***************************************************************************)
(* The execution models of the Handshake simulator, one operator for each  *)
(* kind of unit.  A model is executed on                                   *)
(*   i    what it reads of its operands, a sequence of [valid, data];      *)
(*   o    the ready of its results;                                        *)
(*   p    what it last wrote to its results, a sequence of [valid, data];  *)
(*   r    its registers and what it remembers from its last execution;     *)
(*   clk  whether this is the execution on the rising clock edge;          *)
(* and yields the ready of its operands, the valid and data of its results *)
(* and r anew.  A channel without data carries 0.                          *)
(***************************************************************************)
EXTENDS Integers, Sequences, FiniteSets

Token(valid, data) == [valid |-> valid, data |-> data]
Result(ready, outs, r) == [ready |-> ready, outs |-> outs, r |-> r]

AnyValid(i) == \E k \in DOMAIN i : i[k].valid
AllValid(i) == \A k \in DOMAIN i : i[k].valid

\* The first operand that is valid, or else the first.
FirstValid(i) ==
  IF AnyValid(i) THEN CHOOSE k \in DOMAIN i : i[k].valid /\ \A j \in 1 .. k - 1 : ~i[j].valid
            ELSE 1
-----------------------------------------------------------------------------
(* Shared parts.                                                           *)

ForkInit(n) == [transmit |-> [k \in 1 .. n |-> TRUE], backpressure |-> FALSE]

\* Mutant: an output that has its token is offered it again.
Fork_Resends(i, o, r, clk) ==
  LET keep == [k \in DOMAIN o |-> ~o[k] /\ r.transmit[k]]
      blocked == \E k \in DOMAIN o : keep[k]
  IN Result(<<~blocked>>, [k \in DOMAIN o |-> i[1]],
            [transmit |-> r.transmit, backpressure |-> i[1].valid /\ blocked])

\* Mutant: the outputs are not opened again for the next token.
Fork_StaysSent(i, o, r, clk) ==
  LET keep == [k \in DOMAIN o |-> ~o[k] /\ r.transmit[k]]
      transmit == IF clk /\ i[1].valid THEN keep ELSE r.transmit
      blocked == \E k \in DOMAIN o : keep[k]
  IN Result(<<~blocked>>,
            [k \in DOMAIN o |-> Token(transmit[k] /\ i[1].valid, i[1].data)],
            [transmit |-> transmit, backpressure |-> i[1].valid /\ blocked])

\* transmit[k]: output k still has to take the token.
Fork(i, o, r, clk) ==
  LET keep == [k \in DOMAIN o |-> ~o[k] /\ r.transmit[k]]
      transmit == IF clk THEN [k \in DOMAIN o |-> keep[k] \/ ~r.backpressure] ELSE r.transmit
      blocked == \E k \in DOMAIN o : keep[k]
  IN Result(<<~blocked>>,
            [k \in DOMAIN o |-> Token(transmit[k] /\ i[1].valid, i[1].data)],
            [transmit |-> transmit, backpressure |-> i[1].valid /\ blocked])

JoinReady(i, ready) == [k \in DOMAIN i |-> ready /\ \A j \in DOMAIN i \ {k} : i[j].valid]

OEHBInit == [outputValid |-> FALSE, regEn |-> FALSE]

OEHB(i, o, p, r, clk) ==
  LET outputValid == IF clk THEN i[1].valid \/ (r.outputValid /\ ~o[1]) ELSE r.outputValid
      ready == ~outputValid \/ o[1]
  IN Result(<<ready>>,
            <<Token(outputValid, IF clk /\ r.regEn THEN i[1].data ELSE p[1].data)>>,
            [outputValid |-> outputValid, regEn |-> ready /\ i[1].valid])

TEHBInit == [fullReg |-> FALSE, outputValid |-> FALSE, dataReg |-> 0]

\* Mutant: the data register is loaded whether or not the token passes on.
TEHB_Reloads(i, o, r, clk) ==
  LET fullReg == IF clk THEN r.outputValid /\ ~o[1] ELSE r.fullReg
      dataReg == IF clk THEN i[1].data ELSE r.dataReg
  IN Result(<<~fullReg>>,
            <<Token(i[1].valid \/ fullReg, IF fullReg THEN dataReg ELSE i[1].data)>>,
            [fullReg |-> fullReg, outputValid |-> i[1].valid \/ fullReg, dataReg |-> dataReg])

TEHB(i, o, r, clk) ==
  LET regEnable == ~r.fullReg /\ i[1].valid /\ ~o[1]
      fullReg == IF clk THEN r.outputValid /\ ~o[1] ELSE r.fullReg
      dataReg == IF clk /\ regEnable THEN i[1].data ELSE r.dataReg
  IN Result(<<~fullReg>>,
            <<Token(i[1].valid \/ fullReg, IF fullReg THEN dataReg ELSE i[1].data)>>,
            [fullReg |-> fullReg, outputValid |-> i[1].valid \/ fullReg, dataReg |-> dataReg])

AntitokensInit == [regIn |-> <<FALSE, FALSE>>, regOut |-> <<FALSE, FALSE>>,
                   kill |-> <<FALSE, FALSE>>, stopValid |-> FALSE]

\* For the true (1) and the false (2) operand of a select: a result was given
\* without the operand's token, which is to be thrown away when it comes.
Antitokens(pvalid, generate, r, clk) ==
  LET regOut == IF clk THEN r.regIn ELSE r.regOut
      pendingAt(k) == generate[k] \/ regOut[k]
  IN [regIn |-> [k \in 1 .. 2 |-> ~pvalid[k] /\ pendingAt(k)],
      regOut |-> regOut,
      kill |-> [k \in 1 .. 2 |-> pendingAt(k)],
      stopValid |-> regOut[1] \/ regOut[2]]
-----------------------------------------------------------------------------
(* Units.                                                                  *)

Branch(i, o) == Result(<<o[1]>>, <<i[1]>>, 0)

\* Operands: condition and data; results: true and false.
CondBranch(i, o) ==
  LET cond == i[1].data # 0
  IN Result(JoinReady(i, IF cond THEN o[1] ELSE o[2]),
            <<Token(cond /\ AllValid(i), i[2].data), Token(~cond /\ AllValid(i), i[2].data)>>, 0)

Constant(i, o, value) == Result(<<o[1]>>, <<Token(i[1].valid, value)>>, 0)

ControlMergeInit == [tehb |-> TEHBInit, fork |-> ForkInit(2), readyToFork |-> FALSE]

\* Results: the token and the operand it came from.
ControlMerge(i, o, r, clk) ==
  LET t == TEHB(<<Token(AnyValid(i), FirstValid(i) - 1)>>, <<r.readyToFork>>, r.tehb, clk)
      f == Fork(t.outs, o, r.fork, clk)
      index == t.outs[1].data
  IN Result([k \in DOMAIN i |-> t.ready[1]],
            <<Token(f.outs[1].valid, i[index + 1].data), Token(f.outs[2].valid, index)>>,
            [tehb |-> t.r, fork |-> f.r, readyToFork |-> f.ready[1]])

Join(i, o) == Result(JoinReady(i, o[1]), <<Token(AllValid(i), 0)>>, 0)

LazyFork(i, o) ==
  Result(<<\A k \in DOMAIN o : o[k]>>,
         [k \in DOMAIN o |-> Token(i[1].valid /\ \A j \in DOMAIN o \ {k} : o[j], i[1].data)], 0)

MergeInit == [tehb |-> TEHBInit, tehbReady |-> FALSE]

\* The ready of the operands is that of the TEHB after the last execution.
Merge(i, o, r, clk) ==
  LET t == TEHB(<<Token(AnyValid(i), i[FirstValid(i)].data)>>, o, r.tehb, clk)
  IN Result([k \in DOMAIN i |-> r.tehbReady], t.outs, [tehb |-> t.r, tehbReady |-> t.ready[1]])

\* Operands: the index, and the data.
Mux(i, o, r, clk) ==
  LET chosen(k) == k = i[1].data + 2 /\ i[1].valid /\ i[k].valid
      data == 2 .. Len(i)
      selected == \E k \in data : chosen(k)
      t == TEHB(<<Token(selected, i[IF selected THEN i[1].data + 2 ELSE 2].data)>>, o, r.tehb, clk)
  IN Result([k \in DOMAIN i |-> IF k = 1 THEN ~i[1].valid \/ (selected /\ r.tehbReady)
                                         ELSE (chosen(k) /\ r.tehbReady) \/ ~i[k].valid],
            t.outs, [tehb |-> t.r, tehbReady |-> t.ready[1]])

\* Operands: the condition, the true and the false value.
Select(i, o, r, clk) ==
  LET cond == i[1].data # 0
      chosen == IF cond THEN 2 ELSE 3
      valid == i[1].valid /\ i[chosen].valid /\ ~r.stopValid
      taken == valid /\ o[1]
  IN Result([k \in 1 .. 3 |-> ~i[k].valid \/ taken \/ (k > 1 /\ r.kill[k - 1])],
            <<Token(valid, i[chosen].data)>>,
            Antitokens([k \in 1 .. 2 |-> i[k + 1].valid],
                       [k \in 1 .. 2 |-> ~i[k + 1].valid /\ taken], r, clk))

TruncI(i, o, w) == Result(<<~i[1].valid \/ o[1]>>, <<Token(i[1].valid, i[1].data % 2^w)>>, 0)

\* In the three models that follow, value is what the operation makes of the operands.
Unary(i, o, value) == Result(<<o[1]>>, <<Token(i[1].valid, value)>>, 0)

Binary(i, o, value) == Result(JoinReady(i, o[1]), <<Token(AllValid(i), value)>>, 0)

BinaryInit == [hasData |-> FALSE, counter |-> 0, tempData |-> 0]

\* A binary operation that takes `latency` cycles: collect, wait, offer the
\* result, and start over once it is taken and no operand is there.
SlowBinary(i, o, p, r, clk, latency, value) ==
  LET collect == AllValid(i) /\ ~r.hasData
      wait == ~collect /\ r.hasData /\ r.counter < latency - 1
      offer == ~collect /\ r.hasData /\ r.counter >= latency - 1 /\ ~p[1].valid
      finish == ~AnyValid(i) /\ r.hasData /\ r.counter >= latency - 1 /\ p[1].valid /\ o[1]
  IN Result(JoinReady(i, o[1]),
       <<Token(IF ~clk THEN p[1].valid
               ELSE offer \/ (p[1].valid /\ ~collect /\ ~finish),
               IF clk /\ wait /\ r.counter = latency - 2 THEN r.tempData ELSE p[1].data)>>,
       IF ~clk THEN r
       ELSE [hasData |-> collect \/ (r.hasData /\ ~finish),
             counter |-> IF collect THEN 1 ELSE IF wait THEN r.counter + 1
                         ELSE IF finish THEN 0 ELSE r.counter,
             tempData |-> IF collect THEN value ELSE r.tempData])
=============================================================================
