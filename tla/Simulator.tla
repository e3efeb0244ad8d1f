------------------------------ MODULE Simulator -----------------------------
(***************************************************************************)
(* The Handshake simulator.  Every channel has an old state, which the     *)
(* execution models read, and a new one, which they write: its producer    *)
(* writes valid and data, its consumer ready, so the order in which the    *)
(* models are executed does not matter and one step executes them all.     *)
(* Within a clock cycle the models are executed until no channel changes,  *)
(* the first time on the rising edge.                                      *)
(*                                                                         *)
(* A circuit has units [kind, ins, outs, par], where par is what the kind  *)
(* needs: a constant's value, a width, an operation.                       *)
(***************************************************************************)
EXTENDS ExecutionModels

CONSTANTS Circuits,      \* the circuits simulated, with what their arguments carry
          Width,         \* of a data channel
          CyclesLimit

ASSUME SimulatorAssumption == Width \in Nat \ {0} /\ CyclesLimit \in Nat \ {0}

VARIABLES circuit,       \* the one that is simulated, and the ends of its channels
          old, new,      \* the states of the channels
          models,        \* what the models came to when they were last executed
          phase, isClock, iterNum, eqStateCount,
          result,        \* resValid and resData
          lastCycle      \* history: the channels when the last cycle had settled

vars == <<circuit, old, new, models, phase, isClock, iterNum, eqStateCount, result, lastCycle>>
loop == <<isClock, iterNum, eqStateCount>>

\* The ends of channels, a unit and which of its results or operands, where
\* ports are those of each unit.
Ends(ports) == {<<u, k>> \in (DOMAIN ports) \X (1 .. 3) : k \in DOMAIN ports[u]}
Producers(units) ==
  LET ends == Ends([u \in DOMAIN units |-> units[u].outs])
      c(e) == units[e[1]].outs[e[2]]
  IN [ch \in {c(e) : e \in ends} |-> CHOOSE e \in ends : c(e) = ch]
Consumers(units) ==
  LET ends == Ends([u \in DOMAIN units |-> units[u].ins])
      c(e) == units[e[1]].ins[e[2]]
  IN [ch \in {c(e) : e \in ends} |-> CHOOSE e \in ends : c(e) = ch]

units == circuit.units
args == circuit.args
Units == DOMAIN units
Arguments == DOMAIN args
Channels == DOMAIN circuit.consumers
-----------------------------------------------------------------------------
(* The models.                                                             *)

\* Signed predicates read the operands as two's complement.  The two for equality
\* look at where the operands, two copies, are stored and not at what they are.
Comparison(pred, a, b) ==
  LET sign(n) == IF n >= 2^(Width - 1) THEN n - 2^Width ELSE n
  IN  CASE pred = "eq" -> FALSE
        [] pred = "ne" -> TRUE
        [] pred = "ult" -> a < b
        [] pred = "ule" -> a <= b
        [] pred = "ugt" -> a > b
        [] pred = "uge" -> a >= b
        [] pred = "slt" -> sign(a) < sign(b)
        [] pred = "sle" -> sign(a) <= sign(b)
        [] pred = "sgt" -> sign(a) > sign(b)
        [] pred = "sge" -> sign(a) >= sign(b)

\* The result of a comparison has one bit.
Compute(op, a, b) ==
  CASE op = "addi" -> (a + b) % 2^Width
    [] op = "subi" -> (a - b) % 2^Width
    [] op = "muli" -> (a * b) % 2^Width
    [] op = "max" -> IF a > b THEN a ELSE b
    [] OTHER -> IF Comparison(op, a, b) THEN 1 ELSE 0

Latency(op) == CASE op = "muli" -> 4 [] op = "max" -> 2 [] OTHER -> 0

NotI(a) == 2^Width - 1 - a

InitRegs(unit) ==
  CASE unit.kind = "fork" -> ForkInit(Len(unit.outs))
    [] unit.kind = "control_merge" -> ControlMergeInit
    [] unit.kind \in {"merge", "mux"} -> MergeInit
    [] unit.kind = "OEHB" -> OEHBInit
    [] unit.kind = "TEHB" -> TEHBInit
    [] unit.kind = "select" -> AntitokensInit
    [] unit.kind = "binary" -> BinaryInit
    [] OTHER -> 0

\* Resetting a unit executes it off the clock with its registers cleared, save
\* that a slow operation offers its result as if it were a fast one.
Execute(u, clk, resets) ==
  LET unit == units[u]
      i == [k \in DOMAIN unit.ins |-> old[unit.ins[k]]]
      o == [k \in DOMAIN unit.outs |-> old[unit.outs[k]].ready]
      p == [k \in DOMAIN unit.outs |-> new[unit.outs[k]]]
      r == models[u].r
      value == Compute(unit.par, i[1].data, i[2].data)
  IN CASE unit.kind = "br" -> Branch(i, o)
       [] unit.kind = "cond_br" -> CondBranch(i, o)
       [] unit.kind = "constant" -> Constant(i, o, unit.par)
       [] unit.kind = "control_merge" -> ControlMerge(i, o, r, clk)
       [] unit.kind = "fork" -> Fork(i, o, r, clk)
       [] unit.kind = "lazy_fork" -> LazyFork(i, o)
       [] unit.kind = "join" -> Join(i, o)
       [] unit.kind = "merge" -> Merge(i, o, r, clk)
       [] unit.kind = "mux" -> Mux(i, o, r, clk)
       [] unit.kind = "OEHB" -> OEHB(i, o, p, r, clk)
       [] unit.kind = "TEHB" -> TEHB(i, o, r, clk)
       [] unit.kind = "sink" -> Result(<<TRUE>>, <<>>, r)
       [] unit.kind = "source" -> Result(<<>>, <<Token(TRUE, 0)>>, r)
       [] unit.kind = "end" -> Result(<<i[1].valid>>, <<>>, r)
       [] unit.kind = "trunci" -> TruncI(i, o, unit.par)
       [] unit.kind = "noti" -> Unary(i, o, NotI(i[1].data))
       [] unit.kind = "select" -> Select(i, o, r, clk)
       [] unit.kind = "binary" ->
            IF Latency(unit.par) = 0 \/ resets
              THEN [Binary(i, o, value) EXCEPT !.r = r]
              ELSE SlowBinary(i, o, p, r, clk, Latency(unit.par), value)

\* The end of the circuit: it gives the result, and that it is there.
Output == units[CHOOSE u \in Units : units[u].kind = "end"].ins[1]

Pass(clk, resets) ==
  LET writer(c) == circuit.producers[c]
      reader(c) == circuit.consumers[c]
      written(c) == IF c \in Arguments THEN new[c] ELSE models'[writer(c)[1]].outs[writer(c)[2]]
  IN /\ models' = [u \in Units |-> Execute(u, clk, resets)]
     /\ new' = [c \in Channels |-> [valid |-> written(c).valid, data |-> written(c).data,
                                    ready |-> models'[reader(c)[1]].ready[reader(c)[2]]]]
     /\ result' = [valid |-> old[Output].valid, data |-> old[Output].data]
-----------------------------------------------------------------------------
(* The simulator.                                                          *)

\* Simulator::reset: until nothing changes.
Reset ==
  /\ phase = "reset"
  /\ Pass(FALSE, TRUE)
  /\ old' = new'
  /\ phase' = IF new' = old THEN "loaded" ELSE "reset"
  /\ UNCHANGED <<circuit, loop, lastCycle>>

\* Simulator::simulate: the arguments are all offered ...
Offer ==
  /\ phase = "loaded"
  /\ new' = [c \in Channels |-> IF c \in Arguments
                                  THEN [new[c] EXCEPT !.data = args[c], !.valid = TRUE]
                                  ELSE new[c]]
  /\ old' = new'
  /\ phase' = "exec" /\ isClock' = TRUE /\ iterNum' = 1 /\ eqStateCount' = 0
  /\ UNCHANGED <<circuit, models, result, lastCycle>>

\* Mutant: only valid is looked at for a change.
Exec_ValidOnly ==
  /\ phase = "exec"
  /\ Pass(isClock, FALSE)
  /\ IF \A c \in Channels : new'[c].valid = old[c].valid
       THEN phase' = "settled" /\ old' = new' /\ UNCHANGED isClock
       ELSE old' = new' /\ isClock' = FALSE /\ UNCHANGED phase
  /\ UNCHANGED <<circuit, iterNum, eqStateCount, lastCycle>>

\* ... and the models are executed until nothing changes.
Exec ==
  /\ phase = "exec"
  /\ Pass(isClock, FALSE)
  /\ IF new' = old THEN phase' = "settled" /\ UNCHANGED <<old, isClock>>
                   ELSE old' = new' /\ isClock' = FALSE /\ UNCHANGED phase
  /\ UNCHANGED <<circuit, iterNum, eqStateCount, lastCycle>>

\* resetValid: a token taken is not offered any longer.
Taken(channels) ==
  /\ new' = [c \in Channels |-> IF c \in channels /\ new[c].ready
                                  THEN [new[c] EXCEPT !.valid = FALSE] ELSE new[c]]
  /\ old' = [c \in Channels |-> IF c \in channels THEN new'[c] ELSE old[c]]

Finish ==
  /\ phase = "settled" /\ old[Output].valid
  /\ Taken(Channels)
  /\ phase' = "result"
  /\ UNCHANGED <<circuit, models, loop, result, lastCycle>>

\* No channel has changed since the last execution, or it would not have been
\* the last: every cycle counts as one without a change.
GiveUp ==
  /\ phase = "settled" /\ ~old[Output].valid
  /\ old = new /\ eqStateCount + 1 >= CyclesLimit
  /\ eqStateCount' = eqStateCount + 1
  /\ phase' = "limit"
  /\ UNCHANGED <<circuit, old, new, models, isClock, iterNum, result, lastCycle>>

NextCycle ==
  /\ phase = "settled" /\ ~old[Output].valid
  /\ eqStateCount' = IF old = new THEN eqStateCount + 1 ELSE 0
  /\ eqStateCount' < CyclesLimit
  /\ Taken(Arguments)
  /\ phase' = "exec" /\ isClock' = TRUE /\ iterNum' = iterNum + 1
  /\ lastCycle' = new
  /\ UNCHANGED <<circuit, models, result>>

Idle == [valid |-> FALSE, ready |-> FALSE, data |-> 0]

Init ==
  /\ \E id \in DOMAIN Circuits :
       LET c == Circuits[id]
       IN circuit = [id |-> id, units |-> c.units, args |-> c.args,
                     producers |-> Producers(c.units), consumers |-> Consumers(c.units)]
  /\ old = [ch \in Channels |-> Idle] /\ new = [ch \in Channels |-> Idle]
  /\ models = [u \in Units |-> Result(<<>>, <<>>, InitRegs(units[u]))]
  /\ phase = "reset" /\ isClock = FALSE /\ iterNum = 0 /\ eqStateCount = 0
  /\ result = [valid |-> FALSE, data |-> 0] /\ lastCycle = new

Done == phase \in {"result", "limit"} /\ UNCHANGED vars
Step == Reset \/ Offer \/ Exec \/ Finish \/ GiveUp \/ NextCycle
Next == Step \/ Done

Spec == Init /\ [][Next]_vars /\ WF_vars(Step)
-----------------------------------------------------------------------------
\* When the channels have stopped changing, the circuit has settled: executing
\* the models again changes nothing, though some of them remember more than
\* the channels show.
Settled ==
  phase = "settled" =>
    \A u \in Units : LET again == Execute(u, FALSE, FALSE)
                     IN again.outs = models[u].outs /\ again.ready = models[u].ready

\* A token that is offered and not taken stays, unchanged, until it is (a lazy
\* fork excepted, which only offers what all its results are ready for).
TokensStay ==
  phase = "settled" =>
    \A c \in Channels :
      /\ c \in Arguments \/ units[circuit.producers[c][1]].kind # "lazy_fork"
      /\ lastCycle[c].valid /\ ~lastCycle[c].ready
      => new[c].valid /\ new[c].data = lastCycle[c].data
=============================================================================
