# TLA+ models of Dynamatic's elastic circuits

Dynamatic compiles C to *elastic* (dynamically scheduled) circuits: a network of
units connected by channels with a `valid`/`ready` handshake. What a generated
circuit does is fixed by the units the generators write out, and that is where most of
the program's concurrency lives: every unit is a process, every rising edge a step of
all of them, and stalls, resets and (in this repository) *kills* may come in any
cycle. The rest of it is in the tools: the Handshake simulator, which runs the same
circuits as C++ execution models, and the fuzzer, which runs the whole compiler in
many processes. Between the two stands the compiler, whose passes rewrite a circuit
and must not change what it computes. This project models parts of all three, checks
them with TLC on small instances and proves the units and the fuzzer correct for every
size with TLAPS.

The references are
- the VHDL unit generators under `src/tools/unit-generators/vhdl/generators/` (the
  Python functions whose templates are the circuits), read together with the operation
  definitions and verifiers of the Handshake dialect
  (`src/include/dynamatic/Dialect/Handshake/HandshakeOps.td`,
  `src/lib/Dialect/Handshake/HandshakeOps.cpp`), with the wiring of kill domains in
  `src/lib/Conversion/HandshakeToHW/HandshakeToHW.cpp` and with the passes that place
  shared units and memory controllers;
- `src/lib/Transforms/HandshakeOptimizeBitwidths.cpp`;
- `src/experimental/lib/Support/HandshakeSimulator.cpp`;
- `src/tools/hls-fuzzer/hls-fuzzer.cpp`.

## 1. Inventory

| Part | State it keeps | Operations | Interacts with | What is hard, what makes it correct |
|---|---|---|---|---|
| Channel buffers (`handshake/buffer.py`, `handshake/buffers/*.py`) | valid/full bits, data registers, ring pointers, Full/Empty flags, a delay counter | one rising edge: accept, deliver, both, reset | any two units | full and empty pointers are equal; registered readys; bypass next to storage; data left by a reset. A lossless FIFO of its capacity that never blocks. |
| Queue (`handshake/queue.py`) | ring and `Count`, initial tokens | as above, publishes size and space | units that size their work by the occupancy | as above, after preload |
| `race` (`handshake/race.py`) | per input seen/value, winner, has_win, emitted | accept a token, answer, reopen an input, next round | producers of tokens and flags, a sink | an answer before all inputs are in; two rounds overlapping in one cycle. One token an input and one right answer a round, as early as possible. |
| `first`, `priority` (`handshake/first.py`, `handshake/priority.py`) | seen, held winner, emitted | as `race` | stand-ins, commit | as `race` |
| Kill domains: `commit`, `stand_in`, dropping load (`handshake/commit.py`, `stand_in.py`, `load.py`) | killed; sent/owe; two slots and two 2-bit counters | decide, kill, stand in a zero, drop a word | latches and guards that the kill resets, memory controller | a kill in the cycle in which a token passes, a second kill while the first is being worked off. Losers stop, nothing dead shows, every round ends. |
| Memory controller (`support/mc_support.py`, `handshake/mem_controller.py`) | word register a port; announced minus performed stores; the start/end machine `mc_control` | grant, read, write, announce, start, end | loads, stores, an LSQ, RAM, the control network of the function | fixed priority; stores before their announcement, announcements after the end token. The end is reported once, exactly when no store is left. |
| Steering units (fork, join, merge, mux, control_merge, cond_br, ...) | one `transmit` bit a fork output, buffers inside | combinational handshakes | everything | combinations of them deadlock or reorder. The result does not depend on where buffers are. |
| Sharing wrapper (`sharing-wrapper-generator.cpp`, `sharing_support.vhd`, credits from `Crush.cpp`) | credit counters, condition buffer, output buffers | enter by fixed priority, complete, return a credit | a shared unit whose ready nobody reads | in flight + buffered + credits = slots; each operation behaves as if it had the unit to itself |
| LSQ (`src/tools/backend/lsq-generator-python/`) | load/store queues, order matrix | allocate a group, issue, bypass, commit | memory, load/store ports | order of dependent accesses |
| Speculation units (`handshake/speculation/`) | speculation state machines, save/commit ring | predict, confirm, discard, replay | the loop they speculate in | results equal the non-speculative run |
| Arithmetic units, signal managers | latency buffers | compute | - | latency of the buffers matches the cores |
| Bitwidth optimisation (`HandshakeOptimizeBitwidths.cpp`) | the circuit and its casts | some forty rewrite patterns, forward and backward in turn | the folders and canonicalisations of the dialect | sign and zero extensions combined; bounds from branch conditions; patterns that undo each other. What the circuit computes is kept, and the alternation ends. |
| Handshake simulator (`HandshakeSimulator.cpp`) | old and new state of every channel, registers of the models | execute all models until nothing changes, clock edge, result or limit | - | a model that reads what it is to write, remembered back-pressure. Cycles settle, offered tokens stay, the result is the function's. |
| Fuzzer (`hls-fuzzer.cpp`) | counters, flags, directories, report file, processes | generate, run, count, keep a reproducer, report, stop | threads, child processes, signals, file system | a signal at any time, a file operation that fails, two writers of one report. Bugs are counted once, keep their reproducer, and nothing else is counted. |
| Compiler: frontend, Cf-to-Handshake, canonicalisations, buffer placement, LSQ sizing | MLIR graphs | graph rewrites, MILP | each other, through the IR | preservation of meaning |
| Back end and tools: RTL export, SMV, HLS verifier, shell | - | text output, drivers | - | - |

`PROJECT.json` lists all of these, with the source files and the reason where a part
is not modelled, and the hazards at the lines where they bite.

## 2. How the models are built

*Clock.* In the models of circuits one step is one rising edge. The registers of a unit are
its VARIABLES; each process `if rising_edge(clk)` is a conjunct that primes them;
concurrent signal assignments are operators without primes that carry the signal's
name (`ins_ready`, `outs`, `ReadEn`, `fire`, `done_wo`, ...). The wires that come from
outside (`ins`, `outs_ready`, `rst`) are variables as well, chosen afresh at each step
by the surroundings.

*Channels* (`Channel`). Data and valid of a channel are one wire whose value is a
token of `Data` or `NoToken`. A producer follows the elastic protocol: an offer not
taken stays, with its data, in the next cycle, unless there was a reset. This is what
every unit promises at its own output and is checked of the units modelled here.

*Data.* Payloads are members of a small set, all that the properties tell apart. The
dataless variants are the same circuits over a one-element `Data`; extra signals are
part of the payload. In `race`, `first` and `priority` zero is the reserved "nothing
selected"; in the kill domain a value tells the round it belongs to.

*Reset* is modelled in every unit, in any cycle, with data registers that the code
does not reset keeping what they held. The memory controller is reset together with
the circuit it serves, and so returns to an initial state; properties that speak of
more than one cycle excuse it.

*Integers.* The pointers wrap at `NUM_SLOTS` as in the code; the counters of the
dropping load are two bits (`% 4`), the memory controller's count has `CounterBits`,
and data in the bitwidth pass and in the simulator has the width of its channel.

*Tools.* In `Simulator` a step is one execution of all models, so that the iterations
within a clock cycle can be seen; in `OptimizeBitwidths` one application of a pattern
at one place, or the change from one sweep to the next; in `Fuzzer` one access of a
thread or process to what it shares with others (a counter, a lock, a file, a process),
or the delivery of a signal.

Definitions with a suffix after an underscore and a comment starting with "Mutant"
(for example `FullUpdate_IgnoresRead`) are plausible wrong versions of the definition
they are named after. No specification uses them; `PROJECT.json` says for every
property which of them violates it.

### Modules

| Module | Models |
|---|---|
| `Channel` | wires, transfers, the elastic protocol |
| `ElasticFifo` | abstract: a FIFO of a capacity between two elastic channels, with a reset |
| `FifoBreakDv` | `fifo_break_dv.py`: ring, pointers, Full and Empty (`FlagsAgree`) |
| `OneSlotBreakDv`, `OneSlotBreakR`, `OneSlotBreakDvr`, `ShiftRegBreakDv`, `CounterBuffer`, `FifoBreakNone` | the files of these names in `handshake/buffers/` |
| `Queue` | `queue.py` |
| `Buffers` | `generate_buffer`'s dispatch: every kind in turn between a producer and a consumer |
| `Candidates` | candidate lists of a racing decision: `_decision` in `race.py` |
| `DecisionRound` | abstract: rounds of tokens and the answers they determine |
| `Race` | `race.py` in both forms (`REOPEN_AFTER_TAKEN` or not), for every list that `RaceOp::verify` admits |
| `First`, `Priority` | `first.py`, `priority.py` |
| `Commit`, `StandIn` | `commit.py`, `stand_in.py`; `StandIn!Precondition` is the generated assertion |
| `LoadKillDrop` | `_generate_load_kill_drop` of `load.py` |
| `ReadArbiter` | read priority, ready and word registers of `mc_support.py` |
| `LoadPort` | composition: a dropping load on a port of the arbiter, under arbitrary kills |
| `KillDomain` | composition: latches, loads, guards, stand-ins, `first` or `priority`, commit, wired as `wireKillDomains` does |
| `MemController` | `mem_controller.py` and `mc_support.py`: write arbiter, remaining stores, `mc_control`; the circuit around it as `getMCControl` and the conversion to Handshake build it |
| `Sharing` | the wrapper of `sharing-wrapper-generator.cpp` and its parts in `sharing_support.vhd` (`crush_sync`, bitscan arbiter, one-hot mux, credits), the pipelined unit, the credits `Crush.cpp` computes |
| `ExecutionModels` | the execution models of `HandshakeSimulator.cpp`, one operator a kind of unit |
| `Simulator` | its channels and the loops of `simulate` |
| `MinimalValues` | the helpers of the bitwidth pass: minimal values, extensions, required bits |
| `OptimizeBitwidths` | its patterns, those of the dialect it relies on, the two sweeps |
| `Fuzzer` | `hls-fuzzer.cpp`: threads, processes, signals, report, reproducers |
| `CountingLemmas` | lemmas the proofs share: least elements, induction over finite subsets and over sequences, sums over finite sets, flattened sequences |
| `BuffersProofs`, `LoadPortProofs`, `RaceProofs`, `KillDomainProofs`, `SharingProofs`, `MemControllerProofs`, `FuzzerProofs` | theorems about the modules of these names |
| `MC...` | the instances TLC checks |

Notes on the correspondence:

- `fifo_break_dv.py` 215-228 (the process on `fifo_valid`) drives a signal nothing
  reads; it is left out.
- A one-slot `fifo_break_dv` is generated as a `one_slot_break_dv`, also inside
  `fifo_break_none`: the kind `FIFO_BREAK_NONE_1` of `Buffers`.
- The memory contents do not change while loads are modelled, so a word is what its
  address says; the word register of a port is loaded in the cycle of the grant.
- Port 0 of the arbiter stands for all loads with a higher priority than those
  modelled: it asks as it likes and takes its words at once.
- `RaceOp::verify` is the assumption `WellFormed` on the constant `CandidateLists`.
- `KillDomain` assumes what the description of `handshake.commit`
  (`HandshakeOps.td` 991-1070) asks of the circuit around it: a round's arguments
  enter after the previous round's kill and no later than its own (`Promise`). A
  guard's own computation is combinational (`Body`).
- `round`, `arg` and `taken` in `KillDomain` are history: nothing in the circuit
  reads them. So are `src` in `OptimizeBitwidths`, `lastCycle` in `Simulator`, and
  `signalled`, `failures`, `found`, `unrecorded` in `Fuzzer` (`failures` also bounds the
  I/O errors).
- In `Sharing` the condition and output buffers are what `ElasticFifo` promises of
  them, which the run `buffers` shows of the kinds that are generated.
- `sharing_wrapper.py` writes the circuit of `sharing-wrapper-generator.cpp` once more,
  with `fifo_break_dv` and `fifo_break_none` for the buffers `ofifo` and `tfifo`.
- The simulator's models run in the order of the operations and write to the new
  states only; as every field of a channel has one writer, the order does not matter
  and one step executes them all.
- A program of `OptimizeBitwidths` is one operation with its casts and constants, its
  users and, for a branch, the comparisons that make its condition. Every pattern looks
  at one operation and the casts around it, so this is what a pattern can see; longer
  chains only come in as the casts they leave. A `mux` may have itself as an operand;
  the buffers, forks and branches such a cycle may run through pass the value on
  unchanged and are not told apart from the wire, and cycles through a second merge,
  mux or select are left out.
- In `Fuzzer` a program is told apart only by whether its worker is on it. What a
  target finds is a choice; a process ends by itself, by a signal, or dies in any phase,
  from its start on. A file operation may fail wherever there is one: where the code
  checks it (starting a process, recording a reproducer, reporting) the program or the
  report is lost; where it throws in a process (`remove_all`, `create_directories`) the
  process dies, and where it throws in a worker that saves a reproducer
  (`create_directory`, `copy`) the fuzzer does. `unrecorded` counts the programs whose
  reproducer could not be written, or whose process died before it was.

## 3. What the runs check

| Run | Instance | Shows |
|---|---|---|
| `buffers` | 9 kinds, 4 slots, latency 3, 2 data values, queues with 0, 1 and 4 (all) initial tokens, reset in any cycle | the registers of a kind agree with each other: flags with pointers, a registered ready with its slot, a tail with its count (`RegistersAgree`); every kind implements `ElasticFifo`, accepts every offer and delivers every token |
| `race` | 1 token and 2 flags, 3 candidate lists, both forms | `OneTokenARound`, `Prompt`, `AnswerStands`; the registers implement `DecisionRound`; every producer is served |
| `load` | 2 data values, kills and resets in any cycle | `OwedIsInFlight`: the two-bit count is the number of requests in flight; to its requester the load is a FIFO of three that a kill empties; every live request is answered |
| `kill_domain` | 2 guards, none, either or both of them loading, `first` or `priority`, kill at valid or at transfer | the assertions of `stand_in` hold; no dead word reaches a guard; one kill a decision; decisions are right and held; every round ends |
| `memory` | 2 blocks, the first storing through both ports, the second through the LSQ's; up to 3 visits of each block in a call, a 4-bit count, control tokens up to one cycle after `ctrlEnd`, a reset in any cycle | the end is reported only with nothing left (`EndIsLast`), the count is announced minus performed stores although either may come first (`RemainingExact`), a report stays until it is read or reset, every call ends |
| `sharing` | 2 operations with 3 credits and 1, a unit of 2 stages, 2 data values, stalls and resets in any cycle | nothing overruns although no ready is read (`NoOverrun`); every operation sees a FIFO of its own (`PrivateUnits`); none waits for the other's consumer (`Independent`) |
| `simulator` | width 3; a loop of one and of three iterations and a conditional expression with a four-cycle multiplication, taken both ways; up to two extra buffers among the named channels, each an OEHB or a TEHB; a circuit that is stuck | cycles settle; an offered token stays with its data; the result is that of the C function whatever the buffers; a stuck circuit runs into the limit |
| `bitwidths` | width 4, operands of 1 to 4 bits zero- or sign-extended, arithmetic, shifts, selects, muxes (with themselves as operand), forks, comparisons, branches with one or two comparisons | every rewrite keeps the values of all users; no width is illegal; the sweeps end, whichever operation is rewritten first |
| `bitwidths_bound` | as above, branches with the unsigned bound 5 | a violation, see section 6 |
| `fuzzer` | 2 workers, 2 programs, processes or `--single-process`, with and without JSON, directories left over from an earlier run, a process that dies in any phase, one I/O error elsewhere, a signal at any time | reproducers are kept of all programs that were recorded, and without an I/O error the fuzzer survives as long as all were; nothing is counted that was no bug; the total is exact; the report on disk never goes back; the run ends |
| `fuzzer_signal` | as above, without the assumption on signal order | a violation, see section 6 |
| `fuzzer_crash` | as `fuzzer` | a violation of `CrashContained`, see section 6 |

*Bounds, and why they are enough.* In the units nothing counts up: all state is
registers, so the runs are exhaustive for their instance, with executions of any
length (the memory controller is started again and again; `MaxVisits` bounds one call). Four slots
exercise pointers that wrap, full, empty and in between; the proofs cover every other
number. Two data values tell reordering from
order. The preloads of the queue are none, some, and a full queue. The candidate lists
of the race have an input that is a token, one that is a flag required true in one
candidate and false in another, a candidate behind others, alternatives of one answer,
a list against the priority order, and one that a single input refuses altogether; each
is within what the verifier admits. In the kill domain two rounds are told apart (`R`):
the round in progress and the one before it, the only one whose words can still be
around, as values are not reused before `R` kills. Either guard, both or none load, with
a load outside competing for the memory.

Three visits of each block let the stores be ahead of their announcements and behind
them, and make both ports serve in one cycle while both blocks announce. In `sharing`
one operation has credits enough to enter in every cycle and the other a single one,
the two ends of what Crush gives out. The simulator's loop leaves at
once or makes three iterations, so that tokens of two iterations are in flight, and 30
cycles are more than any of the buffered circuits needs; the sites of the
extra buffers are one on every kind of path (the cycle, its condition, an operand, an
index, an input). Four bits are enough for the bitwidth pass: two extensions of
different widths, a truncation between them and the sign bit are told apart, and the
bounds are zero, one, powers of two and all ones: on either side of them
`isBoundTight` answers differently. The fuzzer's workers are interchangeable and meet only at the counters, the
lock and the report, so two show what pairs can do; the failures are bounded because
each of them ends a worker's turn.

*Fairness.* The clock runs: a step of the circuit is taken again and again, and the
loops of the simulator and of the bitwidth pass go on as long as they have something
to do. Everything
else is about the surroundings and is what an elastic circuit may ask of them: the
consumer (sink, reader, requester) is ready again and again, though not necessarily
when something is offered for the first time. For the race every producer has a token
again and again, since a round needs one of each. For loads, the higher-priority port
leaves the memory alone again and again: the arbiter has fixed priorities, so nothing
weaker would do, and the code claims nothing stronger. Liveness properties of channels
excuse a reset, or kill, that discards the token.

For the memory controller every announced token and store comes at some time and
`memEnd` is read again and again. For the sharing wrapper `Independent` supposes the
operation's own consumer ready again and again, and that the operations preferred by
the arbiter leave a gap again and again: it has fixed priorities too. In the fuzzer
every thread and process goes on whenever it can (the scheduler's fairness, and that of
the lock: no worker waits for it for ever), a pending signal is delivered at some time,
and a process ends; `Terminates` holds without supposing that a signal comes.

Deadlock is checked in every run.

## 4. What is proved

The theorems hold for every value of the constants that the named assumptions of the
modules allow, where the runs fix small ones. Each safety theorem has the same shape:
an inductive invariant `IInv`, `Init => IInv`, one lemma for each action, and the
property as a consequence. Every `IInv` was checked by TLC on the instance of the
component's run before it was proved.

`BuffersProofs`, for all nine kinds, every `NUM_SLOTS >= 2` (a FIFO of one slot is another
circuit, the kind `FIFO_BREAK_NONE_1` or a one-slot kind), every delay of at least one,
any initial tokens that fit and every `Data`, from `BuffersAssumption` and
`ChannelAssumption`:

- `Invariance`, `TypeCorrect`, `RegistersCorrect`. The inductive invariant is
  `TypeOK /\ RegistersAgree` with two facts about single kinds. Of the ring:
  Full and Empty are not both set, and either is set only when the pointers are equal,
  and one is when they are. Neither flag's process reads the other flag, so that an
  update is right rests on this agreement in the state before. Of the break-dvr slot: the
  registered ready is low exactly while the slot holds a token. Of the queue:
  the tail is `Count` slots after the head, modulo the slots.
- `Refinement`: every kind implements `ElasticFifo`. What the FIFO's step asks is split
  into `StateFacts` (in any state of the invariant the stored tokens fit, and what is
  offered is the oldest) and `StepFacts` (the stored tokens move as a queue's do, an offer
  that is not taken stays), which are shown kind by kind. The sequence of a ring is read
  off from `head`, so write, read, both and neither are equations about `Tail` and
  `Append` of that reading, which the FIFO, the queue and the FIFO inside a bypass share
  (the bypass feeds the ring another input, hence the instance `Ring(i)`). The sequence of
  the shift register is what is left of its cells when the empty ones are dropped; that a
  shift takes off the one end and adds to the other needs the lemmas about `FlattenSeq`.

`LoadPortProofs`, for every `Data`:

- `Invariance`, `TypeCorrect`, `OwedCorrect`. The inductive invariant says that `owed`
  is the number of occupied places among the load's two slots and the controller's
  word register, and that `drop <= owed`. With three places the two-bit sum never
  wraps, although `owed_next` is computed modulo 4 from an acceptance and a pass that
  may be simultaneous.
- `LoadRefinement`: load and port implement a FIFO of three that a kill empties. The
  abstract sequence is what is in the three places, oldest first, without the `drop`
  oldest; a kill sets `drop` to what stays in flight, so the sequence is empty although
  the places are not. The proof is by cases on which places are occupied.

`RaceProofs`, for any inputs, flags and data and any candidate lists that satisfy
`RaceAssumption` (which is what the verifier demands):

- `RaceInvariance`. `AnswerInv` ties the registers to tokens that are gone: an answer
  held was won by tokens taken in this round, and a round that has answered `nothing`
  had every candidate refused by them.
- `TokensAreTakenOnce`, `AnswersArePrompt`, `AnswersStand` follow from it with the
  monotonicity of candidates: a token that arrives later neither enables what was
  refused nor disables what won.
- `RaceImplementsRounds`: the registers implement `DecisionRound`, in both forms of
  reopening, also in the cycle that completes a round and begins the next one.

`KillDomainProofs`, for any number `R` of rounds told apart, whichever of the two guards
load, both decision units and both forms of commit, from `KillDomainAssumption`. The
promise of the surroundings, which the model assumes of every cycle, is a part of the
invariant:

- `KillInvariance`. The invariant has four more parts besides the types. `GuardsInv`: the
  argument of a guard is in its latch, in the youngest request of its load, or past the
  stand-in, and every other request of the load is dead and counted by `drop`.
  `RoundInv`: arguments belong to the round and come once. `PhaseInv`: before the kill of
  a round the unit and the stand-ins agree on which inputs have given their token; from
  the kill to the end of the unit's round, which a reader may delay, an input has given
  its token or a zero is owed for it. `ValueInv`: the winner the unit has latched is the
  argument of a guard that holds, and a guard that has answered without being latched
  does not hold. `PhaseInv` needs `GuardsInv` (a guard that has given its token offers no
  second one), and `GuardsInv` needs the stand-ins in step with the unit, so that neither
  is inductive alone.
- `KillFindsNoWaitingToken`, `NoWordOutlivesItsRound`, `KillsAndDecisionsPair`,
  `DecisionsAreRight`, `KillTypes`: the properties of the run `kill_domain` and `TypeOK`.
- `DecisionStays` (`DecisionHeld`): in each phase the registers become what the unit was
  offering, so that it offers the same in the next cycle.

`SharingProofs`, for any number of operations, occupancies and latency of at least one:

- `CreditsAccounted`. Every credit of an operation is at home, stands for an entry of
  the condition buffer, or for a result that waits; and the condition buffer has as
  many entries as the unit has tokens. Neither conjunct is inductive alone: that a
  result leaving the unit finds the entry of its operation needs both.
- `SharingNeverOverruns`: `NoOverrun`, from the credits and the sizes of the buffers.
- `OwnersKnown`. A second invariant about contents where the first one counts: read from
  the output stage back, the unit has one token for each entry of the condition buffer,
  and the tokens an operation owns are as many as its entries. A cycle takes the oldest
  token with the oldest entry and adds the youngest with the youngest (`OwnedEnds`,
  `LineShift`), so the two stay in step although nothing connects them.
- `SharingIsInvisible`: `PrivateUnits`, the refinement of one `ElasticFifo` for every
  operation. Its queue is the output buffer followed by what it owns in the unit; a
  result that moves from the one to the other leaves the queue as it is, the credits
  bound its length, and what the operation is offered is the head of the queue because
  by `CreditsAccounted` a waiting result always finds the credit counter below its limit.

`MemControllerProofs`, for any finite sets of blocks and ports and any stores of a
block, with the counter wide enough for one call (`MemControllerAssumption`) and
announcements at most one cycle after `ctrlEnd` (the hypothesis `LagCovered`, without
which `EndIsLast` is false, see section 6):

- `MemInvariance`. `RemainingExact` is a congruence, and a counter of zero says nothing
  by itself. The invariant adds that the outstanding stores are fewer than the counter's
  range, and `PhaseInv`: the register behind `ctrlEnd` is set only when the lag has
  passed, so that no visit is unannounced but those at the control ports. Together they
  turn the congruence into an equation when the end is offered.
- `CounterIsExact`, `EndComesLast`, `EndIsHeld`: `RemainingExact`, `EndIsLast`,
  `EndStays`. That a call's stores counted by ports are its stores counted by visits is
  the exchange of two finite sums (`SumSwap`). A reset leads back to `Init` and so
  restores the invariant.

`FuzzerProofs`, for any finite set of workers, any number of programs and any bound on
I/O failures:

- `FuzzerInvariance`. The invariant has four parts: what the owner of the lock has
  sampled (`LockInv`); which process, directory and result each position of a worker's
  loop goes with (`PhaseInv`); `CountInv`, that every program asked for is counted, in a
  worker's hand or unclaimed, `remainingPrograms` being decremented below zero by
  workers that find nothing left; and `NamesInv`, that free names are left for all
  reproducers that may still come, by a count of names against programs.
- `CountIsExact` (`ExactCount`), `ReportNeverGoesBack` (`ReportAdvances`).
- `BugsAreReal` (`NoFalseBugs`) and `BugsHaveReproducers` (`ReproducersKept`) under the
  hypothesis `HandlerFirst`, without which the run `fuzzer_signal` has a counterexample.
  They count the workers with a bug in hand that the total lacks (`Guilty`) and those
  whose reproducer is there or was never recorded (`Excused`). `RecordInv` says what
  the directory of a program in hand holds: at least a directory that can be copied,
  unless some program went unrecorded. So `BugsHaveReproducers` excuses one bug for
  every unrecorded program, and from aborting only a run with an I/O error or such a
  program; the run `fuzzer_crash` shows that the latter does happen.

`CountingLemmas` carries what these proofs need of induction, in first-order form: every
nonempty set of naturals has a least element, and a set of subsets that contains every
`T` whose parts `T \ {x}` it contains, contains the whole finite set. From it follow the
facts about `SumFunctionOnSet` (of the module `Functions`): it is what its recursion
says, adds, scales, is monotone, and a table sums to the same by rows and by columns. By
the same argument over lengths `FlattenSeq` (of `SequencesExt`) is what its recursion says,
from either end.

Only model-checked: all liveness and fairness (outside the prover's reach), `Independent`
of `Sharing` among it; `Simulator` (`ResultRight`, `Settled`, `TokensStay`), whose
properties are about the circuits of the run and the values they compute and are not
true of every circuit (section 6 has circuits that lose data or never settle); and
`OptimizeBitwidths` (`Preserved`, `Legal`): it computes with the bits of numbers
(`Bitwise`) and walks chains of casts, and its properties are about what those
computations return.

## 5. What is not modelled, and the plan

Not modelled for good: the frontend and the LLVM passes, buffer placement and LSQ
sizing (solver and performance models), RTL export and synthesis bridges, simulation
drivers, arithmetic cores; signal managers only wrap text around an inner unit. The
conversions and transformations construct graphs from arbitrary graphs: what they
preserve is a statement about every circuit, and only where they fix the surroundings
of a unit (kill domains, memory controllers, credits) are they part of a model. These
parts are most of the code base by lines.

Left out of parts that are modelled: the patterns of the bitwidth pass that run once
before the sweeps (mux select, control merge index, memory addresses) and its logic for
cycles through several units; the simulator's floating-point and bitwise operations,
which differ from the modelled ones in a C++ operator; the fuzzer's targets, and its
replaying of a reproducer; which operations Crush shares.

Done, in the order of the plan: channels and buffers with the FIFO as abstract
specification and its proof; the racing decision; the kill domain and the proof about
the load's counts; the memory controller; the sharing wrapper; the control network of a
loop, as the simulator runs it; the bitwidth pass; the fuzzer; the theorems about the
race, the load's refinement, the kill domain, the sharing wrapper, the memory controller
and the fuzzer; the theorems that every buffer kind is a FIFO and that sharing is
invisible.

What could be added, in this order:

1. A theorem about a kill domain of any number of guards under `first`.
2. `First`, `Priority` and a nest of both against `DecisionRound` (their early answers
   cover only non-zero winners, so `Prompt` has to be stated for them separately).
3. Several commits on one kill domain (`support/kill_or.py`). That their rounds never
   overlap is a promise of the circuit's producer (`HandshakeOps.td` 991-1007), which
   would be an assumption of the model; what is to be shown from it is that a unit of
   the domain serves the rounds of either commit as it serves those of one.
4. The VHDL forms of the steering units in a loop, against the simulator's.
5. The LSQ's group allocation and order; the speculation units.

## 6. Findings and observations

Three runs show the code doing what its own comments say it does not:

- `bitwidths_bound`, `HandshakeOptimizeBitwidths.cpp` 1999. `isBoundTight` reads the
  bound as a signed number whatever the predicate. For a branch guarded by `x < 5`,
  unsigned, on a comparison of three bits, 5 reads as -3, is called tight, and the
  guarded value is cut to two bits: 4 comes out as 0. In general the bounds
  3 * 2^(k-2) - 1 are affected, when the comparison is exactly k bits wide (which the
  other patterns make it). The bounds of the run `bitwidths` leave this case out.
- `fuzzer_signal`, `hls-fuzzer.cpp` 394. A worker tells a process killed along with the
  run from one killed by its program by the flag `interrupted`, which the fuzzer's own
  handler sets. A terminal's signal goes to all processes of the group in any order. A
  child killed between its start and the installation of its handler (514-517) may be
  reaped before the fuzzer's handler has run, and a program nobody ran is counted as a
  bug. `HandlerFirst` is the assumption that rules this out in the run `fuzzer`.
- `fuzzer_crash`, `hls-fuzzer.cpp` 334. The comment at 343 says that a program's own
  process keeps a crash of it from taking the whole fuzzer down. A process that dies
  before its directory exists (in `createWorker` at 191, when a file operation at
  194-195 throws) is taken for a bug like any other, and the copy of its directory
  throws in the worker thread, where nothing catches it: the fuzzer terminates.

Met while modelling, and not counted as findings because nothing in the repository
promises otherwise, or because another part of the code prevents it today:

*Memory controller.*
- A control token more than one cycle after `ctrlEnd` comes too late: with
  `MaxLag = 2` `EndIsLast` is violated. The channels into the controller are made
  unbufferizable (`HandshakeSetBufferingProperties.cpp` 238-252), but the channel from
  the fork to the constant before them is not.
- Neither stores nor loads wait for `memStart`, although `CfToHandshake.cpp` 847 speaks
  of it as the sign that the memory can accept requests. Loads are not counted at the
  end, as a note at `mem_controller.py` 364 says.
- The count has 32 bits; `MemControllerAssumption` is that it does not wrap.

*Sharing wrapper.*
- An operation with at least `latency + 1` credits that is preferred by the arbiter and
  always has operands starves the others: `Independent` fails without the gap.
- The unit's ready is unconnected, which is sound for a pipelined unit only. `muli`
  with `IMPL = "sequential"` is not one, and Crush shares multiplications and divisions
  without looking at the implementation.
- A latency of zero would give the condition buffer no slots
  (`SharingAssumption` has `latency >= 1`).

*Simulator.*
- The cycle limit counts all cycles (1272-1283), where the comment at 1234 speaks of
  consecutive iterations with the same states.
- A generic binary operation of several cycles inside a loop never gets a second
  result out; one with latency 2 never copies its stored data.
- Equality of integers compares the addresses of the numbers' words.
- An argument fed directly to a buffer, a merge or a mux loses its data; a
  conditional branch keeps a reference to a temporary.
- A source in front of a merge never settles. The circuits of the run have none.

*Bitwidth pass.*
- A division is narrowed to one bit more than its dividend, and a divisor wider than
  that is truncated; the result of a signed division is zero-extended back. The run's
  divisions are unsigned, their divisors at most one bit wider.
- A pattern on bounds that matched before the pattern on data would cut sign-extended
  data wrongly; the order in which the patterns are registered prevents it, and the
  model keeps that order.

*Fuzzer.*
- A worker whose process dies before it has wiped the directory saves the program
  before, under a new name, for the bug it counts; one whose process dies before it has
  recorded the new program saves a directory without one (`unrecorded`).
- Any other error of `create_directory` or `copy` (330, 334), a full disk for example,
  ends the fuzzer too.
