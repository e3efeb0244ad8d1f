----------------------------- MODULE KillDomain -----------------------------
(***************************************************************************)
(* A round of speculative guards and the decision that stops the losers.   *)
(* Each guard: an argument latch -> for some guards a load (address to the *)
(* memory controller, word back) -> the guard's body -> a stand-in.  Those *)
(* feed one decision unit (handshake.first or handshake.priority, picked   *)
(* initially), whose answer goes through a commit to a reader that stalls  *)
(* as it likes.  The commit's kill resets the latches and the bodies, ends *)
(* the stand-ins' round and makes the loads drop what they still owe.      *)
(*                                                                         *)
(* The surroundings keep the promises of handshake.commit: a round's       *)
(* arguments enter after the previous round's kill and no later than the   *)
(* round's own.                                                            *)
(*                                                                         *)
(* Arguments, addresses and words are numbers that tell the round they     *)
(* belong to: r for a guard that holds in round r, R + r for one that does *)
(* not, rounds counted modulo R.                                           *)
(***************************************************************************)
EXTENDS Channel, Naturals

CONSTANTS Guards,   \* the inputs of the decision, and the guards' read ports
          Loading,  \* which guards load, in the circuits considered
          R         \* rounds that are told apart

ASSUME KillDomainAssumption ==
  /\ R \in Nat /\ R >= 2 /\ Data = 0 .. 2 * R /\ Zero = 0
  /\ Guards = {1, 2} /\ Loading \subseteq SUBSET Guards

VARIABLES decider, kill_at_valid, loading,   \* fixed by the circuit
          latch,                             \* what the argument latches hold
          addrSlot, wordSlot, owed, drop,    \* the loads
          memWord,                           \* the controller's read ports
          sent, owe,                         \* the stand-ins
          seen, found, held, emitted,        \* the decision unit
          killed,                            \* the commit
          start, outs_ready,                 \* wires from outside
          round, arg, taken                  \* history: the domain's round, its
                                             \* arguments, the decisions taken

loadRegs == <<latch, addrSlot, wordSlot, owed, drop, memWord>>
decisionRegs == <<sent, owe, seen, found, held, emitted, killed>>
circuit == <<decider, kill_at_valid, loading>>
vars == <<circuit, loadRegs, decisionRegs,
          start, outs_ready, round, arg, taken>>

After(r) == (r % R) + 1

\* A guard's own computation on the word it loaded, combinational.
Body(w) == IF Valid(w) /\ w > R THEN Zero ELSE w
-----------------------------------------------------------------------------
(* The wires.  A valid reads no ready, so the offers come first, from      *)
(* instances whose ready inputs are left open; then the readys and what    *)
(* the registers become.                                                   *)

LatchOffer(g) == INSTANCE OneSlotBreakR WITH
  fullReg <- Valid(latch[g]), dataReg <- latch[g], ins <- start[g],
  outs_ready <- FALSE, rst <- FALSE

LoadOffer(g) == INSTANCE LoadKillDrop WITH
  addrSlot <- addrSlot[g], wordSlot <- wordSlot[g], owed <- owed[g], drop <- drop[g],
  addrIn <- IF g \in loading THEN LatchOffer(g)!outs ELSE NoToken, dataFromMem <- memWord[g],
  addrOut_ready <- FALSE, dataOut_ready <- FALSE, kill <- FALSE

\* What the guard works on: the word loaded, or the argument itself.
word(g) == IF g \in loading THEN LoadOffer(g)!dataOut ELSE LatchOffer(g)!outs

StandOffer(g) == INSTANCE StandIn WITH
  sent <- sent[g], owe <- owe[g], ins <- Body(word(g)),
  outs_ready <- FALSE, kill_any <- FALSE

flags == [g \in Guards |-> StandOffer(g)!outs]

F == INSTANCE First WITH Inputs <- Guards, has_win <- found, winner <- held, ins <- flags
P == INSTANCE Priority WITH hi <- 1, lo <- 2, hi_nz_r <- found, ins <- flags

decision == IF decider = "first" THEN F!outs ELSE P!outs
flags_ready == IF decider = "first" THEN F!ins_ready ELSE P!ins_ready

Cm == INSTANCE Commit WITH ins <- decision
kill == Cm!kill

Stand(g) == INSTANCE StandIn WITH
  sent <- sent[g], owe <- owe[g], ins <- Body(word(g)),
  outs_ready <- flags_ready[g], kill_any <- kill

\* Port 0 is another load's of the circuit, which asks when it is `busy` and
\* takes its words at once.
ReadWord(a) == a
Mem(busy) == INSTANCE ReadArbiter WITH Ports <- Guards \cup {0},
  dataOut <- [p \in Guards \cup {0} |-> IF p = 0 THEN NoToken ELSE memWord[p]],
  address_in <- [p \in Guards \cup {0} |->
                  IF p # 0 THEN LoadOffer(p)!addrOut ELSE IF busy THEN Zero ELSE NoToken],
  nReady <- {p \in Guards \cup {0} : p = 0 \/ LoadOffer(p)!dataFromMem_ready}

Load(g, busy) == INSTANCE LoadKillDrop WITH
  addrSlot <- addrSlot[g], wordSlot <- wordSlot[g], owed <- owed[g], drop <- drop[g],
  addrIn <- IF g \in loading THEN LatchOffer(g)!outs ELSE NoToken, dataFromMem <- memWord[g],
  addrOut_ready <- (g \in Mem(busy)!ready), dataOut_ready <- Stand(g)!ins_ready

\* A latch of the domain takes the kill as its reset.
Latch(g) == INSTANCE OneSlotBreakR WITH
  fullReg <- Valid(latch[g]), dataReg <- latch[g], ins <- start[g],
  rst <- kill,
  outs_ready <- IF g \in loading THEN LoadOffer(g)!addrIn_ready ELSE Stand(g)!ins_ready
-----------------------------------------------------------------------------
Low == [g \in Guards |-> FALSE]
Nothing == [g \in Guards |-> NoToken]

InitRegs ==
  /\ latch = Nothing /\ addrSlot = Nothing /\ wordSlot = Nothing
  /\ owed = [g \in Guards |-> 0] /\ drop = [g \in Guards |-> 0] /\ memWord = Nothing
  /\ sent = Low /\ owe = Low /\ F!InitRegs /\ killed = FALSE

InitHistory == round = 1 /\ taken = 1 /\ arg = Nothing

Entering(g) == Valid(start[g]) /\ Latch(g)!ins_ready
Entered(g) == Valid(arg[g]) \/ Entering(g)

\* What the surroundings promise: a round is complete when it is killed.
Promise == kill => \A g \in Guards : Entered(g)

\* The argument of a guard that has not had this round's yet.
Arguments(r) == {NoToken, r, R + r}

Init ==
  /\ decider \in {"first", "priority"} /\ kill_at_valid \in BOOLEAN /\ loading \in Loading
  /\ InitRegs /\ InitHistory
  /\ start \in [Guards -> Arguments(round)] /\ outs_ready \in BOOLEAN
  /\ Promise

DecisionStep == IF decider = "first" THEN F!Clock ELSE P!Clock

Circuit(busy) ==
  /\ latch' = [g \in Guards |-> Latch(g)!slot_next]
  /\ addrSlot' = [g \in Guards |-> Load(g, busy)!addrSlot_next]
  /\ wordSlot' = [g \in Guards |-> Load(g, busy)!wordSlot_next]
  /\ owed' = [g \in Guards |-> Load(g, busy)!owed_next]
  /\ drop' = [g \in Guards |-> Load(g, busy)!drop_next]
  /\ memWord' = [g \in Guards |-> Mem(busy)!dataOut_next[g]]
  /\ sent' = [g \in Guards |-> Stand(g)!sent_next]
  /\ owe' = [g \in Guards |-> Stand(g)!owe_next]
  /\ DecisionStep
  /\ killed' = Cm!killed_next

History ==
  /\ round' = IF kill THEN After(round) ELSE round
  /\ taken' = IF Valid(decision) /\ outs_ready THEN After(taken) ELSE taken
  /\ arg' = [g \in Guards |-> IF kill THEN NoToken
                              ELSE IF Entering(g) THEN start[g] ELSE arg[g]]

Surroundings ==
  /\ start' \in {f \in [Guards -> Arguments(round')] :
                  \A g \in Guards : Valid(arg'[g]) => f[g] = NoToken}
  /\ \A g \in Guards : Holds(start[g], Latch(g)!ins_ready) => start'[g] = start[g]
  /\ outs_ready' \in BOOLEAN
  /\ UNCHANGED circuit
  /\ Promise'

Cycle(busy) == Circuit(busy) /\ History /\ Surroundings

\* The circuit's reset, which is also every unit's and the commit's kill.
Reset ==
  /\ latch' = Nothing /\ addrSlot' = Nothing /\ wordSlot' = Nothing
  /\ owed' = [g \in Guards |-> 0] /\ drop' = [g \in Guards |-> 0] /\ memWord' = Nothing
  /\ sent' = Low /\ owe' = Low /\ F!Reset /\ killed' = FALSE
  /\ round' = 1 /\ taken' = 1 /\ arg' = Nothing
  /\ start' = Nothing /\ outs_ready' \in BOOLEAN
  /\ UNCHANGED circuit

Next == (\E busy \in BOOLEAN : Cycle(busy)) \/ Reset

\* The clock runs, the reader is ready again and again, and the load on the
\* lower port leaves the memory free again and again.
Spec == Init /\ [][Next]_vars /\ WF_vars(Cycle(FALSE)) /\ []<>outs_ready
-----------------------------------------------------------------------------
TypeOK ==
  /\ decider \in {"first", "priority"} /\ kill_at_valid \in BOOLEAN /\ loading \in Loading
  /\ latch \in [Guards -> Wire]
  /\ addrSlot \in [Guards -> Wire] /\ wordSlot \in [Guards -> Wire]
  /\ owed \in [Guards -> 0 .. 3] /\ drop \in [Guards -> 0 .. 3]
  /\ memWord \in [Guards -> Wire]
  /\ sent \in [Guards -> BOOLEAN] /\ owe \in [Guards -> BOOLEAN]
  /\ seen \in [Guards -> BOOLEAN] /\ found \in BOOLEAN /\ held \in Data
  /\ emitted \in BOOLEAN /\ killed \in BOOLEAN
  /\ start \in [Guards -> Wire] /\ outs_ready \in BOOLEAN
  /\ round \in 1 .. R /\ taken \in 1 .. R /\ arg \in [Guards -> Wire]

\* The assertions of stand_in hold: no round ends while a token waits at a
\* stand-in's output, neither an owed zero nor the producer's own.
StandInPrecondition == \A g \in Guards : Stand(g)!Precondition

\* This round's argument of a guard.
Argument(g) == IF Valid(arg[g]) THEN arg[g] ELSE start[g]

\* No evaluation outlives its round: whatever a guard works on is what it was
\* given in the current round, also with a dead round's request still in the
\* memory controller.
NoDeadWord == \A g \in Guards : Valid(word(g)) => word(g) = Argument(g)

\* Every decision kills exactly one round: the rounds killed and the decisions
\* taken differ only by the decision that is waiting, killed at its offer.
OneKillADecision ==
  IF killed THEN Valid(decision) /\ round = After(taken) ELSE round = taken

\* A decision is right although losers are stopped and zeros stand in for
\* them: a guard that holds wins (the first unit's, or hi before lo), and
\* `nothing` is answered only when no guard of the round holds.
Holding == {g \in Guards : Argument(g) <= R}
DecisionRight ==
  kill => CASE Holding = {} -> decision = Zero
            [] Holding # {} /\ decider = "first" -> \E g \in Holding : decision = Argument(g)
            [] OTHER -> decision = Argument(IF 1 \in Holding THEN 1 ELSE 2)

\* A decision offered is held until taken, so that it is not killed twice.
DecisionHeld ==
  [][(\E busy \in BOOLEAN : Cycle(busy)) /\ Holds(decision, outs_ready) 
     => decision' = decision]_vars

\* Every round that has its arguments is decided and ends, the next one after
\* it too: no stand-in, drop or late loser blocks the domain.
RoundsEnd == (\A g \in Guards : Valid(arg[g])) ~> (\E g \in Guards : ~Valid(arg[g]))
=============================================================================
