-------------------------------- MODULE Race --------------------------------
(***************************************************************************)
(* handshake.race: a whole racing decision in one unit.  Inputs are the    *)
(* tokens and the flags; `seen`, `val` hold what each gave this round      *)
(* (tval/fval), winner/has_win an answer found while the sink stalls,      *)
(* `emitted` that the answer has been taken.                               *)
(***************************************************************************)
EXTENDS Candidates, Sequences

CONSTANTS Inputs,          \* the token inputs, then the flag inputs
          Flags,           \* those that are flags
          TokenValues,     \* what producers put on the token inputs
          CandidateLists   \* the values of the parameter CANDIDATES

SameAnswer(a, b) == IF a.token = NoInput /\ b.token = NoInput THEN a.payload = b.payload
                                                               ELSE a.token = b.token

\* What RaceOp::verify and parse_candidates check of a candidate list.
WellFormed(cs) ==
  /\ \A k \in DOMAIN cs :
       /\ cs[k].flags \cup cs[k].unless \subseteq Flags
       /\ cs[k].token # NoInput => cs[k].token \in Inputs \ Flags
       /\ cs[k].payload \in Data /\ (cs[k].token = NoInput => cs[k].payload # Zero)
       /\ Needs(cs[k]) \cup cs[k].unless # {}
       /\ cs[k].after \subseteq DOMAIN cs \ {k}
       /\ \A j \in cs[k].after : cs[j].after \subseteq cs[k].after
  /\ \A i \in Inputs : \E k \in DOMAIN cs : i \in Needs(cs[k]) \cup cs[k].unless
  /\ \A j, k \in DOMAIN cs :
       j # k /\ SameAnswer(cs[j], cs[k]) =>
         /\ cs[j].flags = cs[k].flags /\ cs[j].unless = cs[k].unless
         /\ cs[j].after # cs[k].after
  /\ Len(cs) = 1 => cs[1].flags \cup cs[1].unless # {}

ASSUME RaceAssumption ==
  /\ TokenValues \subseteq Data
  /\ Flags \subseteq Inputs /\ Inputs # {} /\ NoInput \notin Inputs
  /\ \A cs \in CandidateLists : cs # <<>> /\ DOMAIN cs = 1 .. Len(cs)
  /\ \A cs \in CandidateLists : WellFormed(cs)

VARIABLES cands,                \* parameter CANDIDATES (never changes)
          reopen_after_taken,   \* parameter REOPEN_AFTER_TAKEN (never changes)
          seen, val, winner, has_win, emitted,
          ins, outs_ready

params == <<cands, reopen_after_taken>>
regs == <<seen, val, winner, has_win, emitted>>
wires == <<ins, outs_ready>>
vars == <<params, regs, wires>>

\* The round's view: what arrived, with the value it arrived with.
arr(i) == seen[i] \/ Valid(ins[i])
View == [i \in Inputs |-> IF seen[i] THEN val[i] ELSE ins[i]]
others_in(i) == \A j \in Inputs \ {i} : arr(j)
closing == \A j \in Inputs : arr(j)

\* The next round's view, in this round's completing cycle with the answer out.
e_View == [i \in Inputs |-> IF seen[i] /\ others_in(i) /\ emitted THEN ins[i] ELSE NoToken]

\* Mutant: a candidate wins without waiting for those it comes after.
Winners_NoAfter(view) == {k \in DOMAIN cands : EnabledIn(view, cands[k])}

Winners(view) == {k \in DOMAIN cands : WinsIn(view, cands, k)}

\* The lowest-index winner's payload; zero when nobody wins, as the AND-OR
\* multiplexer of no selected term.
pay(view) ==
  IF Winners(view) = {} THEN Zero
  ELSE LET k == CHOOSE k \in Winners(view) : \A j \in Winners(view) : k <= j
       IN  AnswerOf(view, cands[k])

any_win == Winners(View) # {}
all_ref == AllRefused(View, cands)
e_any_win == Winners(e_View) # {}
e_all_ref == AllRefused(e_View, cands)

valid_i == (has_win \/ any_win \/ all_ref) /\ ~emitted
fire == valid_i /\ outs_ready
done == closing /\ (emitted \/ fire)

\* Mutant: an input reopens before the answer is taken.
done_wo_AnswerOpen(i) == others_in(i) /\ (emitted \/ ~reopen_after_taken)

done_wo(i) == others_in(i) /\ (emitted \/ (~reopen_after_taken /\ outs_ready))
again(i) == Valid(ins[i]) /\ seen[i] /\ done_wo(i)
\* Mutant: a next round that selects nothing is not answered early.
early_WinnersOnly == emitted /\ closing /\ e_any_win

early == emitted /\ closing /\ (e_any_win \/ e_all_ref)

ins_ready == [i \in Inputs |-> ~seen[i] \/ done_wo(i)]
outs == IF ~(valid_i \/ early) THEN NoToken
        ELSE IF emitted THEN pay(e_View)
        ELSE IF has_win THEN winner
        ELSE pay(View)
-----------------------------------------------------------------------------
Reset ==
  /\ seen' = [i \in Inputs |-> FALSE] /\ val' = [i \in Inputs |-> Zero]
  /\ winner' = Zero /\ has_win' = FALSE /\ emitted' = FALSE

\* Mutant: the next round starts with this round's inputs still marked seen.
NextRound_KeepsSeen ==
  /\ seen' = [i \in Inputs |-> seen[i] \/ again(i)]
  /\ val' = [i \in Inputs |-> IF again(i) THEN ins[i] ELSE val[i]]
  /\ has_win' = (emitted /\ e_any_win)
  /\ winner' = IF emitted THEN pay(e_View) ELSE winner
  /\ emitted' = (emitted /\ early /\ outs_ready)

\* The next round, from what it gave in this cycle: its answer offered now if
\* those tokens decide it, held if not taken.
NextRound ==
  /\ seen' = [i \in Inputs |-> again(i)]
  /\ val' = [i \in Inputs |-> IF again(i) THEN ins[i] ELSE val[i]]
  /\ has_win' = (emitted /\ e_any_win)
  /\ winner' = IF emitted THEN pay(e_View) ELSE winner
  /\ emitted' = (emitted /\ early /\ outs_ready)

\* Mutant: the answer is decided anew while the sink stalls.
SameRound_Redecides ==
  /\ seen' = [i \in Inputs |-> arr(i)]
  /\ val' = [i \in Inputs |-> IF Valid(ins[i]) /\ ~seen[i] THEN ins[i] ELSE val[i]]
  /\ has_win' = (has_win \/ any_win)
  /\ winner' = IF any_win THEN pay(View) ELSE winner
  /\ emitted' = (emitted \/ fire)

\* An answer found while the sink is stalled is held rather than re-decided;
\* having answered, the unit stays quiet while absorbing the late inputs.
SameRound ==
  /\ seen' = [i \in Inputs |-> arr(i)]
  /\ val' = [i \in Inputs |-> IF Valid(ins[i]) /\ ~seen[i] THEN ins[i] ELSE val[i]]
  /\ has_win' = (has_win \/ any_win)
  /\ winner' = IF ~has_win /\ any_win THEN pay(View) ELSE winner
  /\ emitted' = (emitted \/ fire)

Clock == IF done THEN NextRound ELSE SameRound

InitRegs ==
  /\ seen = [i \in Inputs |-> FALSE] /\ val = [i \in Inputs |-> Zero]
  /\ winner = Zero /\ has_win = FALSE /\ emitted = FALSE
-----------------------------------------------------------------------------
(* The race between producers that follow the elastic protocol, a sink     *)
(* that stalls as it likes, and a reset at any time.                       *)

\* A flag is one bit wide.
Bus(i) == IF i \in Flags THEN {Zero, One} ELSE TokenValues
Offers(i) == Bus(i) \cup {NoToken}

AnyOffer == {f \in [Inputs -> Wire] : \A i \in Inputs : f[i] \in Offers(i)}

Init ==
  /\ cands \in CandidateLists /\ reopen_after_taken \in BOOLEAN
  /\ InitRegs
  /\ ins \in AnyOffer /\ outs_ready \in BOOLEAN

Cycle ==
  /\ Clock
  /\ ins' \in AnyOffer
  /\ \A i \in Inputs : Holds(ins[i], ins_ready[i]) => ins'[i] = ins[i]
  /\ outs_ready' \in BOOLEAN
  /\ UNCHANGED params

\* A reset reaches the producers as well: what they offered is gone.
ResetCycle ==
  /\ Reset
  /\ ins' = [i \in Inputs |-> NoToken]
  /\ outs_ready' \in BOOLEAN
  /\ UNCHANGED params

Next == Cycle \/ ResetCycle

Spec == Init /\ [][Next]_vars

\* The clock runs, the sink is ready again and again, and every producer has a
\* token again and again.
FairSpec ==
  /\ Spec
  /\ []<><<TRUE>>_vars
  /\ []<>outs_ready
  /\ \A i \in Inputs : []<>Valid(ins[i])
-----------------------------------------------------------------------------
TypeOK ==
  /\ cands \in CandidateLists /\ reopen_after_taken \in BOOLEAN
  /\ seen \in [Inputs -> BOOLEAN] /\ val \in [Inputs -> Data]
  /\ winner \in Data /\ has_win \in BOOLEAN /\ emitted \in BOOLEAN
  /\ ins \in [Inputs -> Wire] /\ outs_ready \in BOOLEAN

\* The round the registers stand for.
Given == [i \in Inputs |-> IF seen[i] THEN val[i] ELSE NoToken]
Answer == CASE ~emitted -> NoToken
            [] emitted /\ has_win -> winner
            [] OTHER -> Zero

Round == INSTANCE DecisionRound WITH given <- Given, answer <- Answer

\* A token is never taken that the unit then forgets: an input that already
\* gave this round's token is ready again only in a cycle in which the round
\* completes, which `done_wo` has to foresee from the other inputs alone.
OneTokenARound == Round!OneTokenARound

\* The answer goes out in the first cycle in which the arrived tokens
\* determine it, also when they are the next round's in the cycle in which
\* this round completes, and never before.
Prompt == Round!Prompt

\* An answer given early is still right when the round's last token is in.
AnswerStands == Round!AnswerStands

\* The registers follow the rounds: one token of every input and one answer a
\* round, and an answer the sink does not take is held although a winner of
\* lower index may arrive meanwhile.
KeepsRounds == Round!Spec

\* No producer is left waiting for ever: a round that has all its tokens and
\* a willing sink completes.
ServesInputs == Round!Serves
=============================================================================
