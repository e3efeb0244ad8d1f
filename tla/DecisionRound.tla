--------------------------- MODULE DecisionRound ---------------------------
(***************************************************************************)
(* What a decision unit promises, whatever its registers.  Rounds: every   *)
(* input gives exactly one token a round, taken the cycle it arrives, and  *)
(* the unit emits exactly one answer a round, the first cycle the tokens   *)
(* that have arrived determine one.  The round is complete once every      *)
(* input has given its token and the answer has been taken; in that very   *)
(* cycle inputs may give the next round's token, and an answer those       *)
(* tokens decide may go out if the output is free.  Prompt, OneTokenARound *)
(* and AnswerStands say what must hold in every cycle, Spec how the rounds *)
(* follow each other.                                                      *)
(***************************************************************************)
EXTENDS Candidates

CONSTANT Inputs

VARIABLES cands,             \* the candidates (never change)
          ins, ins_ready,    \* functions on Inputs
          outs, outs_ready,
          given,             \* the token each input gave this round
          answer             \* the answer taken this round

vars == <<cands, ins, ins_ready, outs, outs_ready, given, answer>>

Nothing == [i \in Inputs |-> NoToken]

\* The tokens of this round, those arriving now included.
Now == [i \in Inputs |-> IF Valid(given[i]) THEN given[i] ELSE ins[i]]
AllIn == \A i \in Inputs : Valid(Now[i])

Taken == Valid(outs) /\ outs_ready
Complete == AllIn /\ (Valid(answer) \/ Taken)

\* A second token of an input, which belongs to the next round.
Again(i) == Valid(given[i]) /\ Valid(ins[i]) /\ ins_ready[i]
NextRound == [i \in Inputs |-> IF Again(i) THEN ins[i] ELSE NoToken]

\* The round the output belongs to, and what may be said on it.
Decided == IF ~Valid(answer) THEN Answers(Now, cands)
           ELSE IF AllIn THEN Answers(NextRound, cands) ELSE {}

\* An answer is offered exactly when the arrived tokens determine one.
Prompt == IF Decided = {} THEN ~Valid(outs) ELSE outs \in Decided

\* No input is asked for a second token before its round completes, and none
\* is kept waiting with its first.
OneTokenARound ==
  \A i \in Inputs : /\ Again(i) => Complete
                    /\ Valid(ins[i]) /\ ~Valid(given[i]) => ins_ready[i]

\* An answer that went out before every token had arrived is one that the
\* complete round allows.
AnswerStands ==
  Complete => (IF Valid(answer) THEN answer ELSE outs) \in Answers(Now, cands)

Init == given = Nothing /\ answer = NoToken

Cycle ==
  /\ UNCHANGED cands
  /\ given' = IF Complete THEN NextRound ELSE Now
  /\ answer' = CASE Complete /\ Valid(answer) /\ Taken -> outs
                 [] Complete /\ ~(Valid(answer) /\ Taken) -> NoToken
                 [] ~Complete /\ Taken -> outs
                 [] OTHER -> answer
  /\ Holds(outs, outs_ready) => outs' = outs
  /\ \A i \in Inputs : Holds(ins[i], ins_ready[i]) => ins'[i] = ins[i]

\* A reset starts a round afresh; offers made before it mean nothing.
Reset == UNCHANGED cands /\ given' = Nothing /\ answer' = NoToken

Spec == Init /\ [][Cycle \/ Reset]_vars

\* Whoever offers a token is eventually served.
Serves == \A i \in Inputs : Valid(ins[i]) ~> ins_ready[i]
=============================================================================
