----------------------------- MODULE Candidates -----------------------------
(***************************************************************************)
(* Racing decisions.  A decision has inputs, each giving one token a       *)
(* round, and an ordered list of candidates.  Payload 0 is the reserved    *)
(* "nothing selected": a flag is true, and a token carries, when its value *)
(* is not zero.  A candidate is a record                                   *)
(*    token    the input whose payload it answers, or NoInput              *)
(*    payload  what it answers when it has no token                        *)
(*    flags, unless   the inputs required true, required false             *)
(*    after    the candidates (indices) that must be refused before it     *)
(* A view is a function from inputs to wires: the tokens of one round that *)
(* have arrived so far.                                                    *)
(***************************************************************************)
EXTENDS Channel, Naturals

CONSTANTS NoInput,  \* the token of a candidate that has none
          One       \* what a flag carries when it is true

ASSUME CandidatesAssumption == One \in Data /\ One # Zero

Carries(w) == Valid(w) /\ w # Zero
Empties(w) == Valid(w) /\ w = Zero

Needs(c) == c.flags \cup (IF c.token = NoInput THEN {} ELSE {c.token})

\* The AND term `en` and the OR term `rf` of a candidate.
EnabledIn(view, c) == /\ \A i \in Needs(c) : Carries(view[i])
                      /\ \A i \in c.unless : Empties(view[i])
RefusedIn(view, c) == \/ \E i \in Needs(c) : Empties(view[i])
                      \/ \E i \in c.unless : Carries(view[i])

WinsIn(view, cands, k) ==
  EnabledIn(view, cands[k]) /\ \A j \in cands[k].after : RefusedIn(view, cands[j])

AllRefused(view, cands) == \A k \in DOMAIN cands : RefusedIn(view, cands[k])

AnswerOf(view, c) == IF c.token = NoInput THEN c.payload ELSE view[c.token]

\* The answers a view determines: those of its winners, or zero when no
\* candidate is left.  Empty while the view does not decide.
Answers(view, cands) ==
  {AnswerOf(view, cands[k]) : k \in {j \in DOMAIN cands : WinsIn(view, cands, j)}}
  \cup (IF AllRefused(view, cands) THEN {Zero} ELSE {})
=============================================================================
