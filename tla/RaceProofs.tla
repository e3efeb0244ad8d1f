----------------------------- MODULE RaceProofs -----------------------------
(***************************************************************************)
(* The race answers every round as the candidates say, for any inputs and  *)
(* any list of candidates that RaceOp::verify accepts.                     *)
(***************************************************************************)
EXTENDS Race, CountingLemmas

Views == [Inputs -> Wire]

\* w has every token of v, and maybe more.
Extends(v, w) == \A i \in Inputs : Valid(v[i]) => w[i] = v[i]
-----------------------------------------------------------------------------
(* Candidates.                                                             *)

LEMMA CandidateFacts ==
  ASSUME NEW cs \in CandidateLists, NEW k \in DOMAIN cs
  PROVE  /\ Needs(cs[k]) \subseteq Inputs /\ cs[k].unless \subseteq Inputs
         /\ cs[k].token # NoInput => cs[k].token \in Needs(cs[k])
         /\ cs[k].payload \in Data /\ Len(cs) \in Nat /\ DOMAIN cs = 1 .. Len(cs)
         /\ cs[k].after \subseteq DOMAIN cs \ {k}
         /\ \A j \in cs[k].after : cs[j].after \subseteq cs[k].after
  <1>1. WellFormed(cs) /\ Flags \subseteq Inputs /\ DOMAIN cs = 1 .. Len(cs)
    BY RaceAssumption
  <1> QED
    BY <1>1 DEF WellFormed, Needs

\* More tokens never undo what a view decided about a candidate.
LEMMA Monotone ==
  ASSUME NEW cs \in CandidateLists, NEW k \in DOMAIN cs,
         NEW v \in Views, NEW w \in Views, Extends(v, w)
  PROVE  /\ EnabledIn(v, cs[k]) => EnabledIn(w, cs[k])
         /\ RefusedIn(v, cs[k]) => RefusedIn(w, cs[k])
         /\ EnabledIn(v, cs[k]) => AnswerOf(w, cs[k]) = AnswerOf(v, cs[k])
  <1>1. \A i \in Needs(cs[k]) \cup cs[k].unless :
          /\ Carries(v[i]) => Carries(w[i]) /\ w[i] = v[i]
          /\ Empties(v[i]) => Empties(w[i])
    BY CandidateFacts DEF Extends, Carries, Empties
  <1> QED
    BY <1>1, CandidateFacts DEF EnabledIn, RefusedIn, AnswerOf

LEMMA MonotoneWins ==
  ASSUME NEW cs \in CandidateLists, NEW v \in Views, NEW w \in Views, Extends(v, w)
  PROVE  /\ \A k \in DOMAIN cs : WinsIn(v, cs, k) => /\ WinsIn(w, cs, k)
                                                    /\ AnswerOf(w, cs[k]) = AnswerOf(v, cs[k])
         /\ AllRefused(v, cs) => AllRefused(w, cs)
  <1>1. ASSUME NEW k \in DOMAIN cs, WinsIn(v, cs, k)
        PROVE  WinsIn(w, cs, k) /\ AnswerOf(w, cs[k]) = AnswerOf(v, cs[k])
    <2>1. \A j \in cs[k].after : j \in DOMAIN cs
      BY CandidateFacts
    <2> QED
      BY <1>1, <2>1, Monotone DEF WinsIn
  <1>2. AllRefused(v, cs) => AllRefused(w, cs)
    BY Monotone DEF AllRefused
  <1> QED
    BY <1>1, <1>2

\* No candidate is both enabled and refused; once its inputs are in, it is
\* one of them.
LEMMA EnabledOrRefused ==
  ASSUME NEW cs \in CandidateLists, NEW k \in DOMAIN cs, NEW v \in Views
  PROVE  /\ ~(EnabledIn(v, cs[k]) /\ RefusedIn(v, cs[k]))
         /\ (\A i \in Inputs : Valid(v[i])) => EnabledIn(v, cs[k]) \/ RefusedIn(v, cs[k])
  BY CandidateFacts DEF EnabledIn, RefusedIn, Carries, Empties

\* When all inputs are in there is an answer: of the candidates left, one that
\* comes after the fewest wins, since "after" is transitive.
LEMMA CompleteDecides ==
  ASSUME NEW cs \in CandidateLists, NEW v \in Views, \A i \in Inputs : Valid(v[i])
  PROVE  AllRefused(v, cs) \/ \E k \in DOMAIN cs : WinsIn(v, cs, k)
  <1> SUFFICES ASSUME ~AllRefused(v, cs) PROVE \E k \in DOMAIN cs : WinsIn(v, cs, k)
    OBVIOUS
  <1> DEFINE E == {k \in DOMAIN cs : EnabledIn(v, cs[k])}
             N == {Cardinality(cs[k].after) : k \in E}
  <1>1. \A k \in DOMAIN cs : EnabledIn(v, cs[k]) \/ RefusedIn(v, cs[k])
    BY EnabledOrRefused
  <1>2. E # {}
    BY <1>1 DEF AllRefused
  <1>3. \A k \in DOMAIN cs : IsFiniteSet(cs[k].after) /\ Cardinality(cs[k].after) \in Nat
    <2> TAKE k \in DOMAIN cs
    <2>1. Len(cs) \in Nat /\ cs[k].after \subseteq 0 .. Len(cs)
      BY CandidateFacts
    <2> QED
      BY <2>1, InIntervalFinite
  <1>4. N \subseteq Nat /\ N # {}
    BY <1>2, <1>3
  <1>5. PICK n \in N : \A m \in N : n <= m
    BY <1>4, LeastNatural
  <1>6. PICK k \in E : n = Cardinality(cs[k].after)
    BY <1>5
  <1>7. ASSUME NEW j \in cs[k].after PROVE RefusedIn(v, cs[j])
    <2>1. j \in DOMAIN cs /\ cs[j].after \subseteq cs[k].after /\ j \notin cs[j].after
      BY CandidateFacts
    <2>2. cs[j].after # cs[k].after
      BY <2>1
    <2>3. /\ Cardinality(cs[j].after) <= Cardinality(cs[k].after)
          /\ Cardinality(cs[k].after) # Cardinality(cs[j].after)
      BY <1>3, <2>1, <2>2, FS_Subset
    <2>4. ~(Cardinality(cs[k].after) <= Cardinality(cs[j].after))
      BY <1>3, <2>1, <2>3
    <2>5. j \notin E
      BY <1>5, <1>6, <2>4
    <2> QED
      BY <1>1, <2>1, <2>5
  <1> QED
    BY <1>6, <1>7 DEF WinsIn

\* What the multiplexer puts out.
LEMMA PayLemma ==
  ASSUME cands \in CandidateLists, NEW v \in Views
  PROVE  /\ Winners(v) = {} => pay(v) = Zero
         /\ Winners(v) # {} => \E k \in Winners(v) : pay(v) = AnswerOf(v, cands[k])
         /\ pay(v) \in Data
         /\ AllRefused(v, cands) => Winners(v) = {}
         /\ \A k \in Winners(v) : AnswerOf(v, cands[k]) \in Data
  <1>1. \A k \in Winners(v) : k \in DOMAIN cands /\ EnabledIn(v, cands[k])
    BY DEF Winners, WinsIn
  <1>2. ASSUME NEW k \in Winners(v) PROVE AnswerOf(v, cands[k]) \in Data
    <2>1. cands[k].token # NoInput => Carries(v[cands[k].token]) /\ cands[k].token \in Inputs
      BY <1>1, CandidateFacts DEF EnabledIn
    <2>2. cands[k].payload \in Data
      BY <1>1, CandidateFacts
    <2> QED
      BY <2>1, <2>2 DEF AnswerOf, Carries, Valid, Views, Wire
  <1>3. ASSUME Winners(v) # {}
        PROVE  \E k \in Winners(v) : pay(v) = AnswerOf(v, cands[k])
    <2>1. Winners(v) \subseteq Nat
      BY <1>1, CandidateFacts
    <2>2. \E k \in Winners(v) : \A j \in Winners(v) : k <= j
      BY <1>3, <2>1, LeastNatural
    <2> QED
      BY <1>3, <2>2 DEF pay
  <1>4. Winners(v) = {} => pay(v) = Zero
    BY DEF pay
  <1>5. AllRefused(v, cands) => Winners(v) = {}
    BY <1>1, EnabledOrRefused DEF AllRefused
  <1> QED
    BY <1>2, <1>3, <1>4, <1>5, ChannelAssumption
-----------------------------------------------------------------------------
(* Rounds.                                                                 *)

\* The tokens of the next round that this cycle takes.
Seconds == [i \in Inputs |-> IF again(i) THEN ins[i] ELSE NoToken]

\* An answer found is that of a candidate that wins by the tokens given; one
\* that went out without a winner found every candidate refused.
AnswerInv ==
  /\ has_win => \E k \in Winners(Given) : winner = AnswerOf(Given, cands[k])
  /\ emitted /\ ~has_win => AllRefused(Given, cands)

IInv == TypeOK /\ AnswerInv

LEMMA ViewFacts ==
  ASSUME TypeOK
  PROVE  /\ Given \in Views /\ View \in Views /\ e_View \in Views /\ Extends(Given, View)
         /\ \A i \in Inputs : Valid(View[i]) <=> arr(i)
         /\ \A i \in Inputs : Valid(Given[i]) <=> seen[i]
         /\ emitted => Seconds = e_View
  <1>1. \A i \in Inputs : seen[i] \in BOOLEAN /\ val[i] \in Data /\ ins[i] \in Wire
    BY DEF TypeOK
  <1>2. Given \in Views /\ View \in Views /\ e_View \in Views
    BY <1>1 DEF Given, View, e_View, Views, Wire
  <1>3. \A i \in Inputs : /\ Valid(View[i]) <=> arr(i)
                          /\ Valid(Given[i]) <=> seen[i]
                          /\ Valid(Given[i]) => View[i] = Given[i]
    BY <1>1, ChannelAssumption DEF Given, View, Valid, arr
  <1>4. ASSUME emitted PROVE Seconds = e_View
    <2>1. \A i \in Inputs : (IF again(i) THEN ins[i] ELSE NoToken)
                              = (IF seen[i] /\ others_in(i) /\ emitted THEN ins[i] ELSE NoToken)
      BY <1>4 DEF again, done_wo, Valid
    <2> QED
      BY <2>1 DEF Seconds, e_View
  <1> QED
    BY <1>2, <1>3, <1>4 DEF Extends

\* What is given after a cycle.
LEMMA GivenStep ==
  ASSUME TypeOK, Clock
  PROVE  /\ done => Given' = Seconds
         /\ ~done => Given' = View
  <1>1. ASSUME done PROVE Given' = Seconds
    <2>1. \A i \in Inputs : /\ seen'[i] = again(i)
                            /\ val'[i] = IF again(i) THEN ins[i] ELSE val[i]
      BY <1>1 DEF Clock, NextRound
    <2> QED
      BY <2>1 DEF Given, Seconds
  <1>2. ASSUME ~done PROVE Given' = View
    <2>1. \A i \in Inputs : /\ seen'[i] = arr(i)
                            /\ val'[i] = IF Valid(ins[i]) /\ ~seen[i] THEN ins[i] ELSE val[i]
      BY <1>2 DEF Clock, SameRound
    <2>2. \A i \in Inputs : (IF seen'[i] THEN val'[i] ELSE NoToken) = View[i]
      BY <2>1 DEF View, arr, Valid
    <2> QED
      BY <2>2 DEF Given, View
  <1> QED
    BY <1>1, <1>2

\* With all tokens in, there is an answer.
LEMMA ClosingDecides ==
  ASSUME TypeOK, closing
  PROVE  any_win \/ all_ref
  <1>1. cands \in CandidateLists /\ View \in Views /\ \A i \in Inputs : Valid(View[i])
    BY ViewFacts DEF closing, TypeOK
  <1> QED
    BY <1>1, CompleteDecides DEF any_win, all_ref, Winners

\* What an answer that is held, or that has gone out, says of the round so far.
LEMMA HeldAnswer ==
  ASSUME IInv
  PROVE  /\ has_win => /\ any_win
                       /\ \E k \in Winners(View) : winner = AnswerOf(View, cands[k])
         /\ emitted /\ ~has_win => all_ref /\ ~any_win
  <1>1. cands \in CandidateLists /\ Given \in Views /\ View \in Views /\ Extends(Given, View)
    BY ViewFacts DEF IInv, TypeOK
  <1>2. has_win => \E k \in Winners(View) : winner = AnswerOf(View, cands[k])
    BY <1>1, MonotoneWins DEF IInv, AnswerInv, Winners
  <1>3. emitted /\ ~has_win => all_ref
    BY <1>1, MonotoneWins DEF IInv, AnswerInv, all_ref
  <1>4. all_ref => ~any_win
    BY <1>1, PayLemma DEF all_ref, any_win
  <1> QED
    BY <1>2, <1>3, <1>4 DEF any_win
-----------------------------------------------------------------------------
(* The invariant.                                                          *)

LEMMA TypeStep ==
  ASSUME TypeOK, Cycle
  PROVE  TypeOK'
  <1>1. cands \in CandidateLists /\ e_View \in Views /\ View \in Views
    BY ViewFacts DEF TypeOK
  <1>2. pay(e_View) \in Data /\ pay(View) \in Data
    BY <1>1, PayLemma
  <1>3. /\ UNCHANGED params /\ ins' \in [Inputs -> Wire] /\ outs_ready' \in BOOLEAN
    BY DEF Cycle, AnyOffer
  <1>4. CASE done
    <2>1. NextRound
      BY <1>4 DEF Cycle, Clock
    <2>2. seen' \in [Inputs -> BOOLEAN] /\ has_win' \in BOOLEAN /\ emitted' \in BOOLEAN
      BY <2>1 DEF NextRound, again
    <2>3. val' \in [Inputs -> Data]
      BY <2>1 DEF NextRound, again, Valid, TypeOK, Wire
    <2>4. winner' \in Data
      BY <1>2, <2>1 DEF NextRound, TypeOK
    <2> QED
      BY <1>3, <2>2, <2>3, <2>4 DEF TypeOK, params
  <1>5. CASE ~done
    <2>1. SameRound
      BY <1>5 DEF Cycle, Clock
    <2>2. seen' \in [Inputs -> BOOLEAN] /\ has_win' \in BOOLEAN /\ emitted' \in BOOLEAN
      BY <2>1 DEF SameRound, arr
    <2>3. val' \in [Inputs -> Data]
      BY <2>1 DEF SameRound, Valid, TypeOK, Wire
    <2>4. winner' \in Data
      BY <1>2, <2>1 DEF SameRound, TypeOK
    <2> QED
      BY <1>3, <2>2, <2>3, <2>4 DEF TypeOK, params
  <1> QED
    BY <1>4, <1>5

LEMMA AnswerStep ==
  ASSUME IInv, Cycle
  PROVE  AnswerInv'
  <1>1. /\ TypeOK /\ cands \in CandidateLists /\ cands' = cands
        /\ Given \in Views /\ View \in Views /\ e_View \in Views
    BY ViewFacts DEF IInv, TypeOK, Cycle, params
  <1>2. CASE done /\ ~emitted
    BY <1>2 DEF Cycle, Clock, NextRound, AnswerInv
  <1>3. CASE done /\ emitted
    <2>1. Given' = e_View
      BY <1>1, <1>3, GivenStep, ViewFacts DEF Cycle
    <2>2. /\ has_win' <=> e_any_win
          /\ winner' = pay(e_View)
          /\ emitted' => early
      BY <1>3 DEF Cycle, Clock, NextRound
    <2>3. e_any_win => \E k \in Winners(e_View) : pay(e_View) = AnswerOf(e_View, cands[k])
      BY <1>1, PayLemma DEF e_any_win
    <2>4. has_win' => \E k \in Winners(Given)' : winner' = AnswerOf(Given', cands'[k])
      BY <1>1, <2>1, <2>2, <2>3 DEF Winners
    <2>5. emitted' /\ ~has_win' => AllRefused(Given', cands')
      BY <1>1, <2>1, <2>2 DEF early, e_all_ref
    <2> QED
      BY <2>4, <2>5 DEF AnswerInv
  <1>4. CASE ~done
    <2>1. Given' = View
      BY <1>1, <1>4, GivenStep DEF Cycle
    <2>2. /\ has_win' <=> has_win \/ any_win
          /\ winner' = IF ~has_win /\ any_win THEN pay(View) ELSE winner
          /\ emitted' <=> emitted \/ fire
      BY <1>4 DEF Cycle, Clock, SameRound
    <2>3. has_win => \E k \in Winners(View) : winner = AnswerOf(View, cands[k])
      BY HeldAnswer
    <2>4. any_win => \E k \in Winners(View) : pay(View) = AnswerOf(View, cands[k])
      BY <1>1, PayLemma DEF any_win
    <2>5. has_win' => \E k \in Winners(Given)' : winner' = AnswerOf(Given', cands'[k])
      BY <1>1, <2>1, <2>2, <2>3, <2>4 DEF Winners
    <2>6. emitted' /\ ~has_win' => all_ref
      BY <2>2, HeldAnswer DEF fire, valid_i
    <2>7. emitted' /\ ~has_win' => AllRefused(Given', cands')
      BY <1>1, <2>1, <2>6 DEF all_ref
    <2> QED
      BY <2>5, <2>7 DEF AnswerInv
  <1> QED
    BY <1>2, <1>3, <1>4

LEMMA IInvInit == Init => IInv
  <1> SUFFICES ASSUME Init PROVE IInv
    OBVIOUS
  <1>1. TypeOK
    BY ChannelAssumption DEF Init, InitRegs, TypeOK, AnyOffer
  <1>2. AnswerInv
    BY DEF Init, InitRegs, AnswerInv
  <1> QED
    BY <1>1, <1>2 DEF IInv

LEMMA IInvStep == IInv /\ [Next]_vars => IInv'
  <1> SUFFICES ASSUME IInv, [Next]_vars PROVE IInv'
    OBVIOUS
  <1>1. CASE Cycle
    BY <1>1, TypeStep, AnswerStep DEF IInv
  <1>2. CASE ResetCycle
    <2>1. TypeOK'
      BY <1>2, ChannelAssumption DEF ResetCycle, Reset, IInv, TypeOK, Wire, params
    <2>2. AnswerInv'
      BY <1>2 DEF ResetCycle, Reset, AnswerInv
    <2> QED
      BY <2>1, <2>2 DEF IInv
  <1>3. CASE UNCHANGED vars
    BY <1>3 DEF vars, params, regs, wires, IInv, TypeOK, AnswerInv, Winners, Given
  <1> QED
    BY <1>1, <1>2, <1>3 DEF Next

\* In every reachable state the answer held or given is that of a candidate
\* which the tokens given so far let win.
THEOREM RaceInvariance == Spec => []IInv
  BY IInvInit, IInvStep, PTL DEF Spec
-----------------------------------------------------------------------------
(* The rounds of DecisionRound.                                            *)

\* The answers of a view, as the decision and as the multiplexer see them.
LEMMA AnswersFacts ==
  ASSUME cands \in CandidateLists, NEW v \in Views
  PROVE  /\ Round!Answers(v, cands) = {} <=> Winners(v) = {} /\ ~AllRefused(v, cands)
         /\ \A k \in Winners(v) : AnswerOf(v, cands[k]) \in Round!Answers(v, cands)
         /\ AllRefused(v, cands) => Zero \in Round!Answers(v, cands)
         /\ Winners(v) # {} \/ AllRefused(v, cands) => pay(v) \in Round!Answers(v, cands)
  <1>1. Round!Answers(v, cands) =
          {AnswerOf(v, cands[k]) : k \in Winners(v)}
            \cup (IF AllRefused(v, cands) THEN {Zero} ELSE {})
    BY DEF Round!Answers, Round!AnswerOf, Round!WinsIn, Round!AllRefused, Round!EnabledIn,
           Round!RefusedIn, Round!Needs, Round!Carries, Round!Empties, Round!Valid,
           AnswerOf, Winners, WinsIn, AllRefused, EnabledIn, RefusedIn, Needs,
           Carries, Empties, Valid
  <1> QED
    BY <1>1, PayLemma

\* The round that the registers stand for, in the unit's own terms.
LEMMA RoundFacts ==
  ASSUME TypeOK
  PROVE  /\ Round!Now = View
         /\ Round!AllIn <=> closing
         /\ Round!Valid(Answer) <=> emitted
         /\ \A i \in Inputs : Round!Again(i) <=> again(i)
         /\ Round!NextRound = Seconds
         /\ Round!Valid(outs) <=> valid_i \/ early
         /\ Round!Complete <=> done
  <1>1. Round!Now = View
    <2>1. \A i \in Inputs : (IF Round!Valid(Given[i]) THEN Given[i] ELSE ins[i]) = View[i]
      BY ViewFacts DEF Round!Valid, Valid, Given, View
    <2> QED
      BY <2>1 DEF Round!Now, View
  <1>2. Round!AllIn <=> closing
    BY <1>1, ViewFacts DEF Round!AllIn, Round!Valid, Valid, closing
  <1>3. Round!Valid(Answer) <=> emitted
    BY ChannelAssumption DEF Round!Valid, Answer, TypeOK
  <1>4. \A i \in Inputs : Round!Again(i) <=> again(i)
    BY ViewFacts DEF Round!Again, Round!Valid, Valid, again, ins_ready
  <1>5. Round!NextRound = Seconds
    BY <1>4 DEF Round!NextRound, Seconds
  <1>6. Round!Valid(outs) <=> valid_i \/ early
    <2>1. pay(View) \in Data /\ pay(e_View) \in Data /\ winner \in Data
      BY ViewFacts, PayLemma DEF TypeOK
    <2> QED
      BY <2>1, ChannelAssumption DEF Round!Valid, outs
  <1>7. Round!Complete <=> done
    BY <1>2, <1>3, <1>6 DEF Round!Complete, Round!Taken, done, fire, early
  <1> QED
    BY <1>1, <1>2, <1>3, <1>4, <1>5, <1>6, <1>7

\* `done_wo` foresees, from the other inputs alone, that the round completes.
LEMMA OneTokenLemma == IInv => OneTokenARound
  <1> SUFFICES ASSUME IInv, NEW i \in Inputs
               PROVE  /\ Round!Again(i) => Round!Complete
                      /\ Round!Valid(ins[i]) /\ ~Round!Valid(Given[i]) => ins_ready[i]
    BY DEF OneTokenARound, Round!OneTokenARound
  <1>1. TypeOK
    BY DEF IInv
  <1>2. again(i) => done
    <2> SUFFICES ASSUME again(i) PROVE done
      OBVIOUS
    <2>1. closing /\ (emitted \/ outs_ready)
      BY DEF again, done_wo, others_in, closing, arr
    <2>2. any_win \/ all_ref
      BY <1>1, <2>1, ClosingDecides
    <2> QED
      BY <2>1, <2>2 DEF done, fire, valid_i
  <1>3. ~Round!Valid(Given[i]) => ~seen[i]
    BY <1>1, ViewFacts DEF Round!Valid, Valid
  <1> QED
    BY <1>1, <1>2, <1>3, RoundFacts DEF ins_ready

LEMMA PromptLemma == IInv => Prompt
  <1> SUFFICES ASSUME IInv PROVE Prompt
    OBVIOUS
  <1>1. /\ TypeOK /\ cands \in CandidateLists
        /\ View \in Views /\ e_View \in Views
    BY ViewFacts DEF IInv, TypeOK
  <1>2. CASE ~emitted
    <2>1. Round!Decided = Round!Answers(View, cands)
      BY <1>1, <1>2, RoundFacts DEF Round!Decided
    <2>2. ~early /\ (valid_i <=> any_win \/ all_ref)
      BY <1>2, HeldAnswer DEF valid_i, early
    <2>3. valid_i => outs = IF has_win THEN winner ELSE pay(View)
      BY <1>2 DEF outs
    <2>4. has_win => winner \in Round!Answers(View, cands)
      BY <1>1, HeldAnswer, AnswersFacts
    <2>5. valid_i => outs \in Round!Answers(View, cands)
      BY <1>1, <2>2, <2>3, <2>4, AnswersFacts DEF any_win, all_ref
    <2>6. Round!Answers(View, cands) = {} => ~valid_i
      BY <1>1, <2>2, AnswersFacts DEF any_win, all_ref
    <2>7. Round!Answers(View, cands) # {} => valid_i
      BY <1>1, <2>2, AnswersFacts DEF any_win, all_ref
    <2> QED
      BY <1>1, <2>1, <2>2, <2>5, <2>6, <2>7, RoundFacts DEF Prompt, Round!Prompt
  <1>3. CASE emitted
    <2>1. ~valid_i
      BY <1>3 DEF valid_i
    <2>2. CASE ~closing
      BY <1>1, <1>3, <2>1, <2>2, RoundFacts
      DEF Prompt, Round!Prompt, Round!Decided, early
    <2>3. CASE closing
      <3>1. Round!Decided = Round!Answers(e_View, cands)
        BY <1>1, <1>3, <2>3, RoundFacts, ViewFacts DEF Round!Decided
      <3>2. early <=> Round!Answers(e_View, cands) # {}
        BY <1>1, <1>3, <2>3, AnswersFacts DEF early, e_any_win, e_all_ref
      <3>3. early => outs = pay(e_View)
        BY <1>3 DEF outs
      <3>4. early => pay(e_View) \in Round!Answers(e_View, cands)
        BY <1>1, AnswersFacts DEF early, e_any_win, e_all_ref
      <3> QED
        BY <1>1, <2>1, <3>1, <3>2, <3>3, <3>4, RoundFacts DEF Prompt, Round!Prompt
    <2> QED
      BY <2>2, <2>3
  <1> QED
    BY <1>2, <1>3

LEMMA StandsLemma == IInv => AnswerStands
  <1> SUFFICES ASSUME IInv, done
               PROVE  (IF Round!Valid(Answer) THEN Answer ELSE outs) \in Round!Answers(View, cands)
    BY RoundFacts DEF AnswerStands, Round!AnswerStands, IInv
  <1>1. TypeOK /\ cands \in CandidateLists /\ View \in Views
    BY ViewFacts DEF IInv, TypeOK
  <1>2. CASE emitted
    <2>1. has_win => Answer = winner /\ winner \in Round!Answers(View, cands)
      BY <1>1, <1>2, HeldAnswer, AnswersFacts DEF Answer
    <2>2. ~has_win => Answer = Zero /\ Zero \in Round!Answers(View, cands)
      BY <1>1, <1>2, HeldAnswer, AnswersFacts DEF Answer, all_ref
    <2> QED
      BY <1>1, <1>2, <2>1, <2>2, RoundFacts
  <1>3. CASE ~emitted
    <2>1. valid_i
      BY <1>3 DEF done, fire
    <2>2. Round!Valid(outs) /\ ~Round!Valid(Answer) /\ Round!Now = View
      BY <1>1, <1>3, <2>1, RoundFacts
    <2> QED
      BY <2>2, PromptLemma DEF Prompt, Round!Prompt, Round!Decided
  <1> QED
    BY <1>2, <1>3

\* An input that gave this round's token is never asked for another before
\* the round completes, and its first token never waits.
THEOREM TokensAreTakenOnce == Spec => []OneTokenARound
  BY RaceInvariance, OneTokenLemma, PTL

\* The answer is out exactly when the tokens that arrived determine one.
THEOREM AnswersArePrompt == Spec => []Prompt
  BY RaceInvariance, PromptLemma, PTL

\* What the race answered early is right by the complete round.
THEOREM AnswersStand == Spec => []AnswerStands
  BY RaceInvariance, StandsLemma, PTL
-----------------------------------------------------------------------------
(* How the rounds follow each other.                                       *)

\* The next cycle's view has the tokens that are given by then.
LEMMA ViewNext == IInv' => /\ (cands \in CandidateLists)'
                           /\ (Given \in Views)' /\ (View \in Views)'
                           /\ Extends(Given, View)'
  <1>1. IInv => /\ cands \in CandidateLists
                /\ Given \in Views /\ View \in Views
                /\ Extends(Given, View)
    BY ViewFacts DEF IInv, TypeOK
  <1> QED
    BY <1>1, PTL

\* A round that found every candidate refused goes on to answer zero.
LEMMA RefusedStays ==
  ASSUME IInv', AllRefused(Given', cands'), ~has_win', ~emitted'
  PROVE  outs' = Zero
  <1>1. /\ cands' \in CandidateLists /\ Given' \in Views /\ View' \in Views
        /\ Extends(Given', View')
    BY ViewNext DEF Views, Extends
  <1>2. AllRefused(View', cands')
    BY <1>1, MonotoneWins
  <1>3. all_ref'
    BY <1>2 DEF all_ref
  <1>4. (\A k \in DOMAIN cands : ~WinsIn(View, cands, k))'
    BY <1>1, <1>2, EnabledOrRefused DEF AllRefused, WinsIn
  <1>5. (Winners(View) = {})'
    BY <1>4 DEF Winners
  <1>6. pay(View)' = Zero
    BY <1>5 DEF pay
  <1>7. valid_i'
    BY <1>3 DEF valid_i
  <1> QED
    BY <1>6, <1>7 DEF outs

\* An answer that the sink does not take is offered again.
LEMMA OutsHold ==
  ASSUME IInv, IInv', Cycle, Round!Holds(outs, outs_ready)
  PROVE  outs' = outs
  <1>1. /\ TypeOK /\ cands \in CandidateLists /\ cands' = cands
        /\ View \in Views /\ e_View \in Views
    BY ViewFacts DEF IInv, TypeOK, Cycle, params
  <1>2. (valid_i \/ early) /\ ~outs_ready
    BY <1>1, RoundFacts DEF Round!Holds
  <1>3. ASSUME has_win', ~emitted' PROVE outs' = winner'
    BY <1>3 DEF outs, valid_i
  <1>4. CASE ~emitted
    <2>1. valid_i /\ ~done /\ ~fire
      BY <1>2, <1>4 DEF early, done, fire
    <2>2. /\ Given' = View /\ ~emitted'
          /\ has_win' <=> has_win \/ any_win
          /\ winner' = IF ~has_win /\ any_win THEN pay(View) ELSE winner
      BY <1>1, <1>4, <2>1, GivenStep DEF Cycle, Clock, SameRound
    <2>3. outs = IF has_win THEN winner ELSE pay(View)
      BY <1>4, <2>1 DEF outs
    <2>4. CASE has_win \/ any_win
      BY <1>3, <2>2, <2>3, <2>4
    <2>5. CASE ~(has_win \/ any_win)
      <3>1. all_ref /\ pay(View) = Zero
        BY <1>1, <2>1, <2>5, PayLemma DEF valid_i, any_win
      <3>2. AllRefused(Given', cands') /\ ~has_win'
        BY <1>1, <2>2, <2>5, <3>1 DEF all_ref
      <3> QED
        BY <2>2, <2>3, <2>5, <3>1, <3>2, RefusedStays
    <2> QED
      BY <2>4, <2>5
  <1>5. CASE emitted
    <2>1. early /\ done
      BY <1>2, <1>5 DEF valid_i, early, done
    <2>2. /\ Given' = e_View /\ ~emitted'
          /\ has_win' <=> e_any_win
          /\ winner' = pay(e_View)
      BY <1>1, <1>2, <1>5, <2>1, GivenStep, ViewFacts DEF Cycle, Clock, NextRound
    <2>3. outs = pay(e_View)
      BY <1>5, <2>1 DEF outs
    <2>4. CASE e_any_win
      BY <1>3, <2>2, <2>3, <2>4
    <2>5. CASE ~e_any_win
      <3>1. e_all_ref /\ pay(e_View) = Zero
        BY <1>1, <2>1, <2>5, PayLemma DEF early, e_any_win
      <3>2. AllRefused(Given', cands') /\ ~has_win'
        BY <1>1, <2>2, <2>5, <3>1 DEF e_all_ref
      <3> QED
        BY <2>2, <2>3, <3>1, <3>2, RefusedStays
    <2> QED
      BY <2>4, <2>5
  <1> QED
    BY <1>4, <1>5

\* The answer of the round after a cycle.
LEMMA AnswerNext ==
  ASSUME IInv, Cycle
  PROVE  /\ done /\ emitted /\ early /\ outs_ready => Answer' = outs
         /\ done /\ ~(emitted /\ early /\ outs_ready) => Answer' = NoToken
         /\ ~done /\ fire => Answer' = outs
         /\ ~done /\ ~fire => Answer' = Answer
  <1>1. /\ TypeOK /\ cands \in CandidateLists
        /\ View \in Views /\ e_View \in Views
    BY ViewFacts DEF IInv, TypeOK
  <1>2. ASSUME done
        PROVE  /\ emitted' <=> emitted /\ early /\ outs_ready
               /\ emitted => (has_win' <=> e_any_win) /\ winner' = pay(e_View)
    BY <1>2 DEF Cycle, Clock, NextRound
  <1>3. ASSUME ~done
        PROVE  /\ emitted' <=> emitted \/ fire
               /\ has_win' <=> has_win \/ any_win
               /\ winner' = IF ~has_win /\ any_win THEN pay(View) ELSE winner
    BY <1>3 DEF Cycle, Clock, SameRound
  <1>4. ASSUME done, emitted, early, outs_ready PROVE Answer' = outs
    <2>1. outs = pay(e_View)
      BY <1>4 DEF outs
    <2>2. ~e_any_win => pay(e_View) = Zero
      BY <1>1, PayLemma DEF e_any_win
    <2> QED
      BY <1>2, <1>4, <2>1, <2>2 DEF Answer
  <1>5. ASSUME done, ~(emitted /\ early /\ outs_ready) PROVE Answer' = NoToken
    BY <1>2, <1>5 DEF Answer
  <1>6. ASSUME ~done, fire PROVE Answer' = outs
    <2>1. outs = IF has_win THEN winner ELSE pay(View)
      BY <1>6 DEF outs, fire, valid_i
    <2>2. ~any_win => pay(View) = Zero
      BY <1>1, PayLemma DEF any_win
    <2> QED
      BY <1>3, <1>6, <2>1, <2>2 DEF Answer
  <1>7. ASSUME ~done, ~fire PROVE Answer' = Answer
    <2>1. emitted => (has_win' <=> has_win)
      BY <1>3, <1>7, HeldAnswer
    <2>2. has_win => winner' = winner
      BY <1>3, <1>7
    <2> QED
      BY <1>3, <1>7, <2>1, <2>2 DEF Answer, IInv, TypeOK
  <1> QED
    BY <1>4, <1>5, <1>6, <1>7

\* Every cycle of the race is a cycle of the decision.
LEMMA CycleRefines == IInv /\ IInv' /\ Cycle => Round!Cycle
  <1> SUFFICES ASSUME IInv, IInv', Cycle PROVE Round!Cycle
    OBVIOUS
  <1>1. TypeOK /\ Clock /\ cands' = cands
    BY DEF IInv, Cycle, params
  <1>2. Given' = IF Round!Complete THEN Round!NextRound ELSE Round!Now
    BY <1>1, GivenStep, RoundFacts
  <1>3. Round!Taken <=> (valid_i \/ early) /\ outs_ready
    BY <1>1, RoundFacts DEF Round!Taken
  <1>4. /\ early => emitted /\ closing
        /\ valid_i => ~emitted
    BY DEF early, valid_i
  <1>5. /\ emitted /\ Round!Taken <=> emitted /\ early /\ outs_ready
        /\ ~done /\ Round!Taken <=> ~done /\ fire
    BY <1>3, <1>4 DEF done, fire
  <1>6. Answer' = CASE Round!Complete /\ Round!Valid(Answer) /\ Round!Taken -> outs
                    [] Round!Complete /\ ~(Round!Valid(Answer) /\ Round!Taken) -> NoToken
                    [] ~Round!Complete /\ Round!Taken -> outs
                    [] OTHER -> Answer
    <2>1. (Round!Complete <=> done) /\ (Round!Valid(Answer) <=> emitted)
      BY <1>1, RoundFacts
    <2>2. /\ Round!Complete /\ Round!Valid(Answer) /\ Round!Taken => Answer' = outs
          /\ Round!Complete /\ ~(Round!Valid(Answer) /\ Round!Taken) => Answer' = NoToken
          /\ ~Round!Complete /\ Round!Taken => Answer' = outs
          /\ ~Round!Complete /\ ~Round!Taken => Answer' = Answer
      BY <1>5, <2>1, AnswerNext
    <2> QED
      BY <2>2
  <1>7. Round!Holds(outs, outs_ready) => outs' = outs
    BY OutsHold
  <1>8. \A i \in Inputs : Round!Holds(ins[i], ins_ready[i]) => ins'[i] = ins[i]
    BY DEF Cycle, Holds, Valid, Round!Holds, Round!Valid
  <1> QED
    BY <1>1, <1>2, <1>6, <1>7, <1>8 DEF Round!Cycle

\* The race implements DecisionRound: one token of every input and one answer
\* a round, and an answer that is not taken is held.
THEOREM RaceImplementsRounds == Spec => KeepsRounds
  <1>1. Init => Round!Init
    <2> SUFFICES ASSUME Init PROVE Round!Init
      OBVIOUS
    <2>1. Given = Round!Nothing
      BY DEF Init, InitRegs, Given, Round!Nothing
    <2> QED
      BY <2>1 DEF Init, InitRegs, Answer, Round!Init
  <1>2. ResetCycle => Round!Reset
    <2> SUFFICES ASSUME ResetCycle PROVE Round!Reset
      OBVIOUS
    <2>1. Given' = Round!Nothing
      BY DEF ResetCycle, Reset, Given, Round!Nothing
    <2>2. Answer' = NoToken
      BY DEF ResetCycle, Reset, Answer
    <2> QED
      BY <2>1, <2>2 DEF ResetCycle, params, Round!Reset
  <1>3. UNCHANGED vars => UNCHANGED Round!vars
    BY DEF vars, params, regs, wires, Round!vars, Given, Answer, ins_ready, outs, done_wo,
           others_in, arr, valid_i, early, any_win, all_ref, e_any_win, e_all_ref, closing,
           View, e_View, Winners, pay
  <1>4. IInv /\ IInv' /\ [Next]_vars => [Round!Cycle \/ Round!Reset]_(Round!vars)
    BY <1>2, <1>3, CycleRefines DEF Next
  <1> QED
    BY <1>1, <1>4, RaceInvariance, PTL DEF Spec, KeepsRounds, Round!Spec
=============================================================================
