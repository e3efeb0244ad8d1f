-------------------------- MODULE KillDomainProofs --------------------------
(***************************************************************************)
(* Proofs about a kill domain of two guards, for any number of rounds told *)
(* apart and whichever of the guards load.                                 *)
(***************************************************************************)
EXTENDS KillDomain, TLAPS

Bit(b) == IF b THEN 1 ELSE 0

\* The youngest request of a load: address slot, memory, word slot.
Newest(s, m, w) == IF Valid(s) THEN s ELSE IF Valid(m) THEN m ELSE w

\* A guard with latch l, places s, m and w of its load, counts o and d,
\* argument x of the round, and sn when its token of the round has passed the
\* stand-in.  All requests of a load are dead but at most the youngest, and
\* the argument is in one place: the latch, that request, or gone.
GuardInv(ld, l, s, m, w, o, d, x, sn) ==
  /\ o = Bit(Valid(s)) + Bit(Valid(m)) + Bit(Valid(w))
  /\ ~ld => o = 0
  /\ d = o \/ d + 1 = o
  /\ d # o => ~Valid(l) /\ ~sn /\ Valid(x) /\ Newest(s, m, w) = x
  /\ Valid(l) => l = x /\ ~sn
  /\ d = o /\ ~Valid(l) => (Valid(x) <=> sn)

GuardsInv ==
  \A g \in Guards : GuardInv(g \in loading, latch[g], addrSlot[g], memWord[g], wordSlot[g],
                             owed[g], drop[g], arg[g], sent[g])

\* Arguments belong to the round, and come once.
RoundInv ==
  /\ \A g \in Guards : /\ arg[g] \in Arguments(round) /\ start[g] \in Arguments(round)
                       /\ Valid(arg[g]) => start[g] = NoToken
  /\ round = IF killed THEN After(taken) ELSE taken

\* Between a kill and the end of the decision unit's round, every input has
\* given its token or a zero is owed for it; otherwise the unit and the
\* stand-ins agree on who has given one.
PhaseInv ==
  /\ killed => kill_at_valid /\ ~emitted
  /\ IF killed \/ emitted THEN \A g \in Guards : owe[g] = ~seen[g] /\ ~sent[g]
                          ELSE \A g \in Guards : ~owe[g] /\ seen[g] = sent[g]

\* What the decision unit knows of the round.
FirstKnows ==
  /\ found => \E g \in Guards : sent[g] /\ arg[g] = round /\ held = arg[g]
  /\ ~found => \A g \in Guards : sent[g] => arg[g] # round
PriorityKnows ==
  /\ found <=> sent[1] /\ arg[1] = round
  /\ found => held = arg[1]
  /\ ~found /\ sent[2] => held = Body(arg[2])
ValueInv ==
  ~killed /\ ~emitted => IF decider = "first" THEN FirstKnows ELSE PriorityKnows

IInv == TypeOK /\ GuardsInv /\ RoundInv /\ PhaseInv /\ ValueInv /\ Promise
-----------------------------------------------------------------------------
(* The wires, read through the instances.                                  *)

\* What a latch offers, a load asks for, and a load has for its guard.
In(g) == IF Valid(latch[g]) THEN latch[g] ELSE start[g]
Asked(g) == IF Valid(addrSlot[g]) THEN addrSlot[g] ELSE IF g \in loading THEN In(g) ELSE NoToken
Loaded(g) == IF Valid(wordSlot[g]) THEN wordSlot[g] ELSE memWord[g]
Takes(g) == flags_ready[g] /\ ~owe[g]
Granted(g, busy) == g \in Mem(busy)!ready

\* What a guard works on: nothing while its load is dropping words.
LEMMA WordWire ==
  \A g \in Guards :
    word(g) = IF g \in loading THEN (IF drop[g] # 0 THEN NoToken ELSE Loaded(g)) ELSE In(g)
  BY DEF word, In, Loaded, LatchOffer!outs, LoadOffer!dataOut, LoadOffer!dropping,
         LoadOffer!Word!outs, Valid, LatchOffer!Valid, LoadOffer!Valid, LoadOffer!Word!Valid

\* A stand-in shows the zero it owes before anything of its producer.
LEMMA FlagWire ==
  \A g \in Guards : flags[g] = IF owe[g] THEN Zero ELSE Body(word(g))
  BY DEF flags, StandOffer!outs

\* When the commit kills, in either form.
LEMMA KillWire ==
  kill <=> Valid(decision) /\ (IF kill_at_valid THEN ~killed ELSE outs_ready)
  BY DEF kill, Cm!kill, Valid, Cm!Valid

\* When an argument enters its latch.
LEMMA EnteringWire ==
  \A g \in Guards : Entering(g) <=> Valid(start[g]) /\ ~Valid(latch[g])
  BY DEF Entering, Latch!ins_ready, Valid

\* The memory grants what is asked of it, when the word can be taken.
LEMMA GrantWire ==
  ASSUME NEW busy \in BOOLEAN, NEW g \in Guards
  PROVE  /\ Granted(g, busy) => Valid(Asked(g)) /\ ~Valid(wordSlot[g])
         /\ Mem(busy)!dataOut_next[g] = IF Granted(g, busy) THEN Asked(g)
                                        ELSE IF Valid(wordSlot[g]) THEN memWord[g] ELSE NoToken
  <1>1. g # 0 /\ g \in Guards \cup {0}
    BY KillDomainAssumption
  <1>2. LoadOffer(g)!addrOut = Asked(g)
    BY DEF Asked, In, LoadOffer!addrOut, LoadOffer!Addr!outs, LatchOffer!outs,
           Valid, LoadOffer!Valid, LoadOffer!Addr!Valid
  <1>3. LoadOffer(g)!dataFromMem_ready <=> ~Valid(wordSlot[g])
    BY DEF LoadOffer!dataFromMem_ready, LoadOffer!Word!ins_ready,
           Valid, LoadOffer!Valid, LoadOffer!Word!Valid
  <1>4. Mem(busy)!asks(g) <=> Valid(Asked(g)) /\ ~Valid(wordSlot[g])
    BY <1>1, <1>2, <1>3 DEF Mem!asks, Valid, Mem!Valid
  <1>5. Granted(g, busy) <=> Mem(busy)!priorityOut(g)
    BY <1>1, <1>3, <1>4 DEF Granted, Mem!ready, Mem!priorityOut
  <1>6. Mem(busy)!priorityOut(g) => Mem(busy)!asks(g)
    BY DEF Mem!priorityOut
  <1>7. Mem(busy)!dataOut_next[g]
          = IF Mem(busy)!priorityOut(g) THEN Asked(g)
            ELSE IF Valid(wordSlot[g]) THEN memWord[g] ELSE NoToken
    BY <1>1, <1>2, <1>3 DEF Mem!dataOut_next, ReadWord
  <1> QED
    BY <1>4, <1>5, <1>6, <1>7

\* What the registers of a guard become in a cycle of the circuit.
LEMMA GuardWires ==
  ASSUME NEW busy \in BOOLEAN, Circuit(busy), NEW g \in Guards
  PROVE  /\ latch'[g] = IF /\ ~kill /\ Valid(In(g))
                           /\ ~(IF g \in loading THEN ~Valid(addrSlot[g]) ELSE Takes(g))
                        THEN In(g) ELSE NoToken
         /\ addrSlot'[g] = IF Valid(Asked(g)) /\ ~Granted(g, busy) THEN Asked(g) ELSE NoToken
         /\ memWord'[g] = IF Granted(g, busy) THEN Asked(g)
                          ELSE IF Valid(wordSlot[g]) THEN memWord[g] ELSE NoToken
         /\ wordSlot'[g] = IF Valid(Loaded(g)) /\ ~(Takes(g) \/ drop[g] # 0)
                           THEN Loaded(g) ELSE NoToken
         /\ owed'[g] = (owed[g] + Bit(/\ g \in loading /\ Valid(In(g)) /\ ~Valid(addrSlot[g]))
                          + 4 - Bit(Valid(Loaded(g)) /\ (Takes(g) \/ drop[g] # 0))) % 4
         /\ drop'[g] = IF kill THEN owed'[g]
                       ELSE IF drop[g] # 0 /\ Valid(Loaded(g)) THEN drop[g] - 1 ELSE drop[g]
         /\ sent'[g] = (~kill /\ (sent[g] \/ (Valid(Body(word(g))) /\ Takes(g))))
         /\ owe'[g] = \/ kill /\ ~(sent[g] \/ (Valid(Body(word(g))) /\ Takes(g)))
                      \/ owe[g] /\ ~flags_ready[g]
  <1>1. Stand(g)!ins_ready <=> Takes(g)
    BY DEF Stand!ins_ready, Takes
  <1>2. LatchOffer(g)!outs = In(g)
    BY DEF LatchOffer!outs, In
  <1>3. LoadOffer(g)!addrIn_ready <=> ~Valid(addrSlot[g])
    BY DEF LoadOffer!addrIn_ready, LoadOffer!Addr!ins_ready,
           Valid, LoadOffer!Valid, LoadOffer!Addr!Valid
  <1>4. latch'[g] = IF /\ ~kill /\ Valid(In(g))
                       /\ ~(IF g \in loading THEN ~Valid(addrSlot[g]) ELSE Takes(g))
                    THEN In(g) ELSE NoToken
    <2>1. latch'[g] = Latch(g)!slot_next
      BY DEF Circuit
    <2> QED
      BY <1>1, <1>3, <2>1 DEF In, Latch!slot_next, Latch!fullReg_next, Latch!dataReg_next,
         Latch!outputValid, Latch!ins_ready, Valid, Latch!Valid
  <1>5. addrSlot'[g] = IF Valid(Asked(g)) /\ ~Granted(g, busy) THEN Asked(g) ELSE NoToken
    <2>1. addrSlot'[g] = Load(g, busy)!addrSlot_next
      BY DEF Circuit
    <2> QED
      BY <1>2, <2>1 DEF Asked, Granted, Load!addrSlot_next, Load!Addr!slot_next,
         Load!Addr!fullReg_next, Load!Addr!dataReg_next, Load!Addr!outputValid,
         Load!Addr!ins_ready, Valid, Load!Valid, Load!Addr!Valid
  <1>6. memWord'[g] = IF Granted(g, busy) THEN Asked(g)
                      ELSE IF Valid(wordSlot[g]) THEN memWord[g] ELSE NoToken
    BY GrantWire DEF Circuit
  <1>7. wordSlot'[g] = IF Valid(Loaded(g)) /\ ~(Takes(g) \/ drop[g] # 0)
                       THEN Loaded(g) ELSE NoToken
    <2>1. wordSlot'[g] = Load(g, busy)!wordSlot_next
      BY DEF Circuit
    <2> QED
      BY <1>1, <2>1 DEF Loaded, Load!wordSlot_next, Load!Word!slot_next,
         Load!Word!fullReg_next, Load!Word!dataReg_next, Load!Word!outputValid,
         Load!Word!ins_ready, Load!word_ready, Load!dropping, Valid, Load!Valid, Load!Word!Valid
  <1>8. Load(g, busy)!passed <=> Valid(Loaded(g)) /\ (Takes(g) \/ drop[g] # 0)
    BY <1>1 DEF Loaded, Load!passed, Load!Word!outs, Load!word_ready, Load!dropping,
       Valid, Load!Valid, Load!Word!Valid
  <1>9. Load(g, busy)!accepted <=> g \in loading /\ Valid(In(g)) /\ ~Valid(addrSlot[g])
    BY <1>2 DEF Load!accepted, Load!addrIn_ready, Load!Addr!ins_ready,
       Valid, Load!Valid, Load!Addr!Valid
  <1>10. owed'[g] = Load(g, busy)!owed_next
    BY DEF Circuit
  <1>11. Load(g, busy)!owed_next
           = (owed[g] + Bit(/\ g \in loading /\ Valid(In(g)) /\ ~Valid(addrSlot[g]))
                + 4 - Bit(Valid(Loaded(g)) /\ (Takes(g) \/ drop[g] # 0))) % 4
    BY <1>8, <1>9 DEF Load!owed_next, Load!One, Bit
  <1>12. drop'[g] = IF kill THEN owed'[g]
                    ELSE IF drop[g] # 0 /\ Valid(Loaded(g)) THEN drop[g] - 1 ELSE drop[g]
    <2>1. drop'[g] = Load(g, busy)!drop_next
      BY DEF Circuit
    <2> QED
      BY <1>8, <1>10, <2>1 DEF Load!drop_next, Load!dropping
  <1>13. Stand(g)!passed <=> Valid(Body(word(g))) /\ Takes(g)
    BY DEF Stand!passed, Takes, Valid, Stand!Valid
  <1>14. sent'[g] = Stand(g)!sent_next /\ owe'[g] = Stand(g)!owe_next
    BY DEF Circuit
  <1>15. sent'[g] = (~kill /\ (sent[g] \/ (Valid(Body(word(g))) /\ Takes(g))))
    BY <1>13, <1>14 DEF Stand!sent_next
  <1>16. owe'[g] = \/ kill /\ ~(sent[g] \/ (Valid(Body(word(g))) /\ Takes(g)))
                   \/ owe[g] /\ ~flags_ready[g]
    BY <1>13, <1>14 DEF Stand!owe_next
  <1> QED
    BY <1>4, <1>5, <1>6, <1>7, <1>10, <1>11, <1>12, <1>15, <1>16
-----------------------------------------------------------------------------
(* One guard.                                                              *)

LEMMA GuardTypes ==
  ASSUME TypeOK, NEW g \in Guards
  PROVE  /\ latch[g] \in Wire /\ addrSlot[g] \in Wire /\ memWord[g] \in Wire
         /\ wordSlot[g] \in Wire /\ start[g] \in Wire /\ arg[g] \in Wire
         /\ owed[g] \in 0 .. 3 /\ drop[g] \in 0 .. 3
         /\ sent[g] \in BOOLEAN /\ owe[g] \in BOOLEAN /\ seen[g] \in BOOLEAN
  BY DEF TypeOK

\* What a guard works on is its argument of this round, and it works only as
\* long as its token has not passed the stand-in.
LEMMA WordFacts ==
  ASSUME TypeOK, GuardsInv, RoundInv, NEW g \in Guards
  PROVE  Valid(word(g)) => word(g) = Argument(g) /\ ~sent[g]
  <1> DEFINE l == latch[g]  s == addrSlot[g]  m == memWord[g]  w == wordSlot[g]
             o == owed[g]  d == drop[g]  x == arg[g]  sn == sent[g]  st == start[g]
  <1>1. /\ GuardInv(g \in loading, l, s, m, w, o, d, x, sn)
        /\ Valid(x) => st = NoToken
    BY DEF GuardsInv, RoundInv
  <1>2. o \in 0 .. 3 /\ d \in 0 .. 3
    BY GuardTypes
  <1>3. word(g) = IF g \in loading
                  THEN (IF d # 0 THEN NoToken ELSE IF Valid(w) THEN w ELSE m)
                  ELSE IF Valid(l) THEN l ELSE st
    BY WordWire DEF Loaded, In
  <1>4. Argument(g) = IF Valid(x) THEN x ELSE st
    BY DEF Argument
  <1> HIDE DEF l, s, m, w, o, d, x, sn, st
  <1>5. CASE g \in loading
    <2> SUFFICES ASSUME Valid(word(g)) PROVE word(g) = x /\ Valid(x) /\ ~sn
      BY <1>4 DEF sn
    <2>1. d = 0 /\ word(g) = (IF Valid(w) THEN w ELSE m) /\ (Valid(w) \/ Valid(m))
      BY <1>3, <1>5 DEF Valid
    <2>2. o = Bit(Valid(s)) + Bit(Valid(m)) + Bit(Valid(w)) /\ (d = o \/ d + 1 = o)
      BY <1>1 DEF GuardInv
    <2>3. d # o /\ ~Valid(s) /\ (Valid(w) => ~Valid(m))
      BY <1>2, <2>1, <2>2 DEF Bit
    <2>4. Newest(s, m, w) = x /\ Valid(x) /\ ~sn
      BY <1>1, <2>3 DEF GuardInv
    <2> QED
      BY <2>1, <2>3, <2>4 DEF Newest
  <1>6. CASE g \notin loading
    <2>1. o = 0 /\ d = o /\ (Valid(l) => l = x /\ ~sn) /\ (~Valid(l) => (Valid(x) <=> sn))
      BY <1>1, <1>2, <1>6 DEF GuardInv
    <2> QED
      BY <1>1, <1>3, <1>4, <1>6, <2>1 DEF Valid, sn
  <1> QED
    BY <1>5, <1>6

\* Arguments and flags: the flag of a guard that holds is its argument.
LEMMA BodyFacts ==
  ASSUME TypeOK, GuardsInv, RoundInv, NEW g \in Guards
  PROVE  /\ round \in Data /\ round # Zero
         /\ Valid(Argument(g)) => /\ Argument(g) <= R <=> Argument(g) = round
                                  /\ Body(Argument(g)) = IF Argument(g) = round THEN round ELSE Zero
         /\ Valid(Body(word(g))) <=> Valid(word(g))
         /\ Valid(word(g)) => Body(word(g)) = IF Argument(g) = round THEN round ELSE Zero
         /\ Argument(g) \in Arguments(round) /\ Body(word(g)) \in Wire
  <1>1. /\ R \in Nat /\ R >= 2 /\ round \in 1 .. R /\ Data = 0 .. 2 * R /\ Zero = 0
        /\ NoToken \notin Data
    BY KillDomainAssumption, ChannelAssumption DEF TypeOK
  <1>2. Argument(g) \in Arguments(round)
    BY DEF Argument, RoundInv
  <1>3. round \in Data /\ R + round \in Data /\ round # Zero
    BY <1>1
  <1>4. ASSUME Valid(Argument(g))
        PROVE  /\ Argument(g) <= R <=> Argument(g) = round
               /\ Body(Argument(g)) = IF Argument(g) = round THEN round ELSE Zero
    <2>1. Argument(g) = round \/ Argument(g) = R + round
      BY <1>2, <1>4 DEF Arguments, Valid
    <2> QED
      BY <1>1, <1>4, <2>1 DEF Body
  <1>5. Valid(word(g)) => word(g) = Argument(g)
    BY WordFacts
  <1>6. Valid(Zero) /\ Valid(round)
    BY <1>1, <1>3 DEF Valid
  <1>7. ~Valid(word(g)) => Body(word(g)) = word(g)
    BY DEF Body
  <1> QED
    BY <1>1, <1>2, <1>3, <1>4, <1>5, <1>6, <1>7 DEF Wire, Valid

\* A kill stops the guard: nothing of it is left but requests to be dropped.
LEMMA GuardKilled ==
  ASSUME TypeOK, GuardsInv, RoundInv, NEW busy \in BOOLEAN, Circuit(busy), History, kill,
         NEW g \in Guards
  PROVE  /\ owed'[g] \in 0 .. 3 /\ drop'[g] \in 0 .. 3
         /\ GuardInv(g \in loading, latch'[g], addrSlot'[g], memWord'[g], wordSlot'[g],
                     owed'[g], drop'[g], arg'[g], sent'[g])
  <1> DEFINE l == latch[g]  s == addrSlot[g]  m == memWord[g]  w == wordSlot[g]
             o == owed[g]  d == drop[g]
             l2 == latch'[g]  s2 == addrSlot'[g]  m2 == memWord'[g]  w2 == wordSlot'[g]
             o2 == owed'[g]  d2 == drop'[g]  x2 == arg'[g]  sn2 == sent'[g]
             ld == g \in loading  a == In(g)  gr == Granted(g, busy)  rd == Takes(g)
             ask == Asked(g)  got == Loaded(g)
  <1>1. /\ l2 = NoToken /\ x2 = NoToken /\ sn2 = FALSE /\ d2 = o2
    BY GuardWires DEF History
  <1>2. /\ s2 = IF Valid(ask) /\ ~gr THEN ask ELSE NoToken
        /\ m2 = IF gr THEN ask ELSE IF Valid(w) THEN m ELSE NoToken
        /\ w2 = IF Valid(got) /\ ~(rd \/ d # 0) THEN got ELSE NoToken
        /\ o2 = (o + Bit(ld /\ Valid(a) /\ ~Valid(s)) + 4 - Bit(Valid(got) /\ (rd \/ d # 0))) % 4
        /\ gr => Valid(ask) /\ ~Valid(w)
    BY GuardWires, GrantWire
  <1>3. /\ ask = IF Valid(s) THEN s ELSE IF ld THEN a ELSE NoToken
        /\ got = IF Valid(w) THEN w ELSE m
    BY DEF Asked, Loaded
  <1>4. /\ o = Bit(Valid(s)) + Bit(Valid(m)) + Bit(Valid(w)) /\ (~ld => o = 0)
        /\ d \in 0 .. 3 /\ (d = o \/ d + 1 = o)
    BY GuardTypes DEF GuardsInv, GuardInv
  <1> HIDE DEF l, s, m, w, o, d, l2, s2, m2, w2, o2, d2, x2, sn2, ld, a, gr, rd, ask, got
  <1>5. o2 = Bit(Valid(s2)) + Bit(Valid(m2)) + Bit(Valid(w2)) /\ (~ld => o2 = 0)
    <2>1. o + Bit(ld /\ Valid(a) /\ ~Valid(s)) - Bit(Valid(got) /\ (rd \/ d # 0))
            = Bit(Valid(s2)) + Bit(Valid(m2)) + Bit(Valid(w2))
      BY <1>2, <1>3, <1>4 DEF Bit, Valid
    <2>2. \A n \in 0 .. 3 : (n + 4) % 4 = n
      OBVIOUS
    <2>3. \A i, j, k \in BOOLEAN : Bit(i) + Bit(j) + Bit(k) \in 0 .. 3
      BY DEF Bit
    <2>4. o2 = (o + Bit(ld /\ Valid(a) /\ ~Valid(s)) - Bit(Valid(got) /\ (rd \/ d # 0)) + 4) % 4
      BY <1>2, <1>4 DEF Bit
    <2>5. o2 = Bit(Valid(s2)) + Bit(Valid(m2)) + Bit(Valid(w2))
      BY <2>1, <2>2, <2>3, <2>4 DEF Valid
    <2>6. ~ld => o2 = 0
      BY <1>2, <1>3, <1>4, <2>5 DEF Bit, Valid
    <2> QED
      BY <2>5, <2>6
  <1>6. o2 \in 0 .. 3
    BY <1>5 DEF Bit
  <1>7. GuardInv(ld, l2, s2, m2, w2, o2, d2, x2, sn2)
    BY <1>1, <1>5, <1>6 DEF GuardInv, Valid
  <1> QED
    BY <1>1, <1>6, <1>7 DEF l2, s2, m2, w2, o2, d2, x2, sn2, ld

\* Without a kill the guard's argument moves on, from the latch through the
\* load to the stand-in.
LEMMA GuardRuns ==
  ASSUME TypeOK, GuardsInv, RoundInv, NEW busy \in BOOLEAN, Circuit(busy), History, ~kill,
         NEW g \in Guards
  PROVE  /\ owed'[g] \in 0 .. 3 /\ drop'[g] \in 0 .. 3
         /\ GuardInv(g \in loading, latch'[g], addrSlot'[g], memWord'[g], wordSlot'[g],
                     owed'[g], drop'[g], arg'[g], sent'[g])
  <1> DEFINE l == latch[g]  s == addrSlot[g]  m == memWord[g]  w == wordSlot[g]
             o == owed[g]  d == drop[g]  x == arg[g]  sn == sent[g]  st == start[g]
             l2 == latch'[g]  s2 == addrSlot'[g]  m2 == memWord'[g]  w2 == wordSlot'[g]
             o2 == owed'[g]  d2 == drop'[g]  x2 == arg'[g]  sn2 == sent'[g]
             ld == g \in loading  a == In(g)  gr == Granted(g, busy)  rd == Takes(g)
             ask == Asked(g)  got == Loaded(g)
  <1>1. /\ l2 = IF Valid(a) /\ ~(IF ld THEN ~Valid(s) ELSE rd) THEN a ELSE NoToken
        /\ x2 = IF Valid(st) /\ ~Valid(l) THEN st ELSE x
        /\ sn2 <=> sn \/ (Valid(word(g)) /\ rd)
        /\ d2 = IF d # 0 /\ Valid(got) THEN d - 1 ELSE d
    BY GuardWires, EnteringWire, BodyFacts DEF History
  <1>2. /\ s2 = IF Valid(ask) /\ ~gr THEN ask ELSE NoToken
        /\ m2 = IF gr THEN ask ELSE IF Valid(w) THEN m ELSE NoToken
        /\ w2 = IF Valid(got) /\ ~(rd \/ d # 0) THEN got ELSE NoToken
        /\ o2 = (o + Bit(ld /\ Valid(a) /\ ~Valid(s)) + 4 - Bit(Valid(got) /\ (rd \/ d # 0))) % 4
        /\ gr => Valid(ask) /\ ~Valid(w)
    BY GuardWires, GrantWire
  <1>3. /\ ask = IF Valid(s) THEN s ELSE IF ld THEN a ELSE NoToken
        /\ got = IF Valid(w) THEN w ELSE m
        /\ a = IF Valid(l) THEN l ELSE st
    BY DEF Asked, Loaded, In
  <1>4. /\ GuardInv(ld, l, s, m, w, o, d, x, sn) /\ (Valid(x) => ~Valid(st))
        /\ d \in 0 .. 3
    BY GuardTypes DEF GuardsInv, RoundInv, Valid
  <1>5. Valid(word(g)) <=> IF ld THEN d = 0 /\ Valid(got) ELSE Valid(a)
    BY WordWire DEF Valid
  <1>6. sn2 \in BOOLEAN
    BY GuardWires
  <1> DEFINE wd == Valid(word(g))
  <1> HIDE DEF l, s, m, w, o, d, l2, s2, m2, w2, o2, d2, x, x2, sn, sn2, st, ld, a, gr, rd,
               ask, got, wd
  <1>7. o2 = Bit(Valid(s2)) + Bit(Valid(m2)) + Bit(Valid(w2)) /\ (~ld => o2 = 0)
    <2>1. o + Bit(ld /\ Valid(a) /\ ~Valid(s)) - Bit(Valid(got) /\ (rd \/ d # 0))
            = Bit(Valid(s2)) + Bit(Valid(m2)) + Bit(Valid(w2))
      BY <1>2, <1>3, <1>4 DEF Bit, Valid, GuardInv
    <2>2. \A n \in 0 .. 3 : (n + 4) % 4 = n
      OBVIOUS
    <2>3. \A i, j, k \in BOOLEAN : Bit(i) + Bit(j) + Bit(k) \in 0 .. 3
      BY DEF Bit
    <2>4. o2 = (o + Bit(ld /\ Valid(a) /\ ~Valid(s)) - Bit(Valid(got) /\ (rd \/ d # 0)) + 4) % 4
      BY <1>2, <1>4 DEF Bit, GuardInv
    <2>5. o2 = Bit(Valid(s2)) + Bit(Valid(m2)) + Bit(Valid(w2))
      BY <2>1, <2>2, <2>3, <2>4 DEF Valid
    <2>6. ~ld => o2 = 0
      BY <1>2, <1>3, <1>4, <2>5 DEF Bit, Valid, GuardInv
    <2> QED
      BY <2>5, <2>6
  <1>8. o2 \in 0 .. 3
    BY <1>7 DEF Bit
  <1>9. d2 \in 0 .. 3
    BY <1>1, <1>4
  <1>10. o = Bit(Valid(s)) + Bit(Valid(m)) + Bit(Valid(w)) /\ o \in 0 .. 3
    BY <1>4 DEF GuardInv, Bit
  <1>11. CASE ~ld
    <2>1. o = 0 /\ d = 0 /\ o2 = 0
      BY <1>4, <1>7, <1>10, <1>11 DEF GuardInv
    <2>2. d2 = 0
      BY <1>1, <2>1
    <2>3. l2 = (IF Valid(a) /\ ~rd THEN a ELSE NoToken) /\ (wd <=> Valid(a))
      BY <1>1, <1>5, <1>11 DEF wd
    <2>4. (Valid(l) => l = x /\ ~sn) /\ (~Valid(l) => (Valid(x) <=> sn))
      BY <1>4, <2>1 DEF GuardInv
    <2>5. (Valid(l2) => l2 = x2 /\ ~sn2) /\ (~Valid(l2) => (Valid(x2) <=> sn2))
      BY <1>1, <1>3, <1>4, <2>3, <2>4 DEF Valid, wd
    <2> QED
      BY <1>7, <1>8, <1>9, <2>1, <2>2, <2>5
         DEF GuardInv, l2, s2, m2, w2, o2, d2, x2, sn2, ld
  <1>12. CASE ld /\ d = o
    \* Every request in the load is dead; the argument may enter the load now.
    <2>1. (Valid(l) => l = x /\ ~sn) /\ (~Valid(l) => (Valid(x) <=> sn))
      BY <1>4, <1>12 DEF GuardInv
    <2>2. ~wd
      BY <1>3, <1>5, <1>10, <1>12 DEF Bit, wd
    <2>3. sn2 <=> sn
      BY <1>1, <2>2 DEF wd
    <2>4. CASE Valid(a) /\ ~Valid(s)
      <3>1. ~Valid(l2) /\ x2 = a /\ Valid(x2) /\ ~sn2
        BY <1>1, <1>3, <1>4, <1>12, <2>1, <2>3, <2>4 DEF Valid
      <3>2. Newest(s2, m2, w2) = a
        BY <1>2, <1>3, <1>12, <2>4 DEF Newest, Valid
      <3>3. d2 + 1 = o2
        <4>1. Valid(got) => d # 0
          BY <1>3, <1>10, <1>12 DEF Bit
        <4>2. o2 = o + 1 - Bit(Valid(got))
          BY <1>2, <1>3, <1>7, <1>10, <1>12, <2>4, <4>1 DEF Bit, Valid
        <4> QED
          BY <1>1, <1>10, <1>12, <4>1, <4>2 DEF Bit
      <3> QED
        BY <1>7, <1>8, <1>9, <1>12, <3>1, <3>2, <3>3
           DEF GuardInv, l2, s2, m2, w2, o2, d2, x2, sn2, ld
    <2>5. CASE ~(Valid(a) /\ ~Valid(s))
      <3>1. d2 = o2
        <4>1. Valid(got) => d # 0
          BY <1>3, <1>10, <1>12 DEF Bit
        <4>2. o2 = o - Bit(Valid(got))
          BY <1>2, <1>3, <1>7, <1>10, <1>12, <2>5, <4>1 DEF Bit, Valid
        <4> QED
          BY <1>1, <1>10, <1>12, <4>1, <4>2 DEF Bit
      <3>2. (Valid(l2) => l2 = x2 /\ ~sn2) /\ (~Valid(l2) => (Valid(x2) <=> sn2))
        BY <1>1, <1>3, <1>4, <1>12, <2>1, <2>3, <2>5 DEF Valid
      <3> QED
        BY <1>7, <1>8, <1>9, <1>12, <3>1, <3>2
           DEF GuardInv, l2, s2, m2, w2, o2, d2, x2, sn2, ld
    <2> QED
      BY <2>4, <2>5
  <1>13. CASE ld /\ d # o
    \* The youngest request is the argument; it may pass to the guard now.
    <2>1. /\ d + 1 = o /\ ~Valid(l) /\ ~sn /\ Valid(x) /\ Newest(s, m, w) = x
          /\ ~Valid(a) /\ x2 = x /\ ~Valid(l2)
      BY <1>1, <1>3, <1>4, <1>13 DEF GuardInv, Valid
    <2>2. CASE wd /\ rd
      <3>1. d = 0 /\ o = 1 /\ Valid(got) /\ ~Valid(s) /\ ~gr
        BY <1>2, <1>3, <1>5, <1>10, <1>13, <2>1, <2>2 DEF Bit, Valid, wd
      <3>2. o2 = 0 /\ d2 = 0
        BY <1>1, <1>2, <1>3, <1>7, <1>10, <2>1, <2>2, <3>1 DEF Bit, Valid
      <3> QED
        BY <1>1, <1>7, <1>8, <1>9, <2>1, <2>2, <3>2
           DEF GuardInv, wd, l2, s2, m2, w2, o2, d2, x2, sn2, ld
    <2>3. CASE ~(wd /\ rd)
      <3>1. ~sn2
        BY <1>1, <2>1, <2>3 DEF wd
      <3>2. Valid(got) /\ (rd \/ d # 0) => d # 0
        BY <1>5, <1>13, <2>3 DEF wd
      <3>3. d2 + 1 = o2
        BY <1>1, <1>2, <1>3, <1>7, <1>10, <1>13, <2>1, <3>2, <1>4 DEF Bit, Valid
      <3>4. Newest(s2, m2, w2) = x
        BY <1>2, <1>3, <1>4, <1>10, <1>13, <2>1, <3>2 DEF Newest, Valid, Bit
      <3> QED
        BY <1>7, <1>8, <1>9, <1>13, <2>1, <3>1, <3>3, <3>4
           DEF GuardInv, l2, s2, m2, w2, o2, d2, x2, sn2, ld
    <2> QED
      BY <2>2, <2>3
  <1> QED
    BY <1>11, <1>12, <1>13

\* The registers of the guards keep their types.
LEMMA GuardStep ==
  ASSUME TypeOK, GuardsInv, RoundInv, NEW busy \in BOOLEAN, Circuit(busy), History,
         UNCHANGED circuit
  PROVE  /\ GuardsInv'
         /\ latch' \in [Guards -> Wire] /\ addrSlot' \in [Guards -> Wire]
         /\ wordSlot' \in [Guards -> Wire] /\ memWord' \in [Guards -> Wire]
         /\ owed' \in [Guards -> 0 .. 3] /\ drop' \in [Guards -> 0 .. 3]
         /\ sent' \in [Guards -> BOOLEAN] /\ owe' \in [Guards -> BOOLEAN]
         /\ arg' \in [Guards -> Wire]
  <1>1. \A g \in Guards :
          /\ owed'[g] \in 0 .. 3 /\ drop'[g] \in 0 .. 3
          /\ GuardInv(g \in loading, latch'[g], addrSlot'[g], memWord'[g], wordSlot'[g],
                      owed'[g], drop'[g], arg'[g], sent'[g])
    BY GuardKilled, GuardRuns
  <1>2. GuardsInv'
    BY <1>1 DEF GuardsInv, circuit, GuardInv, Bit, Newest, Valid
  <1>3. \A g \in Guards : /\ latch'[g] \in Wire /\ addrSlot'[g] \in Wire
                          /\ wordSlot'[g] \in Wire /\ memWord'[g] \in Wire
                          /\ sent'[g] \in BOOLEAN /\ owe'[g] \in BOOLEAN
    <2> TAKE g \in Guards
    <2>1. NoToken \in Wire /\ In(g) \in Wire /\ Asked(g) \in Wire /\ Loaded(g) \in Wire
          /\ memWord[g] \in Wire
      BY GuardTypes DEF In, Asked, Loaded, Wire
    <2> QED
      BY <2>1, GuardWires
  <1>4. \A g \in Guards : arg'[g] \in Wire
    BY GuardTypes DEF History, Wire
  <1>5. /\ DOMAIN latch' = Guards /\ latch' = [g \in Guards |-> latch'[g]]
        /\ addrSlot' = [g \in Guards |-> addrSlot'[g]]
        /\ wordSlot' = [g \in Guards |-> wordSlot'[g]]
        /\ memWord' = [g \in Guards |-> memWord'[g]]
        /\ owed' = [g \in Guards |-> owed'[g]] /\ drop' = [g \in Guards |-> drop'[g]]
        /\ sent' = [g \in Guards |-> sent'[g]] /\ owe' = [g \in Guards |-> owe'[g]]
        /\ arg' = [g \in Guards |-> arg'[g]]
    BY DEF Circuit, History
  <1> QED
    BY <1>1, <1>2, <1>3, <1>4, <1>5
-----------------------------------------------------------------------------
(* The decision unit.                                                      *)

FlagTypes == \A g \in Guards : flags[g] \in Wire

LEMMA FlagsAreWires ==
  ASSUME TypeOK, GuardsInv, RoundInv
  PROVE  FlagTypes
  BY FlagWire, BodyFacts, ChannelAssumption DEF FlagTypes, Wire

\* An input that has given its token offers no other one before a kill; after
\* it, an input that has not offers a zero.
Quiet == \A g \in Guards : seen[g] => ~Valid(flags[g])
Owing == \A g \in Guards : ~seen[g] => flags[g] = Zero

Here(g) == seen[g] \/ Valid(flags[g])

LEMMA TwoGuards == Guards = {1, 2} /\ 1 \in Guards /\ 2 \in Guards
  BY KillDomainAssumption

\* The lowest of some inputs.
LEMMA LowestFacts ==
  /\ F!Lowest({}) = Zero
  /\ \A S \in SUBSET Guards : S # {} => \E i \in S : F!Lowest(S) = flags[i]
  <1>1. F!Lowest({}) = Zero
    BY DEF F!Lowest
  <1>2. ASSUME NEW S \in SUBSET Guards, S # {}
        PROVE  \E i \in S : F!Lowest(S) = flags[i]
    <2>1. \E i \in S : \A j \in S : i <= j
      <3>1. CASE 1 \in S
        BY <1>2, <3>1, TwoGuards
      <3>2. CASE 1 \notin S
        <4>1. S = {2}
          BY <1>2, <3>2, TwoGuards
        <4> QED
          BY <4>1
      <3> QED
        BY <3>1, <3>2
    <2> QED
      BY <1>2, <2>1 DEF F!Lowest
  <1> QED
    BY <1>1, <1>2

\* When and what handshake.first answers.
LEMMA FirstAnswers ==
  ASSUME decider = "first", FlagTypes, held \in Data
  PROVE  /\ Valid(decision) <=> F!valid_i \/ F!early
         /\ Valid(decision) /\ emitted =>
              \E g \in Guards : F!early_in(g) /\ flags[g] # Zero /\ decision = flags[g]
         /\ Valid(decision) /\ ~emitted /\ found => decision = held
         /\ Valid(decision) /\ ~emitted /\ ~found /\ F!cand_v =>
              \E g \in Guards : F!carries(g) /\ decision = flags[g]
         /\ Valid(decision) /\ ~emitted /\ ~found /\ ~F!cand_v => decision = Zero
         /\ decision \in Wire
         /\ Valid(decision) /\ ~emitted /\ ~found => decision = F!cand
         /\ Valid(decision) /\ emitted => decision = F!Lowest(F!EarlyCarries)
  <1>1. F!EarlyCarries \in SUBSET Guards /\ {i \in Guards : F!carries(i)} \in SUBSET Guards
    BY DEF F!EarlyCarries
  <1>2. F!early => \E g \in Guards : /\ F!early_in(g) /\ flags[g] # Zero
                                     /\ F!Lowest(F!EarlyCarries) = flags[g]
    <2> SUFFICES ASSUME F!early PROVE \E g \in F!EarlyCarries : F!Lowest(F!EarlyCarries) = flags[g]
      BY DEF F!EarlyCarries
    <2>1. F!EarlyCarries # {}
      BY DEF F!early
    <2> QED
      BY <1>1, <2>1, LowestFacts
  <1>3. F!cand_v => \E g \in Guards : F!carries(g) /\ F!cand = flags[g]
    <2> SUFFICES ASSUME F!cand_v
                 PROVE  \E g \in {i \in Guards : F!carries(i)} : F!cand = flags[g]
      OBVIOUS
    <2>1. {i \in Guards : F!carries(i)} # {}
      BY DEF F!cand_v
    <2> QED
      BY <1>1, <2>1, LowestFacts DEF F!cand
  <1>4. ~F!cand_v => F!cand = Zero
    <2> SUFFICES ASSUME ~F!cand_v PROVE F!cand = Zero
      OBVIOUS
    <2>1. {i \in Guards : F!carries(i)} = {}
      BY DEF F!cand_v
    <2> QED
      BY <2>1, LowestFacts DEF F!cand
  <1>5. decision = IF ~(F!valid_i \/ F!early) THEN NoToken
                   ELSE IF emitted THEN F!Lowest(F!EarlyCarries)
                   ELSE IF found THEN held ELSE F!cand
    BY DEF decision, F!outs
  <1>6. emitted => ~F!valid_i
    BY DEF F!valid_i
  <1>7. Zero \in Data /\ NoToken \notin Data
    BY ChannelAssumption
  <1>8. \A g \in Guards : F!early_in(g) \/ F!carries(g) => Valid(flags[g])
    BY DEF F!early_in, F!carries, F!taken, Valid, F!Valid
  <1>9. F!valid_i /\ ~emitted /\ ~found => Valid(F!cand) /\ F!cand \in Data
    BY <1>3, <1>4, <1>7, <1>8 DEF Valid, FlagTypes, Wire
  <1>10. F!early => F!Lowest(F!EarlyCarries) \in Data
    BY <1>2, <1>8 DEF Valid, FlagTypes, Wire
  <1>11. F!early => emitted
    BY <1>2 DEF F!early_in
  <1> QED
    BY <1>2, <1>3, <1>4, <1>5, <1>6, <1>7, <1>9, <1>10, <1>11 DEF Valid, Wire

\* When and what handshake.priority answers.
LEMMA PriorityAnswers ==
  ASSUME decider = "priority", FlagTypes, held \in Data
  PROVE  /\ Valid(decision) <=> P!valid_i \/ P!early
         /\ Valid(decision) => decision = IF P!hi_now_nz \/ P!early THEN flags[1]
                                          ELSE IF found \/ ~P!take(2) THEN held ELSE flags[2]
         /\ decision \in Wire
  <1>1. decision = IF ~(P!valid_i \/ P!early) THEN NoToken
                   ELSE IF P!hi_now_nz \/ P!early THEN flags[1]
                   ELSE IF found \/ ~P!take(2) THEN held ELSE flags[2]
    BY DEF decision, P!outs
  <1>2. (P!hi_now_nz \/ P!early => Valid(flags[1])) /\ (P!take(2) => Valid(flags[2]))
    BY DEF P!hi_now_nz, P!early, P!take, Valid, P!Valid
  <1> QED
    BY <1>1, <1>2, TwoGuards, ChannelAssumption DEF Valid, FlagTypes, Wire

\* What the unit's registers become, before a kill and after one.
StepBefore ==
  /\ \A g \in Guards : ~seen[g] => flags_ready[g]
  /\ IF Valid(decision) /\ outs_ready /\ \A g \in Guards : Here(g)
     THEN seen' = [g \in Guards |-> FALSE] /\ ~emitted' /\ ~found'
     ELSE seen' = [g \in Guards |-> Here(g)] /\ (emitted' <=> Valid(decision) /\ outs_ready)
  /\ emitted' \in BOOLEAN /\ found' \in BOOLEAN /\ held' \in Data

StepLate ==
  /\ ~emitted => Valid(decision)
  /\ IF emitted \/ outs_ready
     THEN /\ \A g \in Guards : flags_ready[g]
          /\ seen' = [g \in Guards |-> seen[g] /\ Valid(flags[g])]
          /\ emitted' <=> emitted /\ Valid(decision) /\ outs_ready
     ELSE /\ \A g \in Guards : flags_ready[g] <=> ~seen[g]
          /\ seen' = [g \in Guards |-> TRUE] /\ ~emitted'
  /\ emitted' \in BOOLEAN /\ found' \in BOOLEAN /\ held' \in Data

\* A cycle of first before the kill of the round.
LEMMA FirstBefore ==
  ASSUME TypeOK, FlagTypes, decider = "first", ~emitted, Quiet, DecisionStep
  PROVE  /\ StepBefore
         /\ ~(Valid(decision) /\ outs_ready /\ \A g \in Guards : Here(g)) =>
              /\ found' <=> found \/ F!cand_v
              /\ held' = IF ~found /\ F!cand_v THEN F!cand ELSE held
  <1>1. held \in Data /\ found \in BOOLEAN /\ \A g \in Guards : seen[g] \in BOOLEAN
    BY DEF TypeOK
  <1>2. ~F!early
    BY DEF F!early, F!EarlyCarries, F!early_in
  <1>3. Valid(decision) <=> F!valid_i
    BY <1>1, <1>2, FirstAnswers
  <1>4. \A g \in Guards : F!seen_next(g) <=> Here(g)
    BY DEF F!seen_next, F!taken, Here, Valid, F!Valid
  <1>5. F!done <=> Valid(decision) /\ outs_ready /\ \A g \in Guards : Here(g)
    BY <1>3, <1>4 DEF F!done, F!closing, F!fire
  <1>6. \A g \in Guards : ~F!again(g)
    BY DEF F!again, Quiet, Valid, F!Valid
  <1>7. F!AgainCarries = {}
    BY <1>6 DEF F!AgainCarries
  <1>8. F!Clock
    BY DEF DecisionStep
  <1>9. \A g \in Guards : ~seen[g] => flags_ready[g]
    BY DEF flags_ready, F!ins_ready
  <1>10. CASE F!done
    <2>1. F!NextRound
      BY <1>8, <1>10 DEF F!Clock
    <2>2. seen' = [g \in Guards |-> FALSE]
      <3>1. \A g \in Guards : F!again(g) = FALSE
        BY <1>6 DEF F!again
      <3> QED
        BY <2>1, <3>1 DEF F!NextRound
    <2>3. ~emitted' /\ ~found' /\ held' = Zero /\ emitted' \in BOOLEAN /\ found' \in BOOLEAN
      BY <1>2, <1>7, <2>1, LowestFacts DEF F!NextRound
    <2> QED
      BY <1>5, <1>9, <1>10, <2>2, <2>3, ChannelAssumption DEF StepBefore
  <1>11. CASE ~F!done
    <2>1. F!SameRound
      BY <1>8, <1>11 DEF F!Clock
    <2>2. seen' = [g \in Guards |-> Here(g)]
      <3>1. \A g \in Guards : F!seen_next(g) = Here(g)
        BY <1>1, <1>4 DEF F!seen_next, Here
      <3> QED
        BY <2>1, <3>1 DEF F!SameRound
    <2>3. (emitted' <=> Valid(decision) /\ outs_ready) /\ emitted' \in BOOLEAN
      BY <1>3, <2>1 DEF F!SameRound, F!fire
    <2>4. /\ found' <=> found \/ F!cand_v
          /\ held' = IF ~found /\ F!cand_v THEN F!cand ELSE held
          /\ found' \in BOOLEAN
      BY <2>1 DEF F!SameRound
    <2>5. F!cand_v => F!cand \in Data
      <3> SUFFICES ASSUME F!cand_v PROVE F!cand \in Data
        OBVIOUS
      <3>1. {i \in Guards : F!carries(i)} # {}
        BY DEF F!cand_v
      <3>2. \E g \in {i \in Guards : F!carries(i)} : F!cand = flags[g]
        BY <3>1, LowestFacts DEF F!cand
      <3> QED
        BY <3>2 DEF F!carries, F!taken, FlagTypes, Wire, F!Valid
    <2> QED
      BY <1>1, <1>5, <1>9, <1>11, <2>2, <2>3, <2>4, <2>5 DEF StepBefore
  <1> QED
    BY <1>10, <1>11

\* A cycle of first after the kill, while zeros stand in.
LEMMA FirstLate ==
  ASSUME TypeOK, FlagTypes, decider = "first", Owing, DecisionStep
  PROVE  /\ StepLate
         /\ IF emitted \/ outs_ready
            THEN /\ found' => \E g \in Guards : /\ seen[g] /\ Valid(flags[g]) /\ flags[g] # Zero
                                                /\ held' = flags[g]
                 /\ ~found' => \A g \in Guards : seen[g] /\ Valid(flags[g]) => flags[g] = Zero
            ELSE found' = found /\ held' = held
         /\ emitted /\ Valid(decision) => found' /\ held' = decision
         /\ ~emitted => decision = IF found THEN held ELSE Zero
  <1>1. held \in Data /\ found \in BOOLEAN /\ emitted \in BOOLEAN
        /\ \A g \in Guards : seen[g] \in BOOLEAN
    BY DEF TypeOK
  <1>2. \A g \in Guards : F!seen_next(g) /\ ~F!carries(g)
    BY ChannelAssumption DEF F!seen_next, F!carries, F!taken, Owing, F!Valid
  <1>3. F!closing /\ ~F!cand_v
    BY <1>2 DEF F!closing, F!cand_v
  <1>4. \A g \in Guards : F!all_others(g)
    BY <1>2 DEF F!all_others
  <1>5. ~emitted => F!valid_i
    BY <1>3 DEF F!valid_i
  <1>6. F!done <=> emitted \/ outs_ready
    BY <1>3, <1>5 DEF F!done, F!fire
  <1>7. \A g \in Guards : F!done_wo(g) <=> emitted \/ outs_ready
    BY <1>4 DEF F!done_wo
  <1>8. \A g \in Guards : /\ F!again(g) <=> Valid(flags[g]) /\ seen[g] /\ (emitted \/ outs_ready)
                          /\ F!early_in(g) <=> Valid(flags[g]) /\ seen[g] /\ emitted
    BY <1>4, <1>7 DEF F!again, F!early_in, Valid, F!Valid
  <1>9. Valid(decision) <=> F!valid_i \/ F!early
    BY <1>1, FirstAnswers
  <1>10. \A g \in Guards : flags_ready[g] <=> ~seen[g] \/ emitted \/ outs_ready
    BY <1>7 DEF flags_ready, F!ins_ready
  <1>11. F!Clock
    BY DEF DecisionStep
  <1>12. emitted => F!AgainCarries = F!EarlyCarries
    BY <1>8 DEF F!AgainCarries, F!EarlyCarries
  <1>13. emitted => ~F!valid_i
    BY DEF F!valid_i
  <1>14. ~emitted => ~F!early
    BY <1>8 DEF F!early, F!EarlyCarries
  <1>15. ~emitted => decision = IF found THEN held ELSE Zero
    BY <1>1, <1>3, <1>5, <1>9, FirstAnswers
  <1>16. CASE emitted \/ outs_ready
    <2>1. F!NextRound
      BY <1>6, <1>11, <1>16 DEF F!Clock
    <2>2. seen' = [g \in Guards |-> seen[g] /\ Valid(flags[g])]
      <3>1. \A g \in Guards : F!again(g) = (seen[g] /\ Valid(flags[g]))
        BY <1>1, <1>8, <1>16 DEF F!again, Valid, F!Valid
      <3> QED
        BY <2>1, <3>1 DEF F!NextRound
    <2>3. emitted' <=> emitted /\ Valid(decision) /\ outs_ready
      BY <1>9, <1>13, <1>14, <2>1 DEF F!NextRound
    <2>4. emitted' \in BOOLEAN /\ found' \in BOOLEAN
      BY <2>1 DEF F!NextRound, F!early
    <2>5. found' => \E g \in Guards : /\ seen[g] /\ Valid(flags[g]) /\ flags[g] # Zero
                                      /\ held' = flags[g]
      <3> SUFFICES ASSUME F!AgainCarries # {}
                   PROVE  \E g \in F!AgainCarries : held' = flags[g]
        BY <1>8, <2>1 DEF F!NextRound, F!AgainCarries
      <3>1. F!AgainCarries \in SUBSET Guards
        BY DEF F!AgainCarries
      <3> QED
        BY <2>1, <3>1, LowestFacts DEF F!NextRound
    <2>6. ~found' => \A g \in Guards : seen[g] /\ Valid(flags[g]) => flags[g] = Zero
      BY <1>8, <1>16, <2>1 DEF F!NextRound, F!AgainCarries
    <2>7. ~found' => held' = Zero
      BY <2>1, LowestFacts DEF F!NextRound
    <2>8. held' \in Data
      BY <2>5, <2>7, ChannelAssumption DEF FlagTypes, Wire, Valid
    <2>9. emitted /\ Valid(decision) => found' /\ held' = decision
      <3> SUFFICES ASSUME emitted, Valid(decision) PROVE found' /\ held' = decision
        OBVIOUS
      <3>1. F!early /\ decision = F!Lowest(F!EarlyCarries)
        BY <1>1, <1>9, <1>13, FirstAnswers
      <3> QED
        BY <1>12, <2>1, <3>1 DEF F!NextRound, F!early
    <2> QED
      BY <1>5, <1>9, <1>10, <1>15, <1>16, <2>2, <2>3, <2>4, <2>5, <2>6, <2>8, <2>9 DEF StepLate
  <1>17. CASE ~emitted /\ ~outs_ready
    <2>1. F!SameRound
      BY <1>6, <1>11, <1>17 DEF F!Clock
    <2>2. seen' = [g \in Guards |-> TRUE]
      BY <1>2, <2>1 DEF F!SameRound, F!seen_next
    <2>3. ~emitted' /\ emitted' \in BOOLEAN /\ found' = found /\ held' = held
      BY <1>1, <1>3, <1>17, <2>1 DEF F!SameRound, F!fire
    <2> QED
      BY <1>1, <1>5, <1>9, <1>10, <1>15, <1>17, <2>2, <2>3 DEF StepLate
  <1> QED
    BY <1>16, <1>17

\* A cycle of priority before the kill of the round.
LEMMA PriorityBefore ==
  ASSUME TypeOK, FlagTypes, decider = "priority", ~emitted, Quiet, DecisionStep
  PROVE  /\ StepBefore
         /\ ~(Valid(decision) /\ outs_ready /\ \A g \in Guards : Here(g)) =>
              /\ found' <=> found \/ (Valid(flags[1]) /\ flags[1] # Zero)
              /\ held' = IF Valid(flags[1]) /\ flags[1] # Zero THEN flags[1]
                         ELSE IF Valid(flags[2]) /\ ~found THEN flags[2] ELSE held
  <1>1. held \in Data /\ found \in BOOLEAN /\ \A g \in Guards : seen[g] \in BOOLEAN
    BY DEF TypeOK
  <1>2. ~P!early
    BY DEF P!early
  <1>3. Valid(decision) <=> P!valid_i
    BY <1>1, <1>2, PriorityAnswers
  <1>4. \A g \in Guards : (P!here(g) <=> Here(g)) /\ (P!take(g) <=> Valid(flags[g]))
    BY DEF P!here, P!take, Here, Quiet, Valid, P!Valid
  <1>5. P!done <=> Valid(decision) /\ outs_ready /\ \A g \in Guards : Here(g)
    BY <1>3, <1>4, TwoGuards DEF P!done, P!fire
  <1>6. ~P!again_hi /\ ~P!again_lo
    BY TwoGuards DEF P!again_hi, P!again_lo, Quiet, Valid, P!Valid
  <1>7. P!Clock
    BY DEF DecisionStep
  <1>8. \A g \in Guards : ~seen[g] => flags_ready[g]
    BY TwoGuards DEF flags_ready, P!ins_ready
  <1>9. CASE P!done
    <2>1. P!NextRound
      BY <1>7, <1>9 DEF P!Clock
    <2>2. seen' = [g \in Guards |-> FALSE]
      <3>1. P!again_hi = FALSE /\ P!again_lo = FALSE
        BY <1>6 DEF P!again_hi, P!again_lo
      <3> QED
        BY <2>1, <3>1, TwoGuards DEF P!NextRound
    <2>3. ~emitted' /\ ~found' /\ held' = Zero /\ emitted' \in BOOLEAN /\ found' \in BOOLEAN
      BY <1>2, <1>6, <2>1 DEF P!NextRound, P!again_nz
    <2> QED
      BY <1>5, <1>8, <1>9, <2>2, <2>3, ChannelAssumption DEF StepBefore
  <1>10. CASE ~P!done
    <2>1. P!SameRound
      BY <1>7, <1>10 DEF P!Clock
    <2>2. seen' = [g \in Guards |-> Here(g)]
      <3>1. \A g \in Guards : P!here(g) = Here(g)
        BY <1>1, <1>4 DEF P!here, Here
      <3> QED
        BY <2>1, <3>1, TwoGuards DEF P!SameRound
    <2>3. (emitted' <=> Valid(decision) /\ outs_ready) /\ emitted' \in BOOLEAN
      BY <1>3, <2>1 DEF P!SameRound, P!fire
    <2>4. P!hi_now_nz <=> Valid(flags[1]) /\ flags[1] # Zero
      BY <1>4, TwoGuards DEF P!hi_now_nz, P!hi_is_nz
    <2>5. /\ found' <=> found \/ (Valid(flags[1]) /\ flags[1] # Zero)
          /\ held' = IF Valid(flags[1]) /\ flags[1] # Zero THEN flags[1]
                     ELSE IF Valid(flags[2]) /\ ~found THEN flags[2] ELSE held
          /\ found' \in BOOLEAN
      BY <1>4, <2>1, <2>4, TwoGuards DEF P!SameRound, P!hi_nz
    <2>6. held' \in Data
      BY <1>1, <2>5, TwoGuards DEF FlagTypes, Wire, Valid
    <2> QED
      BY <1>5, <1>8, <1>10, <2>2, <2>3, <2>5, <2>6 DEF StepBefore
  <1> QED
    BY <1>9, <1>10

\* A cycle of priority after the kill.
LEMMA PriorityLate ==
  ASSUME TypeOK, FlagTypes, decider = "priority", Owing, DecisionStep
  PROVE  /\ StepLate
         /\ IF emitted \/ outs_ready
            THEN /\ found' <=> seen[1] /\ Valid(flags[1]) /\ flags[1] # Zero
                 /\ found' => held' = flags[1]
                 /\ ~found' /\ seen[2] /\ Valid(flags[2]) => held' = flags[2]
            ELSE found' = found /\ held' = IF ~seen[2] /\ ~found THEN Zero ELSE held
         /\ emitted /\ Valid(decision) => found' /\ decision = flags[1]
         /\ ~emitted => decision = IF ~seen[2] /\ ~found THEN Zero ELSE held
  <1>1. held \in Data /\ found \in BOOLEAN /\ emitted \in BOOLEAN
        /\ \A g \in Guards : seen[g] \in BOOLEAN
    BY DEF TypeOK
  <1>2. \A g \in Guards : P!here(g) /\ (P!take(g) <=> ~seen[g])
    BY ChannelAssumption DEF P!here, P!take, Owing, P!Valid
  <1>3. ~P!hi_now_nz
    BY <1>2, TwoGuards DEF P!hi_now_nz, P!hi_is_nz, Owing
  <1>4. ~emitted => P!valid_i
    BY <1>2, TwoGuards DEF P!valid_i
  <1>5. P!done <=> emitted \/ outs_ready
    BY <1>2, <1>4, TwoGuards DEF P!done, P!fire
  <1>6. (P!done_hi <=> emitted \/ outs_ready) /\ (P!done_lo <=> emitted \/ outs_ready)
    BY <1>2, TwoGuards DEF P!done_hi, P!done_lo
  <1>7. /\ P!again_hi <=> Valid(flags[1]) /\ seen[1] /\ (emitted \/ outs_ready)
        /\ P!again_lo <=> Valid(flags[2]) /\ seen[2] /\ (emitted \/ outs_ready)
        /\ P!early <=> Valid(flags[1]) /\ seen[1] /\ emitted /\ flags[1] # Zero
    BY <1>2, <1>6, TwoGuards DEF P!again_hi, P!again_lo, P!early, P!hi_is_nz, Valid, P!Valid
  <1>8. Valid(decision) <=> P!valid_i \/ P!early
    BY <1>1, PriorityAnswers
  <1>9. \A g \in Guards : flags_ready[g] <=> ~seen[g] \/ emitted \/ outs_ready
    BY <1>6, TwoGuards DEF flags_ready, P!ins_ready
  <1>10. P!Clock
    BY DEF DecisionStep
  <1>11. emitted => ~P!valid_i
    BY DEF P!valid_i
  <1>12. ~emitted => decision = IF ~seen[2] /\ ~found THEN Zero ELSE held
    BY <1>1, <1>2, <1>3, <1>4, <1>7, <1>8, PriorityAnswers, TwoGuards DEF Owing
  <1>13. emitted /\ Valid(decision) => P!early /\ decision = flags[1]
    BY <1>1, <1>8, <1>11, PriorityAnswers
  <1>14. CASE emitted \/ outs_ready
    <2>1. P!NextRound
      BY <1>5, <1>10, <1>14 DEF P!Clock
    <2>2. seen' = [g \in Guards |-> seen[g] /\ Valid(flags[g])]
      <3>1. /\ P!again_hi = (seen[1] /\ Valid(flags[1]))
            /\ P!again_lo = (seen[2] /\ Valid(flags[2]))
        BY <1>1, <1>7, <1>14, TwoGuards DEF P!again_hi, P!again_lo, Valid, P!Valid
      <3> QED
        BY <2>1, <3>1, TwoGuards DEF P!NextRound
    <2>3. emitted' <=> emitted /\ Valid(decision) /\ outs_ready
      BY <1>7, <1>8, <1>11, <2>1 DEF P!NextRound
    <2>4. P!again_nz <=> seen[1] /\ Valid(flags[1]) /\ flags[1] # Zero
      BY <1>7, <1>14 DEF P!again_nz, P!hi_is_nz
    <2>5. /\ found' <=> seen[1] /\ Valid(flags[1]) /\ flags[1] # Zero
          /\ found' => held' = flags[1]
          /\ ~found' /\ seen[2] /\ Valid(flags[2]) => held' = flags[2]
          /\ ~found' /\ ~(seen[2] /\ Valid(flags[2])) => held' = Zero
      BY <1>7, <1>14, <2>1, <2>4 DEF P!NextRound
    <2>6. emitted' \in BOOLEAN /\ found' \in BOOLEAN
      BY <2>1 DEF P!NextRound, P!early, P!again_nz
    <2>7. held' \in Data
      BY <2>5, TwoGuards, ChannelAssumption DEF FlagTypes, Wire, Valid
    <2> QED
      BY <1>4, <1>7, <1>8, <1>9, <1>12, <1>13, <1>14, <2>2, <2>3, <2>5, <2>6, <2>7 DEF StepLate
  <1>15. CASE ~emitted /\ ~outs_ready
    <2>1. P!SameRound
      BY <1>5, <1>10, <1>15 DEF P!Clock
    <2>2. seen' = [g \in Guards |-> TRUE]
      BY <1>2, <2>1, TwoGuards DEF P!SameRound, P!here
    <2>3. ~emitted' /\ emitted' \in BOOLEAN /\ found' = found
      BY <1>1, <1>3, <1>15, <2>1 DEF P!SameRound, P!fire, P!hi_nz
    <2>4. held' = IF ~seen[2] /\ ~found THEN Zero ELSE held
      BY <1>2, <1>3, <2>1, TwoGuards DEF P!SameRound, Owing
    <2> QED
      BY <1>1, <1>4, <1>8, <1>9, <1>12, <1>15, <2>2, <2>3, <2>4, ChannelAssumption DEF StepLate
  <1> QED
    BY <1>14, <1>15
-----------------------------------------------------------------------------
(* The rounds.                                                             *)

\* What the unit is shown in the two phases of its round.
LEMMA PhaseFlags ==
  ASSUME TypeOK, GuardsInv, RoundInv, PhaseInv
  PROVE  /\ FlagTypes
         /\ ~killed /\ ~emitted => Quiet
         /\ killed \/ emitted => Owing
         /\ \A g \in Guards : ~owe[g] => /\ flags[g] = Body(word(g))
                                         /\ Valid(flags[g]) <=> Valid(word(g))
  <1>1. FlagTypes
    BY FlagsAreWires
  <1>2. \A g \in Guards : /\ ~owe[g] => flags[g] = Body(word(g))
                          /\ owe[g] => flags[g] = Zero
    BY FlagWire
  <1>3. \A g \in Guards : Valid(Body(word(g))) <=> Valid(word(g))
    BY BodyFacts
  <1>4. \A g \in Guards : sent[g] => ~Valid(word(g))
    BY WordFacts
  <1>5. ~killed /\ ~emitted => Quiet
    BY <1>2, <1>3, <1>4 DEF PhaseInv, Quiet
  <1>6. killed \/ emitted => Owing
    BY <1>2 DEF PhaseInv, Owing
  <1> QED
    BY <1>1, <1>2, <1>3, <1>5, <1>6

LEMMA UnitStep ==
  ASSUME TypeOK, GuardsInv, RoundInv, PhaseInv, DecisionStep
  PROVE  IF killed \/ emitted THEN StepLate ELSE StepBefore
  <1>1. decider = "first" \/ decider = "priority"
    BY DEF TypeOK
  <1> QED
    BY <1>1, PhaseFlags, FirstBefore, FirstLate, PriorityBefore, PriorityLate

\* Which tokens pass the stand-ins.
Passes(g) == Valid(word(g)) /\ Takes(g)

LEMMA PassFacts ==
  ASSUME TypeOK, GuardsInv, RoundInv, PhaseInv, NEW busy \in BOOLEAN, Circuit(busy),
         NEW g \in Guards
  PROVE  /\ sent'[g] <=> ~kill /\ (sent[g] \/ Passes(g))
         /\ owe'[g] <=> (kill /\ ~(sent[g] \/ Passes(g))) \/ (owe[g] /\ ~flags_ready[g])
         /\ Passes(g) <=> Valid(flags[g]) /\ flags_ready[g] /\ ~owe[g]
         /\ killed' = (kill_at_valid /\ Valid(decision) /\ ~outs_ready)
  <1>1. Valid(Body(word(g))) <=> Valid(word(g))
    BY BodyFacts
  <1>2. /\ sent'[g] <=> ~kill /\ (sent[g] \/ Passes(g))
        /\ owe'[g] <=> (kill /\ ~(sent[g] \/ Passes(g))) \/ (owe[g] /\ ~flags_ready[g])
    BY <1>1, GuardWires DEF Passes
  <1>3. Passes(g) <=> Valid(flags[g]) /\ flags_ready[g] /\ ~owe[g]
    BY PhaseFlags DEF Passes, Takes
  <1>4. killed' = (kill_at_valid /\ Valid(decision) /\ ~outs_ready)
    BY DEF Circuit, Cm!killed_next, Valid, Cm!Valid
  <1> QED
    BY <1>2, <1>3, <1>4

\* Stand-ins and unit stay in step: PhaseInv is kept by a cycle.
LEMMA PhaseStep ==
  ASSUME TypeOK, GuardsInv, RoundInv, PhaseInv, NEW busy \in BOOLEAN, Circuit(busy), History,
         UNCHANGED circuit
  PROVE  /\ PhaseInv'
         /\ seen' \in [Guards -> BOOLEAN] /\ found' \in BOOLEAN /\ held' \in Data
         /\ emitted' \in BOOLEAN /\ killed' \in BOOLEAN
  <1>1. IF killed \/ emitted THEN StepLate ELSE StepBefore
    BY UnitStep DEF Circuit
  <1>2. killed' = (kill_at_valid /\ Valid(decision) /\ ~outs_ready) /\ kill_at_valid' = kill_at_valid
    BY PassFacts, TwoGuards DEF circuit
  <1>3. kill <=> Valid(decision) /\ (IF kill_at_valid THEN ~killed ELSE outs_ready)
    BY KillWire
  <1>4. found' \in BOOLEAN /\ held' \in Data /\ emitted' \in BOOLEAN /\ killed' \in BOOLEAN
    BY <1>1, <1>2 DEF StepLate, StepBefore, Valid
  <1>5. seen' \in [Guards -> BOOLEAN]
    BY <1>1 DEF StepLate, StepBefore, Here, Valid, TypeOK
  <1>6. \A g \in Guards : /\ sent'[g] \in BOOLEAN /\ owe'[g] \in BOOLEAN /\ seen'[g] \in BOOLEAN
                          /\ sent[g] \in BOOLEAN /\ owe[g] \in BOOLEAN /\ seen[g] \in BOOLEAN
    BY <1>5, GuardStep, GuardTypes
  <1>7. killed' => kill_at_valid' /\ ~emitted'
    BY <1>1, <1>2 DEF StepLate, StepBefore
  <1>8. ASSUME NEW g \in Guards
        PROVE  IF killed' \/ emitted' THEN (owe'[g] <=> ~seen'[g]) /\ ~sent'[g]
                                      ELSE ~owe'[g] /\ (seen'[g] <=> sent'[g])
    <2>1. /\ sent'[g] <=> ~kill /\ (sent[g] \/ Passes(g))
          /\ owe'[g] <=> (kill /\ ~(sent[g] \/ Passes(g))) \/ (owe[g] /\ ~flags_ready[g])
          /\ Passes(g) <=> Valid(flags[g]) /\ flags_ready[g] /\ ~owe[g]
      BY PassFacts
    <2>2. CASE ~killed /\ ~emitted
      <3>1. ~owe[g] /\ (seen[g] <=> sent[g]) /\ (seen[g] => ~Valid(flags[g]))
        BY <2>2, PhaseFlags DEF PhaseInv, Quiet
      <3>2. StepBefore
        BY <1>1, <2>2
      <3>3. ~seen[g] => flags_ready[g]
        BY <3>2 DEF StepBefore
      <3>4. (sent'[g] <=> ~kill /\ Here(g)) /\ (owe'[g] <=> kill /\ ~Here(g))
        BY <2>1, <3>1, <3>3 DEF Here
      <3>5. CASE Valid(decision) /\ outs_ready /\ \A h \in Guards : Here(h)
        BY <1>2, <1>3, <2>2, <3>2, <3>4, <3>5 DEF StepBefore
      <3>6. CASE ~(Valid(decision) /\ outs_ready /\ \A h \in Guards : Here(h))
        <4>1. (seen'[g] <=> Here(g)) /\ (emitted' <=> Valid(decision) /\ outs_ready)
          BY <3>2, <3>6 DEF StepBefore
        <4> QED
          BY <1>2, <1>3, <2>2, <3>4, <4>1
      <3> QED
        BY <3>5, <3>6
    <2>3. CASE killed \/ emitted
      <3>1. (owe[g] <=> ~seen[g]) /\ ~sent[g] /\ (killed => kill_at_valid /\ ~emitted)
        BY <2>3 DEF PhaseInv
      <3>2. StepLate
        BY <1>1, <2>3
      <3>3. CASE emitted \/ outs_ready
        <4>1. /\ flags_ready[g] /\ (seen'[g] <=> seen[g] /\ Valid(flags[g]))
              /\ emitted' <=> emitted /\ Valid(decision) /\ outs_ready
          BY <3>2, <3>3 DEF StepLate
        <4> QED
          BY <1>2, <1>3, <2>1, <2>3, <3>1, <3>3, <4>1
      <3>4. CASE ~emitted /\ ~outs_ready
        <4>1. (flags_ready[g] <=> ~seen[g]) /\ seen'[g] /\ ~emitted' /\ Valid(decision)
          BY <3>2, <3>4 DEF StepLate
        <4> QED
          BY <1>2, <1>3, <2>1, <2>3, <3>1, <3>4, <4>1
      <3> QED
        BY <3>3, <3>4
    <2> QED
      BY <2>2, <2>3
  <1>9. IF killed' \/ emitted' THEN \A g \in Guards : owe'[g] = ~seen'[g] /\ ~sent'[g]
                               ELSE \A g \in Guards : ~owe'[g] /\ seen'[g] = sent'[g]
    BY <1>6, <1>8
  <1> QED
    BY <1>4, <1>5, <1>7, <1>9 DEF PhaseInv

\* Arguments stay those of the round: RoundInv is kept by a cycle.
LEMMA RoundStep ==
  ASSUME TypeOK, GuardsInv, RoundInv, PhaseInv, NEW busy \in BOOLEAN, Circuit(busy), History,
         Surroundings
  PROVE  /\ RoundInv'
         /\ round' \in 1 .. R /\ taken' \in 1 .. R
         /\ start' \in [Guards -> Wire] /\ outs_ready' \in BOOLEAN
  <1>1. R \in Nat /\ R >= 2 /\ round \in 1 .. R /\ taken \in 1 .. R
    BY KillDomainAssumption DEF TypeOK
  <1>2. \A n \in 1 .. R : After(n) \in 1 .. R
    BY <1>1 DEF After
  <1>3. round' \in 1 .. R /\ taken' \in 1 .. R
    BY <1>1, <1>2 DEF History
  <1>4. \A g \in Guards : /\ start'[g] \in Arguments(round')
                          /\ Valid(arg'[g]) => start'[g] = NoToken
    BY DEF Surroundings
  <1>5. \A g \in Guards : arg'[g] \in Arguments(round')
    BY DEF History, RoundInv, Arguments
  <1>6. round' = IF killed' THEN After(taken') ELSE taken'
    <2>1. killed' = (kill_at_valid /\ Valid(decision) /\ ~outs_ready)
      BY PassFacts, TwoGuards
    <2>2. kill <=> Valid(decision) /\ (IF kill_at_valid THEN ~killed ELSE outs_ready)
      BY KillWire
    <2>3. killed => kill_at_valid /\ ~emitted /\ Valid(decision)
      BY UnitStep DEF PhaseInv, StepLate, Circuit
    <2>4. /\ round' = IF kill THEN After(round) ELSE round
          /\ taken' = IF Valid(decision) /\ outs_ready THEN After(taken) ELSE taken
          /\ round = IF killed THEN After(taken) ELSE taken
      BY DEF History, RoundInv
    <2> QED
      BY <2>1, <2>2, <2>3, <2>4
  <1>7. start' \in [Guards -> Wire]
    <2>1. \A n \in 1 .. R : Arguments(n) \subseteq Wire
      BY <1>1, KillDomainAssumption DEF Arguments, Wire
    <2> QED
      BY <1>3, <2>1 DEF Surroundings
  <1> QED
    BY <1>3, <1>4, <1>5, <1>6, <1>7 DEF RoundInv, Arguments, After, Valid, Surroundings

\* Without a kill a guard keeps its argument, or gets it.
LEMMA ArgumentStep ==
  ASSUME TypeOK, GuardsInv, RoundInv, History, ~kill, NEW g \in Guards
  PROVE  /\ arg'[g] = Argument(g) /\ round' = round
         /\ sent[g] => Argument(g) = arg[g] /\ Valid(arg[g])
  <1>1. arg'[g] = IF Valid(start[g]) /\ ~Valid(latch[g]) THEN start[g] ELSE arg[g]
    BY EnteringWire DEF History
  <1>2. /\ Valid(latch[g]) => latch[g] = arg[g]
        /\ sent[g] => Valid(arg[g])
        /\ Valid(arg[g]) => start[g] = NoToken
    BY GuardTypes DEF GuardsInv, GuardInv, RoundInv
  <1> QED
    BY <1>1, <1>2 DEF Argument, Valid, History

\* A flag that is no stand-in's zero is the guard's answer of this round.
LEMMA FlagValues ==
  ASSUME TypeOK, GuardsInv, RoundInv, PhaseInv, NEW g \in Guards, ~owe[g], Valid(flags[g])
  PROVE  /\ flags[g] = IF Argument(g) = round THEN round ELSE Zero
         /\ round # Zero
  BY PhaseFlags, BodyFacts

\* What the unit knows stays right: ValueInv is kept by a cycle.
LEMMA ValueStep ==
  ASSUME TypeOK, GuardsInv, RoundInv, PhaseInv, ValueInv, NEW busy \in BOOLEAN, Circuit(busy),
         History, UNCHANGED circuit
  PROVE  ValueInv'
  <1> SUFFICES ASSUME ~killed', ~emitted'
               PROVE  IF decider = "first" THEN FirstKnows' ELSE PriorityKnows'
    BY DEF ValueInv, circuit
  <1>1. IF killed \/ emitted THEN StepLate ELSE StepBefore
    BY UnitStep DEF Circuit
  <1>2. killed' = (kill_at_valid /\ Valid(decision) /\ ~outs_ready)
    BY PassFacts, TwoGuards
  <1>3. kill <=> Valid(decision) /\ (IF kill_at_valid THEN ~killed ELSE outs_ready)
    BY KillWire
  <1>4. \A g \in Guards : /\ sent'[g] <=> ~kill /\ (sent[g] \/ Passes(g))
                          /\ Passes(g) <=> Valid(flags[g]) /\ flags_ready[g] /\ ~owe[g]
    BY PassFacts
  <1>5. DecisionStep /\ FlagTypes /\ decider \in {"first", "priority"} /\ held \in Data
    BY PhaseFlags DEF Circuit, TypeOK
  <1>6. CASE ~killed /\ ~emitted
    <2>1. Quiet /\ StepBefore /\ \A g \in Guards : ~owe[g] /\ seen[g] = sent[g]
      BY <1>1, <1>6, PhaseFlags DEF PhaseInv
    <2>2. CASE Valid(decision) /\ outs_ready /\ \A g \in Guards : Here(g)
      <3>1. ~found'
        BY <2>1, <2>2 DEF StepBefore
      <3>2. kill
        BY <1>3, <1>6, <2>2
      <3>3. \A g \in Guards : ~sent'[g]
        BY <1>4, <3>2
      <3> QED
        BY <3>1, <3>3, TwoGuards DEF FirstKnows, PriorityKnows
    <2>3. CASE ~(Valid(decision) /\ outs_ready /\ \A g \in Guards : Here(g))
      <3>1. emitted' <=> Valid(decision) /\ outs_ready
        BY <2>1, <2>3 DEF StepBefore
      <3>2. ~kill
        BY <1>2, <1>3, <1>6, <3>1
      <3>3. \A g \in Guards : ~seen[g] => flags_ready[g]
        BY <2>1 DEF StepBefore
      <3>4. \A g \in Guards : sent'[g] <=> sent[g] \/ Valid(flags[g])
        BY <1>4, <2>1, <3>2, <3>3 DEF Quiet
      <3>5. \A g \in Guards : /\ arg'[g] = Argument(g) /\ round' = round
                              /\ sent[g] => Argument(g) = arg[g] /\ Valid(arg[g])
        BY <3>2, ArgumentStep
      <3>6. /\ round # Zero
            /\ \A g \in Guards : Valid(flags[g]) =>
                 flags[g] = IF Argument(g) = round THEN round ELSE Zero
        BY <2>1, FlagValues, BodyFacts, TwoGuards
      <3>7. CASE decider = "first"
        <4>1. FirstKnows
          BY <1>6, <3>7 DEF ValueInv
        <4>2. /\ found' <=> found \/ F!cand_v
              /\ held' = IF ~found /\ F!cand_v THEN F!cand ELSE held
          BY <1>5, <1>6, <2>1, <2>3, <3>7, FirstBefore
        <4>3. \A g \in Guards : F!carries(g) <=> Valid(flags[g]) /\ ~seen[g] /\ flags[g] # Zero
          BY DEF F!carries, F!taken, Valid, F!Valid
        <4>4. F!cand_v => \E g \in Guards : F!carries(g) /\ F!cand = flags[g]
          <5> SUFFICES ASSUME F!cand_v
                       PROVE  \E g \in {i \in Guards : F!carries(i)} : F!cand = flags[g]
            OBVIOUS
          <5>1. {i \in Guards : F!carries(i)} # {}
            BY DEF F!cand_v
          <5> QED
            BY <5>1, LowestFacts DEF F!cand
        <4>5. ~F!cand_v => \A g \in Guards : ~F!carries(g)
          BY DEF F!cand_v
        <4>6. CASE found
          <5>1. PICK g \in Guards : sent[g] /\ arg[g] = round /\ held = arg[g]
            BY <4>1, <4>6 DEF FirstKnows
          <5>2. sent'[g] /\ arg'[g] = round' /\ held' = arg'[g] /\ found'
            BY <3>4, <3>5, <4>2, <4>6, <5>1
          <5> QED
            BY <3>7, <5>2 DEF FirstKnows
        <4>7. CASE ~found /\ F!cand_v
          <5>1. PICK g \in Guards : F!carries(g) /\ F!cand = flags[g]
            BY <4>4, <4>7
          <5>2. Valid(flags[g]) /\ flags[g] # Zero
            BY <4>3, <5>1
          <5>3. Argument(g) = round /\ flags[g] = round
            BY <3>6, <5>2
          <5>4. sent'[g] /\ arg'[g] = round' /\ held' = arg'[g] /\ found'
            BY <3>4, <3>5, <4>2, <4>7, <5>1, <5>2, <5>3
          <5> QED
            BY <3>7, <5>4 DEF FirstKnows
        <4>8. CASE ~found /\ ~F!cand_v
          <5>1. ASSUME NEW g \in Guards, sent'[g] PROVE arg'[g] # round'
            <6>1. CASE sent[g]
              BY <3>5, <4>1, <4>8, <6>1 DEF FirstKnows
            <6>2. CASE ~sent[g]
              <7>1. Valid(flags[g]) /\ ~seen[g]
                BY <2>1, <3>4, <5>1, <6>2
              <7>2. flags[g] = Zero
                BY <4>3, <4>5, <4>8, <7>1
              <7> QED
                BY <3>5, <3>6, <7>1, <7>2
            <6> QED
              BY <6>1, <6>2
          <5> QED
            BY <3>7, <4>2, <4>8, <5>1 DEF FirstKnows
        <4> QED
          BY <4>6, <4>7, <4>8
      <3>8. CASE decider = "priority"
        <4>1. PriorityKnows
          BY <1>6, <3>8 DEF ValueInv
        <4>2. /\ found' <=> found \/ (Valid(flags[1]) /\ flags[1] # Zero)
              /\ held' = IF Valid(flags[1]) /\ flags[1] # Zero THEN flags[1]
                         ELSE IF Valid(flags[2]) /\ ~found THEN flags[2] ELSE held
          BY <1>5, <1>6, <2>1, <2>3, <3>8, PriorityBefore
        <4>3. sent[1] => ~Valid(flags[1])
          BY <2>1, TwoGuards DEF Quiet
        <4>4. sent[2] => ~Valid(flags[2])
          BY <2>1, TwoGuards DEF Quiet
        <4>5. found' <=> sent'[1] /\ arg'[1] = round'
          BY <3>4, <3>5, <3>6, <4>1, <4>2, <4>3, TwoGuards DEF PriorityKnows
        <4>6. found' => held' = arg'[1]
          BY <3>4, <3>5, <3>6, <4>1, <4>2, <4>3, TwoGuards DEF PriorityKnows
        <4>7. Valid(Argument(2)) => Body(Argument(2)) = IF Argument(2) = round THEN round ELSE Zero
          BY BodyFacts, TwoGuards
        <4>8. Valid(flags[2]) => Valid(Argument(2)) 
          BY <2>1, PhaseFlags, WordFacts, TwoGuards
        <4>9. ~found' /\ sent'[2] => held' = Body(arg'[2])
          <5> SUFFICES ASSUME ~found', sent'[2] PROVE held' = Body(Argument(2))
            BY <3>5, TwoGuards
          <5>1. CASE sent[2]
            BY <3>5, <4>1, <4>2, <4>4, <5>1, TwoGuards DEF PriorityKnows
          <5>2. CASE ~sent[2]
            <6>1. Valid(flags[2])
              BY <3>4, <5>2, TwoGuards
            <6> QED
              BY <3>6, <4>2, <4>7, <4>8, <6>1, TwoGuards
          <5> QED
            BY <5>1, <5>2
        <4>10. PriorityKnows'
          BY <4>5, <4>6, <4>9 DEF PriorityKnows, Body, Valid
        <4> QED
          BY <3>8, <4>10
      <3> QED
        BY <1>5, <3>7, <3>8
    <2> QED
      BY <2>2, <2>3
  <1>7. CASE killed \/ emitted
    <2>1. /\ Owing /\ StepLate /\ (killed => kill_at_valid /\ ~emitted)
          /\ \A g \in Guards : owe[g] = ~seen[g] /\ ~sent[g]
      BY <1>1, <1>7, PhaseFlags DEF PhaseInv
    <2>2. emitted \/ outs_ready
      BY <1>2, <1>7, <2>1 DEF StepLate
    <2>3. emitted' <=> emitted /\ Valid(decision) /\ outs_ready
      BY <2>1, <2>2 DEF StepLate
    <2>4. ~kill
      BY <1>2, <1>3, <1>7, <2>1, <2>3
    <2>5. \A g \in Guards : sent'[g] <=> seen[g] /\ Valid(flags[g])
      BY <1>4, <2>1, <2>2, <2>4, GuardTypes DEF StepLate
    <2>6. \A g \in Guards : arg'[g] = Argument(g) /\ round' = round
      BY <2>4, ArgumentStep
    <2>7. /\ round # Zero
          /\ \A g \in Guards : seen[g] /\ Valid(flags[g]) =>
               flags[g] = IF Argument(g) = round THEN round ELSE Zero
      BY <2>1, FlagValues, BodyFacts, TwoGuards, GuardTypes
    <2>8. CASE decider = "first"
      <3>1. /\ found' => \E g \in Guards : /\ seen[g] /\ Valid(flags[g]) /\ flags[g] # Zero
                                           /\ held' = flags[g]
            /\ ~found' => \A g \in Guards : seen[g] /\ Valid(flags[g]) => flags[g] = Zero
        BY <1>5, <2>1, <2>2, <2>8, FirstLate
      <3>2. FirstKnows'
        BY <2>5, <2>6, <2>7, <3>1 DEF FirstKnows
      <3> QED
        BY <2>8, <3>2
    <2>9. CASE decider = "priority"
      <3>1. /\ found' <=> seen[1] /\ Valid(flags[1]) /\ flags[1] # Zero
            /\ found' => held' = flags[1]
            /\ ~found' /\ seen[2] /\ Valid(flags[2]) => held' = flags[2]
        BY <1>5, <2>1, <2>2, <2>9, PriorityLate
      <3>2. (found' <=> sent'[1] /\ arg'[1] = round') /\ (found' => held' = arg'[1])
        BY <2>5, <2>6, <2>7, <3>1, TwoGuards
      <3>3. Valid(Argument(2)) => Body(Argument(2)) = IF Argument(2) = round THEN round ELSE Zero
        BY BodyFacts, TwoGuards
      <3>4. seen[2] /\ Valid(flags[2]) => Valid(Argument(2))
        BY <2>1, PhaseFlags, WordFacts, TwoGuards, GuardTypes
      <3>5. ~found' /\ sent'[2] => held' = Body(arg'[2])
        BY <2>5, <2>6, <2>7, <3>1, <3>3, <3>4, TwoGuards
      <3>6. PriorityKnows'
        BY <3>2, <3>5 DEF PriorityKnows, Body, Valid
      <3> QED
        BY <2>9, <3>6
    <2> QED
      BY <1>5, <2>8, <2>9
  <1> QED
    BY <1>6, <1>7
-----------------------------------------------------------------------------
(* What the wires show in a reachable state.                               *)

\* An input that has not given its token can give it; after an answer all can.
LEMMA ReadyFacts ==
  ASSUME TypeOK
  PROVE  /\ \A g \in Guards : ~seen[g] => flags_ready[g]
         /\ emitted /\ Owing => \A g \in Guards : flags_ready[g]
  <1>1. CASE decider = "first"
    <2>1. \A g \in Guards : ~seen[g] => flags_ready[g]
      BY <1>1 DEF flags_ready, F!ins_ready
    <2>2. Owing => \A g \in Guards : F!seen_next(g)
      BY ChannelAssumption DEF F!seen_next, F!taken, Owing, F!Valid
    <2>3. emitted /\ Owing => \A g \in Guards : F!done_wo(g)
      BY <2>2 DEF F!done_wo, F!all_others
    <2> QED
      BY <1>1, <2>1, <2>3 DEF flags_ready, F!ins_ready
  <1>2. CASE decider = "priority"
    <2>1. Owing => \A g \in Guards : P!here(g)
      BY ChannelAssumption DEF P!here, P!take, Owing, P!Valid
    <2>2. emitted /\ Owing => P!done_hi /\ P!done_lo
      BY <2>1, TwoGuards DEF P!done_hi, P!done_lo
    <2> QED
      BY <1>2, <2>2, TwoGuards DEF flags_ready, P!ins_ready
  <1> QED
    BY <1>1, <1>2 DEF TypeOK

\* What the unit offers in a round it has not answered, by its registers.
Offered ==
  /\ Owing => Valid(decision)
  /\ decider = "first" /\ found => decision = held
  /\ decider = "first" /\ ~found /\ (\A g \in Guards : seen[g]) => decision = Zero
  /\ decider = "priority" /\ seen[1] /\ (found \/ seen[2]) => decision = held

LEMMA OfferedFacts == IInv /\ ~emitted => Offered
  <1> SUFFICES ASSUME IInv, ~emitted PROVE Offered
    OBVIOUS
  <1>1. FlagTypes /\ held \in Data /\ decider \in {"first", "priority"}
    BY FlagsAreWires DEF IInv, TypeOK
  <1>2. CASE decider = "first"
    <2>1. Valid(decision) <=> F!valid_i \/ F!early
      BY <1>1, <1>2, FirstAnswers
    <2>2. Owing => F!closing
      BY ChannelAssumption DEF F!closing, F!seen_next, F!taken, Owing, F!Valid
    <2>3. (\A g \in Guards : seen[g]) => F!closing /\ ~F!cand_v
      BY DEF F!closing, F!seen_next, F!cand_v, F!carries, F!taken
    <2>4. F!closing \/ found => Valid(decision)
      BY <2>1 DEF F!valid_i
    <2> QED
      BY <1>1, <1>2, <2>2, <2>3, <2>4, FirstAnswers DEF Offered
  <1>3. CASE decider = "priority"
    <2>1. Valid(decision) <=> P!valid_i \/ P!early
      BY <1>1, <1>3, PriorityAnswers
    <2>2. Owing => P!here(1) /\ P!here(2)
      BY TwoGuards, ChannelAssumption DEF P!here, P!take, Owing, P!Valid
    <2>3. P!here(1) /\ (found \/ P!here(2)) => Valid(decision)
      BY <2>1 DEF P!valid_i, P!hi_nz
    <2>4. seen[1] => P!here(1) /\ ~P!hi_now_nz
      BY DEF P!here, P!hi_now_nz, P!take
    <2>5. seen[2] => P!here(2) /\ ~P!take(2)
      BY DEF P!here, P!take
    <2>6. ~P!early
      BY DEF P!early
    <2> QED
      BY <1>1, <1>3, <2>2, <2>3, <2>4, <2>5, <2>6, PriorityAnswers DEF Offered
  <1> QED
    BY <1>1, <1>2, <1>3

\* A killed round has its arguments.
LEMMA KilledRound ==
  ASSUME IInv, kill, NEW g \in Guards
  PROVE  Valid(Argument(g)) /\ ~killed
  <1>1. Valid(arg[g]) \/ Valid(start[g])
    BY EnteringWire DEF IInv, Promise, Entered
  <1>2. ~killed
    BY KillWire DEF IInv, PhaseInv
  <1> QED
    BY <1>1, <1>2 DEF Argument

\* A kill finds no token waiting at a stand-in.
LEMMA PreconditionLemma == IInv => StandInPrecondition
  <1> SUFFICES ASSUME IInv, NEW g \in Guards, kill, ~flags_ready[g]
               PROVE  ~owe[g] /\ ~Valid(Body(word(g)))
    BY DEF StandInPrecondition, Stand!Precondition, Valid, Stand!Valid
  <1>1. TypeOK /\ GuardsInv /\ RoundInv /\ PhaseInv /\ ~killed
    BY KilledRound DEF IInv
  <1>2. seen[g]
    BY <1>1, ReadyFacts
  <1>3. ~emitted
    BY <1>1, PhaseFlags, ReadyFacts
  <1>4. ~owe[g] /\ sent[g]
    BY <1>1, <1>2, <1>3 DEF PhaseInv
  <1> QED
    BY <1>1, <1>4, WordFacts, BodyFacts

\* What is decided is right by the arguments of the round.
LEMMA DecisionLemma == IInv => DecisionRight
  <1> SUFFICES ASSUME IInv, kill PROVE DecisionRight
    BY DEF DecisionRight
  <1>1. TypeOK /\ GuardsInv /\ RoundInv /\ PhaseInv /\ ValueInv
    BY DEF IInv
  <1>2. ~killed /\ Valid(decision) /\ \A g \in Guards : Valid(Argument(g))
    BY KilledRound, KillWire, TwoGuards
  <1>3. /\ \A g \in Guards : g \in Holding <=> Argument(g) = round
        /\ Holding \subseteq Guards /\ round # Zero
    BY <1>1, <1>2, BodyFacts, TwoGuards DEF Holding
  <1>4. \A g \in Guards : ~owe[g] /\ Valid(flags[g]) =>
          flags[g] = IF Argument(g) = round THEN round ELSE Zero
    BY <1>1, FlagValues
  <1>5. FlagTypes /\ held \in Data /\ decider \in {"first", "priority"}
    BY <1>1, FlagsAreWires DEF TypeOK
  <1>6. \A g \in Guards : sent[g] => Argument(g) = arg[g]
    <2>1. \A g \in Guards : sent[g] => Valid(arg[g])
      BY <1>1, GuardTypes DEF GuardsInv, GuardInv
    <2> QED
      BY <2>1 DEF Argument
  <1>7. \A g \in Guards : sent[g] \in BOOLEAN /\ owe[g] \in BOOLEAN /\ seen[g] \in BOOLEAN
    BY <1>1, GuardTypes
  <1>8. CASE decider = "first"
    <2> SUFFICES IF Holding = {} THEN decision = Zero
                 ELSE \E g \in Holding : decision = Argument(g)
      BY <1>8 DEF DecisionRight
    <2>1. CASE emitted
      <3>1. PICK g \in Guards : F!early_in(g) /\ flags[g] # Zero /\ decision = flags[g]
        BY <1>2, <1>5, <1>8, <2>1, FirstAnswers
      <3>2. seen[g] /\ Valid(flags[g])
        BY <3>1 DEF F!early_in, Valid, F!Valid
      <3>3. ~owe[g]
        BY <1>1, <1>7, <2>1, <3>2 DEF PhaseInv
      <3>4. Argument(g) = round /\ decision = round
        BY <1>4, <3>1, <3>2, <3>3
      <3> QED
        BY <1>3, <3>4
    <2>2. CASE ~emitted
      <3>1. FirstKnows /\ \A g \in Guards : ~owe[g] /\ seen[g] = sent[g]
        BY <1>1, <1>2, <1>8, <2>2 DEF ValueInv, PhaseInv
      <3>2. CASE found
        <4>1. PICK g \in Guards : sent[g] /\ arg[g] = round /\ held = arg[g]
          BY <3>1, <3>2 DEF FirstKnows
        <4>2. decision = Argument(g) /\ Argument(g) = round
          BY <1>2, <1>5, <1>6, <1>8, <2>2, <3>2, <4>1, FirstAnswers
        <4> QED
          BY <1>3, <4>2
      <3>3. CASE ~found /\ F!cand_v
        <4>1. PICK g \in Guards : F!carries(g) /\ decision = flags[g]
          BY <1>2, <1>5, <1>8, <2>2, <3>3, FirstAnswers
        <4>2. Valid(flags[g]) /\ flags[g] # Zero
          BY <4>1 DEF F!carries, F!taken, Valid, F!Valid
        <4>3. Argument(g) = round /\ decision = round
          BY <1>4, <3>1, <4>1, <4>2
        <4> QED
          BY <1>3, <4>3
      <3>4. CASE ~found /\ ~F!cand_v
        <4>1. decision = Zero
          BY <1>2, <1>5, <1>8, <2>2, <3>4, FirstAnswers
        <4>2. F!closing
          <5>1. F!valid_i \/ F!early
            BY <1>2, <1>5, <1>8, FirstAnswers
          <5>2. ~F!early
            BY <2>2 DEF F!early, F!EarlyCarries, F!early_in
          <5> QED
            BY <3>4, <5>1, <5>2 DEF F!valid_i
        <4>3. ASSUME NEW g \in Guards PROVE Argument(g) # round
          <5>1. CASE sent[g]
            BY <1>6, <3>1, <3>4, <5>1 DEF FirstKnows
          <5>2. CASE ~sent[g]
            <6>1. Valid(flags[g]) /\ ~seen[g]
              BY <3>1, <4>2, <5>2 DEF F!closing, F!seen_next, F!taken, Valid, F!Valid
            <6>2. flags[g] = Zero
              BY <3>4, <6>1 DEF F!cand_v, F!carries, F!taken, Valid, F!Valid
            <6> QED
              BY <1>3, <1>4, <3>1, <6>1, <6>2
          <5> QED
            BY <5>1, <5>2
        <4> QED
          BY <1>3, <4>1, <4>3
      <3> QED
        BY <3>2, <3>3, <3>4
    <2> QED
      BY <2>1, <2>2
  <1>9. CASE decider = "priority"
    <2> SUFFICES decision = IF Argument(1) = round THEN Argument(1)
                            ELSE IF Argument(2) = round THEN Argument(2) ELSE Zero
      BY <1>3, <1>9, TwoGuards DEF DecisionRight
    <2>1. /\ P!valid_i \/ P!early
          /\ decision = IF P!hi_now_nz \/ P!early THEN flags[1]
                        ELSE IF found \/ ~P!take(2) THEN held ELSE flags[2]
      BY <1>2, <1>5, <1>9, PriorityAnswers
    <2>2. CASE emitted
      <3>1. P!early
        BY <2>1, <2>2 DEF P!valid_i
      <3>2. seen[1] /\ Valid(flags[1]) /\ flags[1] # Zero
        BY <3>1 DEF P!early, P!hi_is_nz, Valid, P!Valid
      <3>3. ~owe[1]
        BY <1>1, <1>7, <2>2, <3>2, TwoGuards DEF PhaseInv
      <3> QED
        BY <1>4, <2>1, <3>1, <3>2, <3>3, TwoGuards
    <2>3. CASE ~emitted
      <3>1. PriorityKnows /\ \A g \in Guards : ~owe[g] /\ seen[g] = sent[g]
        BY <1>1, <1>2, <1>9, <2>3 DEF ValueInv, PhaseInv
      <3>2. ~P!early /\ P!valid_i
        BY <2>1, <2>3 DEF P!early
      <3>3. \A g \in Guards : P!take(g) <=> Valid(flags[g]) /\ ~seen[g]
        BY DEF P!take, Valid, P!Valid
      <3>4. P!hi_now_nz <=> Valid(flags[1]) /\ ~seen[1] /\ flags[1] # Zero
        BY <3>3, TwoGuards DEF P!hi_now_nz, P!hi_is_nz
      <3>5. CASE P!hi_now_nz
        BY <1>4, <2>1, <3>1, <3>4, <3>5, TwoGuards
      <3>6. CASE ~P!hi_now_nz /\ found
        BY <1>6, <2>1, <3>1, <3>2, <3>6, TwoGuards DEF PriorityKnows
      <3>7. CASE ~P!hi_now_nz /\ ~found
        <4>1. (seen[1] \/ Valid(flags[1])) /\ (seen[2] \/ P!take(2))
          BY <3>2, <3>3, <3>7, TwoGuards DEF P!valid_i, P!here, P!hi_nz
        <4>2. Argument(1) # round
          <5>1. CASE sent[1]
            BY <1>6, <3>1, <3>7, <5>1, TwoGuards DEF PriorityKnows
          <5>2. CASE ~sent[1]
            BY <1>3, <1>4, <3>1, <3>4, <3>7, <4>1, <5>2, TwoGuards
          <5> QED
            BY <5>1, <5>2
        <4>3. Body(Argument(2)) = IF Argument(2) = round THEN round ELSE Zero
          BY <1>1, <1>2, BodyFacts, TwoGuards
        <4>4. CASE P!take(2)
          BY <1>4, <2>1, <3>1, <3>2, <3>3, <3>7, <4>2, <4>4, TwoGuards
        <4>5. CASE ~P!take(2)
          <5>1. sent[2]
            BY <3>1, <4>1, <4>5, TwoGuards
          <5> QED
            BY <1>6, <2>1, <3>1, <3>2, <3>7, <4>2, <4>3, <4>5, <5>1, TwoGuards DEF PriorityKnows
        <4> QED
          BY <4>4, <4>5
      <3> QED
        BY <3>5, <3>6, <3>7
    <2> QED
      BY <2>2, <2>3
  <1> QED
    BY <1>5, <1>8, <1>9
-----------------------------------------------------------------------------
(* The invariant.                                                          *)

\* The domain as after a reset.
Fresh ==
  /\ decider \in {"first", "priority"} /\ kill_at_valid \in BOOLEAN /\ loading \in Loading
  /\ InitRegs /\ InitHistory
  /\ start \in [Guards -> Arguments(round)] /\ outs_ready \in BOOLEAN

LEMMA FreshKeeps ==
  Fresh => TypeOK /\ GuardsInv /\ RoundInv /\ PhaseInv /\ ValueInv
  <1> SUFFICES ASSUME Fresh PROVE TypeOK /\ GuardsInv /\ RoundInv /\ PhaseInv /\ ValueInv
    OBVIOUS
  <1> USE DEF Fresh, InitRegs, InitHistory
  <1>1. R \in Nat /\ R >= 2 /\ Data = 0 .. 2 * R /\ Zero \in Data
    BY KillDomainAssumption, ChannelAssumption
  <1>2. F!InitRegs
    OBVIOUS
  <1>3. seen = [g \in Guards |-> FALSE] /\ held = Zero /\ found = FALSE /\ emitted = FALSE
    BY <1>2 DEF F!InitRegs
  <1>4. Arguments(round) \subseteq Wire /\ NoToken \in Arguments(round) /\ round \in 1 .. R
    BY <1>1 DEF Arguments, Wire
  <1>5. start \in [Guards -> Wire]
    BY <1>4
  <1>6. TypeOK
    <2>1. Nothing \in [Guards -> Wire] /\ Low \in [Guards -> BOOLEAN]
      BY DEF Nothing, Low, Wire
    <2>2. [g \in Guards |-> 0] \in [Guards -> 0 .. 3]
      OBVIOUS
    <2>3. owed \in [Guards -> 0 .. 3] /\ drop \in [Guards -> 0 .. 3]
      BY <2>2
    <2>4. seen \in [Guards -> BOOLEAN] /\ found \in BOOLEAN /\ held \in Data /\ emitted \in BOOLEAN
      BY <1>1, <1>3
    <2>5. /\ latch \in [Guards -> Wire] /\ addrSlot \in [Guards -> Wire]
          /\ wordSlot \in [Guards -> Wire] /\ memWord \in [Guards -> Wire]
          /\ arg \in [Guards -> Wire]
          /\ sent \in [Guards -> BOOLEAN] /\ owe \in [Guards -> BOOLEAN] /\ killed \in BOOLEAN
      BY <2>1
    <2>6. round \in 1 .. R /\ taken \in 1 .. R
      BY <1>1
    <2> QED
      BY <1>5, <2>3, <2>4, <2>5, <2>6 DEF TypeOK
  <1>7. \A g \in Guards : /\ latch[g] = NoToken /\ addrSlot[g] = NoToken /\ wordSlot[g] = NoToken
                          /\ memWord[g] = NoToken /\ arg[g] = NoToken
                          /\ owed[g] = 0 /\ drop[g] = 0 /\ sent[g] = FALSE /\ owe[g] = FALSE
                          /\ seen[g] = FALSE
    BY <1>3 DEF Nothing, Low
  <1>8. GuardsInv
    BY <1>7 DEF GuardsInv, GuardInv, Bit, Valid
  <1>9. RoundInv
    BY <1>4, <1>7 DEF RoundInv, Valid
  <1>10. PhaseInv /\ ValueInv
    BY <1>3, <1>7, TwoGuards DEF PhaseInv, ValueInv, FirstKnows, PriorityKnows
  <1> QED
    BY <1>6, <1>8, <1>9, <1>10

\* Nothing is decided in an empty domain without arguments.
LEMMA EmptyDecides ==
  Fresh /\ start = Nothing => Promise
  <1> SUFFICES ASSUME Fresh, start = Nothing
               PROVE  ~Valid(decision)
    BY KillWire DEF Promise
  <1> TypeOK /\ GuardsInv /\ RoundInv /\ PhaseInv
    BY FreshKeeps
  <1>1. /\ ~emitted /\ ~found
        /\ \A g \in Guards : ~seen[g] /\ ~owe[g] /\ latch[g] = NoToken /\ start[g] = NoToken
                             /\ wordSlot[g] = NoToken /\ memWord[g] = NoToken
    <2>1. F!InitRegs
      BY DEF Fresh, InitRegs
    <2> QED
      BY <2>1 DEF Fresh, InitRegs, F!InitRegs, Nothing, Low
  <1>2. \A g \in Guards : ~Valid(word(g))
    BY <1>1, WordWire DEF In, Loaded, Valid
  <1>3. FlagTypes /\ \A g \in Guards : ~Valid(flags[g])
    BY <1>1, <1>2, PhaseFlags
  <1>4. decider \in {"first", "priority"} /\ held \in Data
    BY DEF TypeOK
  <1>5. CASE decider = "first"
    <2>1. \A g \in Guards : ~F!seen_next(g) /\ ~F!carries(g) /\ ~F!early_in(g)
      BY <1>1, <1>3 DEF F!seen_next, F!carries, F!taken, F!early_in, Valid, F!Valid
    <2>2. ~F!valid_i /\ ~F!early
      BY <1>1, <2>1, TwoGuards
         DEF F!valid_i, F!closing, F!cand_v, F!early, F!EarlyCarries
    <2> QED
      BY <1>3, <1>4, <1>5, <2>2, FirstAnswers
  <1>6. CASE decider = "priority"
    <2>1. ~P!valid_i /\ ~P!early
      BY <1>1, <1>3, TwoGuards DEF P!valid_i, P!early, P!here, P!take, Valid, P!Valid
    <2> QED
      BY <1>3, <1>4, <1>6, <2>1, PriorityAnswers
  <1> QED
    BY <1>4, <1>5, <1>6

LEMMA IInvInit == Init => IInv
  BY FreshKeeps DEF Init, IInv, Fresh

\* The invariant, action by action.
LEMMA CycleStep ==
  ASSUME IInv, NEW busy \in BOOLEAN, Cycle(busy)
  PROVE  IInv'
  <1>1. /\ TypeOK /\ GuardsInv /\ RoundInv /\ PhaseInv /\ ValueInv
        /\ Circuit(busy) /\ History /\ Surroundings /\ UNCHANGED circuit /\ Promise'
    BY DEF IInv, Cycle, Surroundings
  <1>2. GuardsInv' /\ PhaseInv' /\ RoundInv' /\ ValueInv'
    BY <1>1, GuardStep, PhaseStep, RoundStep, ValueStep
  <1>3. TypeOK'
    BY <1>1, GuardStep, PhaseStep, RoundStep DEF TypeOK, circuit
  <1> QED
    BY <1>1, <1>2, <1>3 DEF IInv

LEMMA ResetStep ==
  ASSUME IInv, Reset
  PROVE  IInv'
  <1>1. Fresh' /\ start' = Nothing
    <2>1. F!InitRegs'
      BY DEF Reset, F!Reset, F!InitRegs
    <2>2. start' \in [Guards -> Arguments(round)']
      BY DEF Reset, Nothing, Arguments
    <2> QED
      BY <2>1, <2>2 DEF IInv, TypeOK, Reset, circuit, Fresh, InitRegs, InitHistory, Nothing, Low
  <1>2. (Fresh /\ start = Nothing)'
    BY <1>1 DEF Nothing
  <1>3. (TypeOK /\ GuardsInv /\ RoundInv /\ PhaseInv /\ ValueInv)'
    BY <1>2, FreshKeeps, PTL
  <1>4. Promise'
    BY <1>2, EmptyDecides, PTL
  <1> QED
    BY <1>3, <1>4 DEF IInv

\* The wires read the registers only.
LEMMA StutterStep ==
  ASSUME IInv, UNCHANGED vars
  PROVE  IInv'
  <1> USE DEF vars, circuit, loadRegs, decisionRegs
  <1>1. \A g \in Guards : word(g)' = word(g)
    BY DEF word, LatchOffer!outs, LoadOffer!dataOut, LoadOffer!dropping,
           LoadOffer!Word!outs
  <1>2. \A g \in Guards : flags[g]' = flags[g]
    BY <1>1 DEF flags, StandOffer!outs, Body
  <1>3. flags' = flags
    BY <1>2 DEF flags
  <1>4. decision' = decision
    BY <1>3 DEF decision, F!outs, F!valid_i, F!early, F!EarlyCarries, F!early_in, F!all_others,
       F!Lowest, F!cand, F!cand_v, F!carries, F!taken, F!closing, F!seen_next,
       P!outs, P!valid_i, P!early, P!here, P!take, P!hi_is_nz, P!hi_now_nz, P!hi_nz
  <1>5. kill' <=> kill
    BY <1>4 DEF kill, Cm!kill
  <1>6. \A g \in Guards : Entered(g)' <=> Entered(g)
    BY DEF Entered, Entering, Latch!ins_ready
  <1>7. Promise'
    BY <1>5, <1>6 DEF IInv, Promise
  <1>8. TypeOK' /\ GuardsInv' /\ RoundInv' /\ PhaseInv' /\ ValueInv'
    BY DEF IInv, TypeOK, GuardsInv, RoundInv, Arguments, PhaseInv, ValueInv, FirstKnows,
           PriorityKnows, Body
  <1> QED
    BY <1>7, <1>8 DEF IInv

LEMMA IInvStep == IInv /\ [Next]_vars => IInv'
  BY CycleStep, ResetStep, StutterStep DEF Next

\* What holds in every state of the invariant, after a step too.
LEMMA OfferedNext == IInv' /\ ~emitted' => Offered'
  BY OfferedFacts, PTL

\* A decision that is not taken stays, by what the unit's registers become.
LEMMA HeldStep ==
  ASSUME IInv, IInv', NEW busy \in BOOLEAN, Cycle(busy), Holds(decision, outs_ready)
  PROVE  decision' = decision
  <1>1. /\ TypeOK /\ GuardsInv /\ RoundInv /\ PhaseInv /\ DecisionStep /\ decider' = decider
        /\ Valid(decision) /\ ~outs_ready
    BY DEF IInv, Cycle, Circuit, Surroundings, circuit, Holds
  <1>2. /\ FlagTypes /\ held \in Data /\ decider \in {"first", "priority"}
        /\ ~killed /\ ~emitted => Quiet
        /\ killed \/ emitted => Owing
    BY <1>1, PhaseFlags DEF TypeOK
  <1>3. IF killed \/ emitted THEN StepLate ELSE StepBefore
    BY <1>1, UnitStep
  <1>4. ~emitted' /\ Offered'
    BY <1>1, <1>3, OfferedNext DEF StepLate, StepBefore
  <1>5. CASE decider = "first"
    <2>1. /\ found' => decision' = held'
          /\ ~found' /\ (\A g \in Guards : seen'[g]) => decision' = Zero
      BY <1>1, <1>4, <1>5 DEF Offered
    <2>2. CASE emitted
      BY <1>1, <1>2, <1>5, <2>1, <2>2, FirstLate
    <2>3. CASE killed /\ ~emitted
      BY <1>1, <1>2, <1>3, <1>5, <2>1, <2>3, FirstLate DEF StepLate
    <2>4. CASE ~killed /\ ~emitted
      <3>1. /\ found' <=> found \/ F!cand_v
            /\ held' = IF ~found /\ F!cand_v THEN F!cand ELSE held
        BY <1>1, <1>2, <1>5, <2>4, FirstBefore
      <3>2. CASE found \/ F!cand_v
        BY <1>1, <1>2, <1>5, <2>1, <2>4, <3>1, <3>2, FirstAnswers
      <3>3. CASE ~found /\ ~F!cand_v
        <4>1. decision = Zero /\ (F!valid_i \/ F!early)
          BY <1>1, <1>2, <1>5, <2>4, <3>3, FirstAnswers
        <4>2. \A g \in Guards : Here(g)
          BY <2>4, <3>3, <4>1
             DEF F!valid_i, F!early, F!EarlyCarries, F!early_in, F!closing, F!seen_next, F!taken,
                 Here, Valid, F!Valid
        <4> QED
          BY <1>1, <1>3, <2>1, <2>4, <3>1, <3>3, <4>1, <4>2 DEF StepBefore
      <3> QED
        BY <3>2, <3>3
    <2> QED
      BY <2>2, <2>3, <2>4
  <1>6. CASE decider = "priority"
    <2>1. seen'[1] /\ (found' \/ seen'[2]) => decision' = held'
      BY <1>1, <1>4, <1>6 DEF Offered
    <2>2. CASE emitted
      BY <1>1, <1>2, <1>3, <1>6, <2>1, <2>2, PriorityLate, TwoGuards DEF StepLate
    <2>3. CASE killed /\ ~emitted
      BY <1>1, <1>2, <1>3, <1>6, <2>1, <2>3, PriorityLate, TwoGuards DEF StepLate
    <2>4. CASE ~killed /\ ~emitted
      <3>1. /\ found' <=> found \/ (Valid(flags[1]) /\ flags[1] # Zero)
            /\ held' = IF Valid(flags[1]) /\ flags[1] # Zero THEN flags[1]
                       ELSE IF Valid(flags[2]) /\ ~found THEN flags[2] ELSE held
        BY <1>1, <1>2, <1>6, <2>4, PriorityBefore
      <3>2. /\ P!valid_i
            /\ decision = IF P!hi_now_nz THEN flags[1]
                          ELSE IF found \/ ~P!take(2) THEN held ELSE flags[2]
        BY <1>1, <1>2, <1>6, <2>4, PriorityAnswers DEF P!early
      <3>3. \A g \in Guards : (P!here(g) <=> Here(g)) /\ (P!take(g) <=> Valid(flags[g]))
        BY <1>2, <2>4 DEF P!here, P!take, Here, Quiet, Valid, P!Valid
      <3>4. P!hi_now_nz <=> Valid(flags[1]) /\ flags[1] # Zero
        BY <3>3, TwoGuards DEF P!hi_now_nz, P!hi_is_nz
      <3>5. Here(1) /\ (found' \/ Here(2))
        BY <3>1, <3>2, <3>3, <3>4, TwoGuards DEF P!valid_i, P!hi_nz
      <3>6. decision' = held'
        BY <1>1, <1>3, <2>1, <2>4, <3>5, TwoGuards DEF StepBefore
      <3> QED
        BY <3>1, <3>2, <3>3, <3>4, <3>6, TwoGuards
    <2> QED
      BY <2>2, <2>3, <2>4
  <1> QED
    BY <1>2, <1>5, <1>6
-----------------------------------------------------------------------------
(* The theorems.                                                           *)

\* The registers of latches, loads, stand-ins, decision unit and commit stay
\* in the relation IInv states, and the surroundings keep their promise.
THEOREM KillInvariance == Spec => []IInv
  BY IInvInit, IInvStep, PTL DEF Spec

\* Every register keeps the width its unit gives it.
THEOREM KillTypes == Spec => []TypeOK
  <1>1. IInv => TypeOK
    BY DEF IInv
  <1> QED
    BY <1>1, KillInvariance, PTL

\* The assertions of stand_in.py hold: no kill arrives while a token waits at
\* a stand-in's output, neither an owed zero nor the producer's own.
THEOREM KillFindsNoWaitingToken == Spec => []StandInPrecondition
  BY KillInvariance, PreconditionLemma, PTL

\* What a guard works on is the argument it was given in the current round,
\* however many words of dead rounds its load has still to drop.
THEOREM NoWordOutlivesItsRound == Spec => []NoDeadWord
  <1>1. IInv => NoDeadWord
    BY WordFacts DEF IInv, NoDeadWord
  <1> QED
    BY <1>1, KillInvariance, PTL

\* The commit kills one round for every decision, at its offer or at its
\* transfer: rounds killed and decisions taken differ by the one that waits.
THEOREM KillsAndDecisionsPair == Spec => []OneKillADecision
  <1>1. IInv => OneKillADecision
    <2> SUFFICES ASSUME IInv PROVE OneKillADecision
      OBVIOUS
    <2>1. TypeOK /\ GuardsInv /\ RoundInv /\ PhaseInv
      BY DEF IInv
    <2>2. killed => ~emitted /\ Owing
      BY <2>1, PhaseFlags DEF PhaseInv
    <2>3. killed => Valid(decision)
      BY <2>2, OfferedFacts DEF Offered
    <2> QED
      BY <2>1, <2>3 DEF OneKillADecision, RoundInv
  <1> QED
    BY <1>1, KillInvariance, PTL

\* A guard that holds wins although losers are stopped and zeros stand in for
\* them, and `nothing` is answered only when no guard of the round holds.
THEOREM DecisionsAreRight == Spec => []DecisionRight
  BY KillInvariance, DecisionLemma, PTL

\* A decision the reader does not take stays, with its payload, in the next
\* cycle: the commit's kill-at-valid flag stands for that very decision.
THEOREM DecisionStays == Spec => DecisionHeld
  <1> DEFINE Stays == (\E busy \in BOOLEAN : Cycle(busy)) /\ Holds(decision, outs_ready)
                      => decision' = decision
  <1>1. IInv /\ IInv' /\ [Next]_vars => [Stays]_vars
    BY HeldStep
  <1>2. Spec => [][Stays]_vars
    BY <1>1, KillInvariance, PTL DEF Spec
  <1> QED
    BY <1>2 DEF DecisionHeld
=============================================================================
