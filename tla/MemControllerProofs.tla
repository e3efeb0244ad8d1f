------------------------- MODULE MemControllerProofs -------------------------
(***************************************************************************)
(* Proofs about the storing half of the memory controller, for any blocks, *)
(* ports and numbers of stores, and a counter wide enough for the stores   *)
(* of one call.                                                            *)
(***************************************************************************)
EXTENDS MemController, CountingLemmas

\* The controller looks at the control ports of the cycle and keeps ctrlEnd in
\* a register: announcements may come one cycle after ctrlEnd, not later.
LagCovered == MaxLag <= 1

Modulus == 2^CounterBits

\* No part of a call is left.
Finished ==
  /\ st = {} /\ ctrl = {}
  /\ \A p \in Ports : toStore[p] = 0
  /\ \A b \in Blocks : toCtrl[b] = 0

\* Where the call is, by the tokens of ctrlEnd and the announcements.
PhaseInv ==
  /\ ~running => /\ Finished /\ start = "later" /\ ended = "later"
                 /\ fsm_q = "IDLE" /\ ~no_more_requests_q
  /\ no_more_requests_q => ended = "taken"
  /\ ended = "taken" => age = MaxLag
  /\ ended # "later" => \A b \in Blocks : toCtrl[b] <= MaxLag - age

IInv == TypeOK /\ RemainingExact /\ outstanding < Modulus /\ PhaseInv
-----------------------------------------------------------------------------
(* Numbers and sums.                                                       *)

LEMMA ModularStep ==
  ASSUME NEW a \in Int, NEW k \in Int, NEW m \in Int, m > 0
  PROVE  ((a % m) + k) % m = (a + k) % m
  <1> DEFINE q == a \div m  r == a % m
  <1>1. q \in Int /\ r \in 0 .. m - 1 /\ a = m * q + r
    OBVIOUS
  <1> HIDE DEF q, r
  <1> DEFINE s == r + k  u == s \div m  v == s % m
             w == (a + k) \div m  z == (a + k) % m
  <1>2. u \in Int /\ v \in 0 .. m - 1 /\ s = m * u + v
    BY <1>1
  <1>3. w \in Int /\ z \in 0 .. m - 1 /\ a + k = m * w + z
    OBVIOUS
  <1>4. a + k = m * q + s
    BY <1>1
  <1> HIDE DEF s, u, v, w, z
  <1>5. m * (q + u - w) = z - v
    <2>1. m * (q + u - w) = m * q + m * u - m * w
      BY <1>1, <1>2, <1>3
    <2>2. m * q \in Int /\ m * u \in Int /\ m * w \in Int
      BY <1>1, <1>2, <1>3
    <2>3. m * q + (m * u + v) = m * w + z
      BY <1>2, <1>3, <1>4
    <2> QED
      BY <1>2, <1>3, <2>1, <2>2, <2>3
  <1>6. PICK d \in Int : d = q + u - w
    BY <1>1, <1>2, <1>3
  <1>7. m * d < m /\ -m < m * d
    BY <1>2, <1>3, <1>5, <1>6
  <1>8. ~(d >= 1)
    <2> SUFFICES ASSUME d >= 1 PROVE FALSE
      OBVIOUS
    <2>1. m * d >= m
      OBVIOUS
    <2>2. m * d \in Int
      OBVIOUS
    <2> QED
      BY <1>7, <2>1, <2>2
  <1>9. ~(d <= -1)
    <2> SUFFICES ASSUME d <= -1 PROVE FALSE
      OBVIOUS
    <2>1. m * d <= -m
      OBVIOUS
    <2>2. m * d \in Int
      OBVIOUS
    <2> QED
      BY <1>7, <2>1, <2>2
  <1>10. d = 0
    BY <1>8, <1>9
  <1>11. z = v
    BY <1>2, <1>3, <1>5, <1>6, <1>10
  <1> QED
    BY <1>11 DEF r, s, v, z

\* The stores of a block, and the width of the counter.
LEMMA Numbers ==
  /\ \A b \in Blocks : numStores[b] \in Nat
  /\ Modulus \in Int /\ Modulus > 0
  /\ SumFunctionOnSet([b \in Blocks |-> MaxVisits * numStores[b]], Blocks) < Modulus
  <1>1. ASSUME NEW b \in Blocks
        PROVE  numStores[b] \in Nat /\ numStores[b] = SumFunctionOnSet(StoresOf[b], Ports)
    <2>1. DOMAIN StoresOf[b] = Ports /\ \A p \in Ports : StoresOf[b][p] \in Nat
      BY MemControllerAssumption
    <2>2. IsFiniteSet(Ports)
      BY MemControllerAssumption
    <2>3. SumFunctionOnSet(StoresOf[b], Ports) \in Nat
      BY <2>1, <2>2, SumOfNaturals
    <2> QED
      BY <2>1, <2>3 DEF numStores, SumFunction
  <1> DEFINE f == [b \in Blocks |-> MaxVisits * numStores[b]]
  <1>2. DOMAIN f = Blocks /\ \A b \in Blocks : f[b] \in Nat
    BY <1>1, MemControllerAssumption
  <1>3. SumFunction(f) < Modulus
    BY MemControllerAssumption DEF Modulus
  <1> HIDE DEF f
  <1>4. SumFunctionOnSet(f, Blocks) < Modulus
    BY <1>2, <1>3 DEF SumFunction
  <1>5. IsFiniteSet(Blocks)
    BY MemControllerAssumption
  <1>6. SumFunctionOnSet(f, Blocks) \in Nat
    BY <1>2, <1>5, SumOfNaturals
  <1>7. Modulus \in Int
    BY MemControllerAssumption DEF Modulus
  <1> QED
    BY <1>1, <1>4, <1>6, <1>7 DEF f

\* The announcements of this cycle and the visits still to announce.
Announced(c) == [b \in Blocks |-> numStores[b] * c[b]]

LEMMA UnannouncedLemma ==
  ASSUME TypeOK
  PROVE  /\ unannounced = SumFunctionOnSet(Announced(toCtrl), Blocks)
                            + SumFunctionOnSet(numStores, ctrl)
         /\ SumFunctionOnSet(Announced(toCtrl), Blocks) \in Nat
         /\ SumFunctionOnSet(numStores, ctrl) \in Nat
  <1> DEFINE f == Announced(toCtrl)
             g == [b \in Blocks |-> IF b \in ctrl THEN numStores[b] ELSE 0]
             h == [b \in Blocks |-> numStores[b] * (toCtrl[b] + (IF b \in ctrl THEN 1 ELSE 0))]
  <1>1. IsFiniteSet(Blocks) /\ ctrl \subseteq Blocks
    BY MemControllerAssumption DEF TypeOK
  <1>2. ASSUME NEW b \in Blocks
        PROVE  f[b] \in Nat /\ g[b] \in Nat /\ h[b] = f[b] + g[b]
    <2>1. numStores[b] \in Nat /\ toCtrl[b] \in Nat
      BY Numbers, MemControllerAssumption DEF TypeOK
    <2>2. \A m, n \in Nat : m * n \in Nat /\ m * (n + 1) = m * n + m /\ m * (n + 0) = m * n + 0
      OBVIOUS
    <2> QED
      BY <2>1, <2>2 DEF Announced
  <1>3. DOMAIN h = Blocks
    OBVIOUS
  <1>4. unannounced = SumFunctionOnSet(h, Blocks)
    BY <1>3 DEF unannounced, SumFunction
  <1>5. \A b \in Blocks : g[b] = IF b \in ctrl THEN numStores[b] ELSE 0
    OBVIOUS
  <1> HIDE DEF f, g, h
  <1>6. SumFunctionOnSet(h, Blocks) = SumFunctionOnSet(f, Blocks) + SumFunctionOnSet(g, Blocks)
    BY <1>1, <1>2, SumAdd
  <1>7. SumFunctionOnSet(g, Blocks) = SumFunctionOnSet(numStores, ctrl)
    BY <1>1, <1>5, Numbers, SumOfPart
  <1>8. SumFunctionOnSet(f, Blocks) \in Nat /\ SumFunctionOnSet(g, Blocks) \in Nat
    BY <1>1, <1>2, SumOfNaturals
  <1> QED
    BY <1>4, <1>6, <1>7, <1>8 DEF f

\* The stores still to be performed.
LEMMA OutstandingLemma ==
  ASSUME TypeOK
  PROVE  /\ IsFiniteSet(st) /\ Cardinality(st) \in Nat
         /\ SumFunctionOnSet(toStore, Ports) \in Nat
         /\ outstanding = Cardinality(st) + SumFunctionOnSet(toStore, Ports)
         /\ outstanding \in Nat
         /\ \A p \in Ports : toStore[p] <= SumFunctionOnSet(toStore, Ports)
  <1>1. IsFiniteSet(Ports) /\ st \subseteq Ports
    BY MemControllerAssumption DEF TypeOK
  <1>2. IsFiniteSet(st)
    BY <1>1, FS_Subset
  <1>3. Cardinality(st) \in Nat
    BY <1>2, FS_CardinalityType
  <1>4. DOMAIN toStore = Ports /\ \A p \in Ports : toStore[p] \in Nat
    BY DEF TypeOK
  <1>5. /\ SumFunctionOnSet(toStore, Ports) \in Nat
        /\ \A p \in Ports : toStore[p] <= SumFunctionOnSet(toStore, Ports)
    BY <1>1, <1>4, SumOfNaturals
  <1> QED
    BY <1>2, <1>3, <1>4, <1>5 DEF outstanding, SumFunction

\* One store is performed in every cycle in which a port has one.
LEMMA SelectedLemma ==
  ASSUME TypeOK
  PROVE  /\ Cardinality(st \ store_access_port_selected) = Cardinality(st) - Bit(storeEn)
         /\ IsFiniteSet(st \ store_access_port_selected)
         /\ Bit(storeEn) \in 0 .. 1 /\ (st = {} => Bit(storeEn) = 0)
  <1>1. IsFiniteSet(st) /\ Cardinality(st) \in Nat /\ st \subseteq Nat
    BY OutstandingLemma, MemControllerAssumption DEF TypeOK
  <1>2. CASE st = {}
    <2>1. store_access_port_selected = {} /\ st \ store_access_port_selected = st
      BY <1>2 DEF store_access_port_selected
    <2> QED
      BY <1>1, <1>2, <2>1 DEF storeEn, Bit
  <1>3. CASE st # {}
    <2>1. PICK p \in st : \A o \in st : p <= o
      BY <1>1, <1>3, LeastNatural
    <2>2. store_access_port_selected = {p}
      <3>1. ASSUME NEW q \in st, \A o \in st : q <= o PROVE q = p
        <4>1. q \in Nat /\ p \in Nat /\ q <= p /\ p <= q
          BY <1>1, <2>1, <3>1
        <4> QED
          BY <4>1
      <3> QED
        BY <2>1, <3>1 DEF store_access_port_selected
    <2>3. IsFiniteSet(st \ {p}) /\ Cardinality(st \ {p}) = Cardinality(st) - 1
      BY <1>1, <2>1, FS_RemoveElement
    <2> QED
      BY <1>3, <2>2, <2>3 DEF storeEn, Bit
  <1> QED
    BY <1>2, <1>3

\* What the circuit drives next moves tokens, and loses and adds none.
LEMMA DriveLemma ==
  ASSUME TypeOK, NEW c \in [Blocks -> 0 .. MaxVisits], NEW s \in [Ports -> Nat], Drive(c, s)
  PROVE  /\ ctrl' \subseteq Blocks /\ st' \subseteq Ports
         /\ toCtrl' \in [Blocks -> 0 .. MaxVisits] /\ toStore' \in [Ports -> Nat]
         /\ unannounced' = SumFunctionOnSet(Announced(c), Blocks)
         /\ outstanding' = Cardinality(st) - Bit(storeEn) + SumFunctionOnSet(s, Ports)
  <1> DEFINE waiting == st \ store_access_port_selected
  <1>1. PICK new \in SUBSET {p \in Ports \ waiting : s[p] > 0} :
          /\ st' = waiting \cup new
          /\ toStore' = [p \in Ports |-> s[p] - (IF p \in new THEN 1 ELSE 0)]
    BY DEF Drive
  <1>2. /\ ctrl' \in SUBSET {b \in Blocks : c[b] > 0}
        /\ toCtrl' = [b \in Blocks |-> c[b] - (IF b \in ctrl' THEN 1 ELSE 0)]
    BY DEF Drive
  <1>3. ctrl' \subseteq Blocks /\ toCtrl' \in [Blocks -> 0 .. MaxVisits]
    <2>1. \A b \in Blocks : c[b] - (IF b \in ctrl' THEN 1 ELSE 0) \in 0 .. MaxVisits
      BY <1>2, MemControllerAssumption
    <2> QED
      BY <1>2, <2>1
  <1>4. st' \subseteq Ports /\ new \subseteq Ports /\ new \cap waiting = {}
    BY <1>1 DEF TypeOK
  <1>5. toStore' \in [Ports -> Nat]
    <2>1. \A p \in Ports : s[p] - (IF p \in new THEN 1 ELSE 0) \in Nat
      BY <1>1
    <2> QED
      BY <1>1, <2>1
  <1>6. unannounced' = SumFunctionOnSet(Announced(c), Blocks)
    <2>1. \A b \in Blocks : toCtrl'[b] + (IF b \in ctrl' THEN 1 ELSE 0) = c[b]
      BY <1>2, MemControllerAssumption
    <2>2. [b \in Blocks |-> numStores[b] * (toCtrl'[b] + (IF b \in ctrl' THEN 1 ELSE 0))]
            = Announced(c)
      BY <2>1 DEF Announced
    <2>3. DOMAIN Announced(c) = Blocks
      BY DEF Announced
    <2> QED
      BY <2>2, <2>3 DEF unannounced, SumFunction, numStores
  <1>7. outstanding' = Cardinality(st) - Bit(storeEn) + SumFunctionOnSet(s, Ports)
    <2>1. IsFiniteSet(Ports)
      BY MemControllerAssumption
    <2>2. IsFiniteSet(new)
      BY <1>4, <2>1, FS_Subset
    <2>3. Cardinality(new) \in Nat
      BY <2>2, FS_CardinalityType
    <2>4. IsFiniteSet(waiting) /\ Cardinality(waiting) = Cardinality(st) - Bit(storeEn)
      BY SelectedLemma
    <2>5. Cardinality(waiting) \in Nat
      BY <2>4, FS_CardinalityType
    <2>6. Cardinality(waiting \cup new)
            = Cardinality(waiting) + Cardinality(new) - Cardinality(waiting \cap new)
      BY <2>2, <2>4, FS_Union
    <2>7. waiting \cap new = {} /\ Cardinality({}) = 0
      BY <1>4, FS_EmptySet
    <2>8. Cardinality(st') = Cardinality(st) - Bit(storeEn) + Cardinality(new)
      <3>1. Cardinality(st') = Cardinality(waiting) + Cardinality(new) - 0
        BY <1>1, <2>6, <2>7
      <3> HIDE DEF waiting
      <3> QED
        BY <2>3, <2>4, <2>5, <3>1
    <2> DEFINE t == [p \in Ports |-> s[p] - (IF p \in new THEN 1 ELSE 0)]
               one == [p \in Ports |-> 1]
               ind == [p \in Ports |-> IF p \in new THEN 1 ELSE 0]
    <2>9. \A p \in Ports : /\ t[p] \in Int /\ ind[p] \in Int /\ s[p] = t[p] + ind[p]
                           /\ one[p] \in Int /\ ind[p] = IF p \in new THEN one[p] ELSE 0
      OBVIOUS
    <2>10. \A p \in new : one[p] = 1
      BY <1>4
    <2>11. DOMAIN t = Ports
      OBVIOUS
    <2> HIDE DEF t, one, ind
    <2>12. SumFunctionOnSet(s, Ports) = SumFunctionOnSet(t, Ports) + SumFunctionOnSet(ind, Ports)
      BY <2>1, <2>9, SumAdd
    <2>13. SumFunctionOnSet(ind, Ports) = SumFunctionOnSet(one, new)
      BY <1>4, <2>1, <2>9, SumOfPart
    <2>14. SumFunctionOnSet(one, new) = Cardinality(new)
      BY <2>2, <2>10, SumOfOnes
    <2>15. SumFunctionOnSet(t, Ports) \in Int
      BY <2>1, <2>9, SumProperties
    <2>16. toStore' = t
      BY <1>1 DEF t
    <2>17. outstanding' = Cardinality(st') + SumFunctionOnSet(t, Ports)
      BY <2>11, <2>16 DEF outstanding, SumFunction
    <2>18. Cardinality(st) - Bit(storeEn) \in Nat
      BY <2>4, <2>5
    <2>19. SumFunctionOnSet(s, Ports) = SumFunctionOnSet(t, Ports) + Cardinality(new)
      BY <2>12, <2>13, <2>14
    <2>20. outstanding' = (Cardinality(st) - Bit(storeEn) + Cardinality(new))
                            + SumFunctionOnSet(t, Ports)
      BY <2>8, <2>17
    <2> QED
      BY <2>3, <2>15, <2>18, <2>19, <2>20
  <1> QED
    BY <1>3, <1>4, <1>5, <1>6, <1>7
-----------------------------------------------------------------------------
(* The invariant.                                                          *)

\* With nothing left, the counter is zero.
LEMMA FinishedLemma ==
  ASSUME TypeOK, RemainingExact, Finished
  PROVE  /\ remainingStores = 0 /\ Cardinality(st) = 0 /\ Bit(storeEn) = 0
         /\ SumFunctionOnSet(numStores, ctrl) = 0
         /\ SumFunctionOnSet(toStore, Ports) = 0
         /\ SumFunctionOnSet(Announced(toCtrl), Blocks) = 0
  <1>1. IsFiniteSet(Ports) /\ IsFiniteSet(Blocks)
    BY MemControllerAssumption
  <1>2. SumFunctionOnSet(toStore, Ports) = 0
    BY <1>1, SumZero DEF Finished
  <1>3. SumFunctionOnSet(Announced(toCtrl), Blocks) = 0
    <2>1. \A b \in Blocks : Announced(toCtrl)[b] = 0
      BY Numbers DEF Finished, Announced
    <2> QED
      BY <1>1, <2>1, SumZero
  <1>4. SumFunctionOnSet(numStores, ctrl) = 0
    <2>1. \A b \in Blocks : numStores[b] \in Int
      BY Numbers
    <2>2. ctrl = {}
      BY DEF Finished
    <2> QED
      BY <1>1, <2>1, <2>2, SumProperties
  <1>5. Cardinality(st) = 0 /\ Bit(storeEn) = 0
    BY SelectedLemma, FS_EmptySet DEF Finished
  <1>6. outstanding = 0 /\ unannounced = 0
    BY <1>2, <1>3, <1>4, <1>5, OutstandingLemma, UnannouncedLemma
  <1>7. remainingStores = 0 % Modulus
    BY <1>6 DEF RemainingExact, Modulus
  <1>8. 0 % Modulus = 0
    BY Numbers
  <1> QED
    BY <1>2, <1>3, <1>4, <1>5, <1>7, <1>8

\* The end is offered only when nothing is left.
LEMMA EndLemma ==
  ASSUME LagCovered, IInv, memEnd_valid
  PROVE  Finished /\ running
  <1>1. TypeOK /\ RemainingExact /\ outstanding < Modulus /\ PhaseInv
    BY DEF IInv
  <1>2. no_more_requests_q /\ remainingStores = 0 /\ ctrl = {} /\ fsm_q = "RUNNING"
    BY DEF memEnd_valid, allRequestsDone
  <1>3. running
    BY <1>1, <1>2 DEF PhaseInv
  <1>4. \A b \in Blocks : toCtrl[b] = 0
    <2>1. ended = "taken" /\ age = MaxLag
      BY <1>1, <1>2 DEF PhaseInv
    <2>2. \A b \in Blocks : toCtrl[b] <= MaxLag - MaxLag
      BY <1>1, <2>1 DEF PhaseInv
    <2>3. \A b \in Blocks : toCtrl[b] \in Nat
      BY <1>1, MemControllerAssumption DEF TypeOK
    <2> QED
      BY <2>2, <2>3, MemControllerAssumption
  <1>5. unannounced = 0
    <2>1. IsFiniteSet(Blocks) /\ \A b \in Blocks : numStores[b] \in Int
      BY Numbers, MemControllerAssumption
    <2>2. SumFunctionOnSet(numStores, ctrl) = 0
      BY <1>2, <2>1, SumProperties
    <2>3. \A b \in Blocks : Announced(toCtrl)[b] = 0
      BY <1>4, <2>1 DEF Announced
    <2>4. SumFunctionOnSet(Announced(toCtrl), Blocks) = 0
      BY <2>1, <2>3, SumZero
    <2> QED
      BY <1>1, <2>2, <2>4, UnannouncedLemma
  <1>6. outstanding = 0
    <2>1. outstanding \in Nat /\ outstanding < Modulus /\ Modulus \in Int
      BY <1>1, Numbers, OutstandingLemma
    <2>2. 0 = (outstanding - 0) % Modulus
      BY <1>1, <1>2, <1>5 DEF RemainingExact, Modulus
    <2>3. \A n \in Nat : n < Modulus => (n - 0) % Modulus = n
      BY Numbers
    <2> QED
      BY <2>1, <2>2, <2>3
  <1>7. Cardinality(st) = 0 /\ SumFunctionOnSet(toStore, Ports) = 0 /\ IsFiniteSet(st)
    BY <1>1, <1>6, OutstandingLemma
  <1>8. st = {}
    BY <1>7, FS_EmptySet
  <1>9. \A p \in Ports : toStore[p] = 0
    <2>1. \A p \in Ports : toStore[p] \in Nat /\ toStore[p] <= 0
      BY <1>1, <1>7, OutstandingLemma DEF TypeOK
    <2> QED
      BY <2>1
  <1> QED
    BY <1>2, <1>3, <1>4, <1>8, <1>9 DEF Finished

\* Between two calls nothing is left.
LEMMA BetweenCalls ==
  ASSUME LagCovered, IInv, ~running \/ function_return
  PROVE  Finished
  BY EndLemma DEF function_return, IInv, PhaseInv

\* The counter after a clock edge.
LEMMA CounterStep ==
  ASSUME TypeOK, RemainingExact, count_stores
  PROVE  /\ remainingStores' \in 0 .. Modulus - 1
         /\ remainingStores' = (outstanding - unannounced
                                  + SumFunctionOnSet(numStores, ctrl) - Bit(storeEn)) % Modulus
  <1> DEFINE a == outstanding - unannounced
             k == SumFunctionOnSet(numStores, ctrl)
             e == Bit(storeEn)
             m == Modulus
  <1>1. a \in Int /\ k \in Int /\ e \in Int /\ m \in Int /\ m > 0
    BY OutstandingLemma, UnannouncedLemma, SelectedLemma, Numbers
  <1>2. remainingStores' = (remainingStores + k - e) % m
    BY DEF count_stores, Bit, Modulus
  <1>3. remainingStores = a % m
    BY DEF RemainingExact, Modulus
  <1> HIDE DEF a, k, e, m
  <1>4. a % m \in Int /\ (a % m) + k - e = (a % m) + (k - e) /\ k - e \in Int
    BY <1>1
  <1>5. ((a % m) + (k - e)) % m = (a + (k - e)) % m
    BY <1>1, <1>4, ModularStep
  <1>6. a + (k - e) = a + k - e /\ a + k - e \in Int
    BY <1>1
  <1>7. remainingStores' = (a + k - e) % m
    BY <1>2, <1>3, <1>4, <1>5, <1>6
  <1>8. (a + k - e) % m \in 0 .. m - 1
    BY <1>1, <1>6
  <1> QED
    BY <1>7, <1>8 DEF a, k, e, m

\* The stores of a call, by the ports they use.
StoresBy(visits) ==
  [p \in Ports |-> SumFunction([b \in Blocks |-> visits[b] * StoresOf[b][p]])]

\* A call's stores by ports are its stores by visits, and fit the counter.
LEMMA CallSums ==
  ASSUME NEW visits \in [Blocks -> 0 .. MaxVisits]
  PROVE  /\ StoresBy(visits) \in [Ports -> Nat]
         /\ SumFunctionOnSet(StoresBy(visits), Ports) = SumFunctionOnSet(Announced(visits), Blocks)
         /\ SumFunctionOnSet(Announced(visits), Blocks) \in Nat
         /\ SumFunctionOnSet(Announced(visits), Blocks) < Modulus
  <1> DEFINE a == [b \in Blocks |-> [p \in Ports |-> visits[b] * StoresOf[b][p]]]
             f == Announced(visits)
             g == StoresBy(visits)
             col(p) == [b \in Blocks |-> a[b][p]]
             most == [b \in Blocks |-> MaxVisits * numStores[b]]
  <1>1. IsFiniteSet(Blocks) /\ IsFiniteSet(Ports) /\ MaxVisits \in Nat
    BY MemControllerAssumption
  <1>2. \A b \in Blocks : /\ visits[b] \in Nat /\ visits[b] <= MaxVisits
                          /\ numStores[b] \in Nat
                          /\ \A p \in Ports : StoresOf[b][p] \in Nat
    BY <1>1, Numbers, MemControllerAssumption
  <1>3. \A m, n \in Nat : m * n \in Nat /\ m * n = n * m
    OBVIOUS
  <1>4. \A b \in Blocks : \A p \in Ports : /\ a[b][p] = visits[b] * StoresOf[b][p]
                                           /\ a[b][p] \in Nat
    BY <1>2, <1>3
  <1>5. ASSUME NEW b \in Blocks PROVE f[b] = SumFunctionOnSet(a[b], Ports)
    <2> DEFINE r == StoresOf[b]  h == a[b]  c == visits[b]
    <2>1. c \in Int /\ \A p \in Ports : r[p] \in Int /\ h[p] = c * r[p]
      BY <1>2
    <2>2. DOMAIN r = Ports
      BY MemControllerAssumption
    <2>3. numStores[b] = SumFunctionOnSet(r, Ports)
      BY <2>2 DEF numStores, SumFunction
    <2> HIDE DEF r, h, c
    <2>4. SumFunctionOnSet(h, Ports) = c * SumFunctionOnSet(r, Ports)
      BY <1>1, <2>1, SumScale
    <2>5. f[b] = numStores[b] * c
      BY DEF Announced, c
    <2>6. numStores[b] * c = c * numStores[b]
      BY <1>2, <1>3 DEF c
    <2> QED
      BY <2>3, <2>4, <2>5, <2>6 DEF h
  <1>6. ASSUME NEW p \in Ports
        PROVE  g[p] = SumFunctionOnSet(col(p), Blocks) /\ g[p] \in Nat
    <2>1. col(p) = [b \in Blocks |-> visits[b] * StoresOf[b][p]]
      OBVIOUS
    <2>2. DOMAIN col(p) = Blocks /\ \A b \in Blocks : col(p)[b] \in Nat
      BY <1>4
    <2>3. g[p] = SumFunction(col(p))
      BY <2>1 DEF StoresBy
    <2> HIDE DEF col, g
    <2>4. SumFunctionOnSet(col(p), Blocks) \in Nat
      BY <1>1, <2>2, SumOfNaturals
    <2> QED
      BY <2>2, <2>3, <2>4 DEF SumFunction
  <1>7. g \in [Ports -> Nat]
    <2>1. g = [p \in Ports |-> g[p]]
      BY DEF StoresBy
    <2> HIDE DEF g
    <2> QED
      BY <1>6, <2>1
  <1>8. \A b \in Blocks : f[b] \in Nat /\ most[b] \in Nat /\ f[b] <= most[b]
    <2> TAKE b \in Blocks
    <2>1. \A k, m, n \in Nat : m <= n => k * m <= n * k
      OBVIOUS
    <2> QED
      BY <1>1, <1>2, <1>3, <2>1 DEF Announced
  <1>9. SumFunctionOnSet(most, Blocks) < Modulus
    BY Numbers
  <1> DEFINE c == [p \in Ports |-> col(p)]
  <1>10. \A p \in Ports : /\ g[p] = SumFunctionOnSet(c[p], Blocks)
                          /\ \A b \in Blocks : c[p][b] = a[b][p]
    BY <1>6
  <1>11. \A b \in Blocks, p \in Ports : a[b][p] \in Int
    BY <1>4
  <1> HIDE DEF a, c, f, g, most
  <1>12. SumFunctionOnSet(f, Blocks) = SumFunctionOnSet(g, Ports)
    <2>1. \A b \in Blocks : f[b] = SumFunctionOnSet(a[b], Ports)
      BY <1>5
    <2>2. Table(Blocks, Ports, a, c, f, g)
      BY <1>1, <1>10, <1>11, <2>1 DEF Table
    <2> QED
      BY <2>2, SumSwap
  <1>13. SumFunctionOnSet(f, Blocks) \in Nat /\ SumFunctionOnSet(most, Blocks) \in Nat
    BY <1>1, <1>8, SumOfNaturals
  <1>14. SumFunctionOnSet(f, Blocks) <= SumFunctionOnSet(most, Blocks)
    BY <1>1, <1>8, SumMonotone
  <1>15. SumFunctionOnSet(f, Blocks) < Modulus
    BY <1>9, <1>13, <1>14, Numbers
  <1> QED
    BY <1>7, <1>12, <1>13, <1>15 DEF f, g

\* What is outstanding and unannounced after a step.
LEMMA RunExact ==
  ASSUME IInv, Clock, Run
  PROVE  RemainingExact' /\ outstanding' < Modulus
  <1> DEFINE A == SumFunctionOnSet(Announced(toCtrl), Blocks)
             K == SumFunctionOnSet(numStores, ctrl)
             C == Cardinality(st)  S == SumFunctionOnSet(toStore, Ports)  e == Bit(storeEn)
  <1>1. TypeOK /\ RemainingExact /\ outstanding < Modulus /\ Modulus \in Int
    BY Numbers DEF IInv
  <1>2. unannounced' = A /\ outstanding' = C - e + S
    BY <1>1, DriveLemma DEF Run, TypeOK
  <1>3. /\ unannounced = A + K /\ outstanding = C + S /\ e \in 0 .. 1
        /\ A \in Nat /\ K \in Nat /\ C \in Nat /\ S \in Nat
    BY <1>1, UnannouncedLemma, OutstandingLemma, SelectedLemma
  <1>4. remainingStores' = (outstanding - unannounced + K - e) % Modulus
    BY <1>1, CounterStep DEF Clock
  <1> HIDE DEF A, K, C, S, e
  <1>5. outstanding - unannounced + K - e = (C - e + S) - A
    BY <1>3
  <1>6. C - e + S < Modulus
    BY <1>1, <1>3
  <1> QED
    BY <1>2, <1>4, <1>5, <1>6 DEF RemainingExact, Modulus

LEMMA CallExact ==
  ASSUME LagCovered, IInv, Clock, Call
  PROVE  RemainingExact' /\ outstanding' < Modulus
  <1>1. TypeOK /\ RemainingExact /\ Finished /\ Modulus \in Int /\ Modulus > 0
    BY Numbers, BetweenCalls DEF IInv, Call
  <1>2. PICK visits \in [Blocks -> 0 .. MaxVisits] : Drive(visits, StoresBy(visits))
    BY DEF Call, StoresBy
  <1> DEFINE V == SumFunctionOnSet(Announced(visits), Blocks)
  <1>3. V \in Nat /\ V < Modulus /\ V = SumFunctionOnSet(StoresBy(visits), Ports)
    BY CallSums
  <1>4. StoresBy(visits) \in [Ports -> Nat]
    BY CallSums
  <1>5. Cardinality(st) = 0 /\ Bit(storeEn) = 0
    BY <1>1, FinishedLemma
  <1>6. unannounced' = V /\ outstanding' = 0 - 0 + V
    BY <1>1, <1>2, <1>3, <1>4, <1>5, DriveLemma
  <1>7. remainingStores' = 0
    <2>1. remainingStores' = (outstanding - unannounced + 0 - 0) % Modulus
      BY <1>1, FinishedLemma, CounterStep DEF Clock
    <2>2. remainingStores = 0 /\ remainingStores = (outstanding - unannounced) % Modulus
      BY <1>1, FinishedLemma DEF RemainingExact, Modulus
    <2>3. outstanding - unannounced + 0 - 0 = outstanding - unannounced
      BY <1>1, OutstandingLemma, UnannouncedLemma
    <2> QED
      BY <2>1, <2>2, <2>3
  <1> HIDE DEF V
  <1>8. 0 - 0 + V = V /\ (V - V) % Modulus = 0
    BY <1>1, <1>3
  <1> QED
    BY <1>3, <1>6, <1>7, <1>8 DEF RemainingExact, Modulus

LEMMA RestExact ==
  ASSUME LagCovered, IInv, Clock, Rest
  PROVE  RemainingExact' /\ outstanding' < Modulus
  <1>1. TypeOK /\ RemainingExact /\ Finished /\ outstanding < Modulus
    BY BetweenCalls DEF IInv, Rest
  <1>2. UNCHANGED <<st, ctrl, toStore, toCtrl>>
    BY <1>1 DEF Finished, Rest
  <1>3. outstanding' = outstanding /\ unannounced' = unannounced
    BY <1>2 DEF outstanding, unannounced, numStores
  <1>4. remainingStores' = (outstanding - unannounced + 0 - 0) % Modulus
    BY <1>1, FinishedLemma, CounterStep DEF Clock
  <1>5. outstanding - unannounced + 0 - 0 = outstanding - unannounced
    BY <1>1, OutstandingLemma, UnannouncedLemma
  <1> QED
    BY <1>1, <1>3, <1>4, <1>5 DEF RemainingExact, Modulus
\* The registers of the two machines after a clock edge.
LEMMA MachineStep ==
  ASSUME TypeOK, Clock
  PROVE  /\ fsm_q' \in {"IDLE", "RUNNING"} /\ no_more_requests_q' \in BOOLEAN
         /\ function_return => fsm_q' = "IDLE" /\ ~no_more_requests_q'
         /\ fsm_q = "IDLE" /\ start = "later" => fsm_q' = "IDLE"
         /\ ~no_more_requests_q /\ ended = "later" => ~no_more_requests_q'
         /\ no_more_requests_q' => no_more_requests_q \/ ended = "offered"
         /\ fsm_q = "RUNNING" /\ ~function_return => fsm_q' = "RUNNING"
         /\ no_more_requests_q /\ ~function_return => no_more_requests_q'
  BY DEF TypeOK, Clock, fsm, no_more_requests, function_return, memEnd_valid

LEMMA RunStep ==
  ASSUME LagCovered, IInv, Clock, Run, memEnd_ready' \in BOOLEAN
  PROVE  TypeOK' /\ PhaseInv'
  <1>1. TypeOK /\ RemainingExact /\ PhaseInv
    BY DEF IInv
  <1>2. /\ ctrl' \subseteq Blocks /\ st' \subseteq Ports
        /\ toCtrl' \in [Blocks -> 0 .. MaxVisits] /\ toStore' \in [Ports -> Nat]
    BY <1>1, DriveLemma DEF Run, TypeOK
  <1>3. remainingStores' \in 0 .. 2^CounterBits - 1
    BY <1>1, CounterStep DEF Clock, Modulus
  <1>4. start' \in Once /\ ended' \in Once
    BY <1>1 DEF Run, Comes, TypeOK, Once
  <1>5. age' \in 0 .. MaxLag
    <2>1. \A a \in 0 .. MaxLag : (IF ended # "later" /\ a < MaxLag THEN a + 1 ELSE a) \in 0 .. MaxLag
      BY MemControllerAssumption
    <2> QED
      BY <1>1, <2>1 DEF Run, TypeOK
  <1>6. TypeOK'
    BY <1>1, <1>2, <1>3, <1>4, <1>5, MachineStep DEF TypeOK, Run
  <1>7. no_more_requests_q' => ended' = "taken"
    <2>1. ended = "taken" => ended' = "taken"
      BY DEF Run, Comes
    <2>2. ended = "offered" /\ ~no_more_requests_q => ended' = "taken"
      BY DEF Run, Comes, ctrlEnd_ready
    <2> QED
      BY <1>1, <2>1, <2>2, MachineStep DEF PhaseInv
  <1>8. ended' = "taken" => age' = MaxLag
    <2> SUFFICES ASSUME ended' = "taken" PROVE age' = MaxLag
      OBVIOUS
    <2>1. ended = "taken" \/ ended = "offered"
      BY DEF Run, Comes
    <2>2. age' = IF age < MaxLag THEN age + 1 ELSE age
      BY <2>1 DEF Run
    <2>3. ended = "taken" => age = MaxLag
      BY <1>1 DEF PhaseInv
    <2>4. age \in 0 .. MaxLag /\ MaxLag \in 0 .. 1
      BY <1>1, MemControllerAssumption DEF TypeOK, LagCovered
    <2> QED
      BY <2>1, <2>2, <2>3, <2>4
  <1>9. ended' # "later" => \A b \in Blocks : toCtrl'[b] <= MaxLag - age'
    BY DEF Run, Drive
  <1>10. running'
    BY DEF Run
  <1> QED
    BY <1>6, <1>7, <1>8, <1>9, <1>10 DEF PhaseInv

LEMMA CallStep ==
  ASSUME LagCovered, IInv, Clock, Call, memEnd_ready' \in BOOLEAN
  PROVE  TypeOK' /\ PhaseInv'
  <1>1. TypeOK /\ RemainingExact /\ PhaseInv
    BY DEF IInv
  <1>2. PICK visits \in [Blocks -> 0 .. MaxVisits] : Drive(visits, StoresBy(visits))
    BY DEF Call, StoresBy
  <1>3. StoresBy(visits) \in [Ports -> Nat]
    BY CallSums
  <1>4. /\ ctrl' \subseteq Blocks /\ st' \subseteq Ports
        /\ toCtrl' \in [Blocks -> 0 .. MaxVisits] /\ toStore' \in [Ports -> Nat]
    BY <1>1, <1>2, <1>3, DriveLemma
  <1>5. remainingStores' \in 0 .. 2^CounterBits - 1
    BY <1>1, CounterStep DEF Clock, Modulus
  <1>6. /\ running' /\ start' \in Once /\ ended' \in Once /\ ended' # "taken"
        /\ age' \in 0 .. MaxLag
    BY MemControllerAssumption DEF Call, Once
  <1>7. TypeOK'
    BY <1>4, <1>5, <1>6, <1>1, MachineStep DEF TypeOK, Call
  <1>8. ~no_more_requests_q'
    BY <1>1, MachineStep DEF Call, PhaseInv
  <1>9. ended' # "later" => \A b \in Blocks : toCtrl'[b] <= MaxLag - age'
    BY <1>2 DEF Drive
  <1> QED
    BY <1>6, <1>7, <1>8, <1>9 DEF PhaseInv

LEMMA RestStep ==
  ASSUME LagCovered, IInv, Clock, Rest, memEnd_ready' \in BOOLEAN
  PROVE  TypeOK' /\ PhaseInv'
  <1>1. TypeOK /\ RemainingExact /\ PhaseInv /\ Finished
    BY BetweenCalls DEF IInv, Rest
  <1>2. remainingStores' \in 0 .. 2^CounterBits - 1
    BY <1>1, CounterStep DEF Clock, Modulus
  <1>3. /\ running' = FALSE /\ start' = "later" /\ ended' = "later" /\ age' \in 0 .. MaxLag
        /\ ctrl' = {} /\ st' = {} /\ UNCHANGED <<toCtrl, toStore>>
    BY MemControllerAssumption DEF Rest
  <1>4. TypeOK'
    BY <1>1, <1>2, <1>3, MachineStep DEF TypeOK, Once
  <1>5. Finished'
    BY <1>1, <1>3 DEF Finished
  <1>6. fsm_q' = "IDLE" /\ ~no_more_requests_q'
    BY <1>1, MachineStep DEF Rest, PhaseInv
  <1> QED
    BY <1>3, <1>4, <1>5, <1>6 DEF PhaseInv

LEMMA IInvInit ==
  ASSUME Init
  PROVE  IInv
  <1>1. TypeOK
    <2>1. 0 \in 0 .. 2^CounterBits - 1 /\ 0 \in 0 .. MaxVisits /\ 0 \in 0 .. MaxLag
      BY Numbers, MemControllerAssumption DEF Modulus
    <2> QED
      BY <2>1 DEF Init, TypeOK, Once
  <1>2. Finished
    BY DEF Init, Finished
  <1>3. PhaseInv
    BY <1>2 DEF Init, PhaseInv
  <1>4. IsFiniteSet(Ports) /\ IsFiniteSet(Blocks)
    BY MemControllerAssumption
  <1>5. outstanding = 0
    <2>1. SumFunctionOnSet(toStore, Ports) = 0
      BY <1>2, <1>4, SumZero DEF Finished
    <2>2. Cardinality(st) = 0
      BY <1>2, FS_EmptySet DEF Finished
    <2> QED
      BY <1>1, <2>1, <2>2, OutstandingLemma
  <1>6. unannounced = 0
    <2>1. \A b \in Blocks : Announced(toCtrl)[b] = 0
      BY <1>2, Numbers DEF Finished, Announced
    <2>2. SumFunctionOnSet(Announced(toCtrl), Blocks) = 0
      BY <1>4, <2>1, SumZero
    <2>3. \A b \in Blocks : numStores[b] \in Int
      BY Numbers
    <2>4. SumFunctionOnSet(numStores, ctrl) = 0
      BY <1>2, <1>4, <2>3, SumProperties DEF Finished
    <2> QED
      BY <1>1, <2>2, <2>4, UnannouncedLemma
  <1>7. 0 = (0 - 0) % Modulus /\ 0 < Modulus
    BY Numbers
  <1>8. RemainingExact
    BY <1>5, <1>6, <1>7 DEF RemainingExact, Modulus, Init
  <1> QED
    BY <1>1, <1>3, <1>5, <1>7, <1>8 DEF IInv

\* A reset leads to an initial state.
LEMMA ResetStep == Reset => IInv'
  <1>1. Reset => Init'
    BY DEF Reset, Init
  <1>2. Init => IInv
    BY IInvInit
  <1> QED
    BY <1>1, <1>2, PTL

LEMMA IInvStep ==
  ASSUME LagCovered, IInv, [Next]_vars
  PROVE  IInv'
  <1>r. CASE Reset
    BY <1>r, ResetStep
  <1>1. CASE Clock /\ (Call \/ Run \/ Rest) /\ memEnd_ready' \in BOOLEAN
    <2>1. Clock /\ memEnd_ready' \in BOOLEAN
      BY <1>1
    <2>2. CASE Call
      BY <2>1, <2>2, CallStep, CallExact DEF IInv, Modulus
    <2>3. CASE Run
      BY <2>1, <2>3, RunStep, RunExact DEF IInv, Modulus
    <2>4. CASE Rest
      BY <2>1, <2>4, RestStep, RestExact DEF IInv, Modulus
    <2> QED
      BY <1>1, <2>2, <2>3, <2>4
  <1>2. CASE UNCHANGED vars
    <2>1. TypeOK' /\ PhaseInv'
      BY <1>2 DEF IInv, TypeOK, PhaseInv, Finished, vars, regs, circuit
    <2>2. outstanding' = outstanding /\ unannounced' = unannounced
      BY <1>2 DEF outstanding, unannounced, numStores, vars, regs, circuit
    <2> QED
      BY <1>2, <2>1, <2>2 DEF IInv, RemainingExact, Modulus, vars, regs, circuit
  <1> QED
    BY <1>r, <1>1, <1>2 DEF Next
-----------------------------------------------------------------------------
(* The results.  All need the circuit to announce in time.                 *)

\* The inductive invariant: besides the types, the counter's exactness and the
\* bound that keeps it from wrapping round, where a call stands in its protocol.
THEOREM MemInvariance ==
  ASSUME LagCovered
  PROVE  Spec => []IInv
  <1>1. Init => IInv
    BY IInvInit
  <1>2. IInv /\ [Next]_vars => IInv'
    BY IInvStep
  <1> QED
    BY <1>1, <1>2, PTL DEF Spec

\* count_stores keeps remainingStores equal to the stores announced and not
\* performed, modulo the counter's range, in whatever order they come.
THEOREM CounterIsExact ==
  ASSUME LagCovered
  PROVE  Spec => []RemainingExact
  <1>1. IInv => RemainingExact
    BY DEF IInv
  <1> QED
    BY <1>1, MemInvariance, PTL

\* memEnd is valid only when no store of the call is left anywhere.
THEOREM EndComesLast ==
  ASSUME LagCovered
  PROVE  Spec => []EndIsLast
  <1>1. IInv => EndIsLast
    BY EndLemma DEF EndIsLast, Finished
  <1> QED
    BY <1>1, MemInvariance, PTL

\* memEnd, once valid, stays valid until it is read or the circuit is reset, and
\* the machine and the counter are then as after a reset.
THEOREM EndIsHeld ==
  ASSUME LagCovered
  PROVE  Spec => EndStays
  <1> DEFINE A == /\ memEnd_valid /\ ~memEnd_ready => memEnd_valid' \/ Reset
                  /\ memEnd_valid /\ memEnd_ready =>
                       /\ fsm_q' = "IDLE" /\ ~no_more_requests_q' /\ remainingStores' = 0
  <1>r. Reset => A
    BY DEF Reset
  <1>1. IInv /\ Next => A
    <2> SUFFICES ASSUME IInv, Next, memEnd_valid, ~Reset PROVE A
      BY <1>r
    <2>1. Clock /\ TypeOK /\ RemainingExact /\ Finished /\ running
      BY EndLemma DEF Next, IInv
    <2>2. remainingStores' = 0
      <3>1. remainingStores' = (outstanding - unannounced + 0 - 0) % Modulus
        BY <2>1, FinishedLemma, CounterStep DEF Clock
      <3>2. outstanding - unannounced + 0 - 0 = outstanding - unannounced
        BY <2>1, OutstandingLemma, UnannouncedLemma
      <3>3. remainingStores = 0 /\ remainingStores = (outstanding - unannounced) % Modulus
        BY <2>1, FinishedLemma DEF RemainingExact, Modulus
      <3> QED
        BY <3>1, <3>2, <3>3
    <2>3. CASE memEnd_ready
      <3>1. function_return
        BY <2>3 DEF function_return
      <3> QED
        BY <2>1, <2>2, <2>3, <3>1, MachineStep
    <2>4. CASE ~memEnd_ready
      <3>1. ~function_return /\ fsm_q = "RUNNING" /\ no_more_requests_q
        BY <2>4 DEF function_return, memEnd_valid
      <3>2. Run
        BY <2>1, <3>1 DEF Next, Call, Rest
      <3>3. ctrl' = {}
        <4>1. ctrl' \in SUBSET {b \in Blocks : toCtrl[b] > 0}
          BY <3>2 DEF Run, Drive
        <4> QED
          BY <2>1, <4>1 DEF Finished
      <3> QED
        BY <2>1, <2>2, <2>4, <3>1, <3>3, MachineStep DEF memEnd_valid, allRequestsDone
    <2> QED
      BY <2>3, <2>4
  <1>2. IInv /\ [Next]_vars => [A]_vars
    BY <1>1
  <1> QED
    BY <1>2, MemInvariance, PTL DEF Spec, EndStays
=============================================================================
