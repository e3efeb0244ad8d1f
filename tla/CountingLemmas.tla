--------------------------- MODULE CountingLemmas ---------------------------
(***************************************************************************)
(* Facts about natural numbers, cardinalities, sums over finite sets and   *)
(* flattened sequences that the proofs of several components rest on.      *)
(***************************************************************************)
EXTENDS FiniteSetTheorems, SequenceTheorems, SequencesExt, TLAPS

Bit(b) == IF b THEN 1 ELSE 0

\* A set of natural numbers that is not empty has a least element.  This is
\* the form in which the proofs use induction.
THEOREM LeastNatural ==
  ASSUME NEW T, T \subseteq Nat, T # {}
  PROVE  \E n \in T : \A m \in T : n <= m
  <1>1. PICK n \in T : \A m \in T : ~(<<m, n>> \in OpToRel(<, Nat))
    BY NatLessThanWellFounded, WFMin
  <1>2. \A m \in T : ~(m < n)
    BY <1>1 DEF OpToRel
  <1> QED
    BY <1>2

\* The size of a set that differs from another one at most in x.
THEOREM OneDiffers ==
  ASSUME NEW S, IsFiniteSet(S), NEW x, NEW T, T \ {x} = S \ {x}
  PROVE  /\ Cardinality(S) \in Nat /\ Cardinality(T) \in Nat /\ IsFiniteSet(T)
         /\ Cardinality(T) = Cardinality(S) + Bit(x \in T) - Bit(x \in S)
  <1>1. /\ IsFiniteSet(S \ {x}) /\ Cardinality(S \ {x}) = Cardinality(S) - Bit(x \in S)
        /\ Cardinality(S) \in Nat
    BY FS_RemoveElement, FS_CardinalityType DEF Bit
  <1>2. Cardinality(S \ {x}) \in Nat
    BY <1>1, FS_CardinalityType
  <1>3. CASE x \in T
    <2>1. T = (S \ {x}) \cup {x} /\ x \notin S \ {x}
      BY <1>3
    <2>2. IsFiniteSet(T) /\ Cardinality(T) = Cardinality(S \ {x}) + 1
      BY <1>1, <2>1, FS_AddElement
    <2> QED
      BY <1>1, <1>2, <1>3, <2>2 DEF Bit
  <1>4. CASE x \notin T
    <2>1. T = S \ {x}
      BY <1>4
    <2> QED
      BY <1>1, <1>2, <1>4, <2>1 DEF Bit
  <1> QED
    BY <1>3, <1>4

\* The size of a set of numbers up to n, and that a gap shows.
THEOREM InIntervalFinite ==
  ASSUME NEW n \in Nat, NEW S, S \subseteq 0 .. n
  PROVE  /\ IsFiniteSet(S) /\ Cardinality(S) \in Nat /\ Cardinality(S) <= n + 1
         /\ S = 0 .. n <=> Cardinality(S) = n + 1
  <1> DEFINE I == 0 .. n
  <1>1. 0 \in Int /\ n \in Int /\ n >= 0
    OBVIOUS
  <1>2. IsFiniteSet(I) /\ Cardinality(I) = IF 0 > n THEN 0 ELSE n - 0 + 1
    BY <1>1, FS_Interval
  <1>3. IsFiniteSet(I) /\ Cardinality(I) = n + 1
    BY <1>1, <1>2
  <1> HIDE DEF I
  <1>4. /\ IsFiniteSet(S) /\ Cardinality(S) <= Cardinality(I)
        /\ Cardinality(I) = Cardinality(S) => I = S
    BY <1>3, FS_Subset DEF I
  <1>5. Cardinality(S) \in Nat
    BY <1>4, FS_CardinalityType
  <1> QED
    BY <1>1, <1>3, <1>4, <1>5 DEF I

\* Moving a set of numbers does not change its size.
THEOREM Shifted ==
  ASSUME NEW S, S \subseteq Int, IsFiniteSet(S), NEW d \in Int,
         NEW T, T \subseteq Int, \A k \in Int : k + d \in T <=> k \in S
  PROVE  IsFiniteSet(T) /\ Cardinality(T) = Cardinality(S)
  <1> DEFINE f == [k \in S |-> k + d]
  <1>1. f \in [S -> T]
    OBVIOUS
  <1>2. ASSUME NEW a \in S, NEW b \in S, f[a] = f[b] PROVE a = b
    BY <1>2
  <1>3. ASSUME NEW t \in T PROVE \E s \in S : f[s] = t
    <2>1. t - d \in Int /\ (t - d) + d = t
      OBVIOUS
    <2>2. t - d \in S
      BY <2>1
    <2> QED
      BY <2>1, <2>2
  <1>a. DOMAIN f = S
    OBVIOUS
  <1> HIDE DEF f
  <1>4. f \in Bijection(S, T)
    BY <1>1, <1>2, <1>3, <1>a DEF Bijection, Injection, Surjection, IsInjective
  <1>5. ExistsBijection(S, T)
    BY <1>4 DEF ExistsBijection
  <1> QED
    BY <1>5, FS_Bijection
-----------------------------------------------------------------------------
(* Sums over finite sets, SumFunctionOnSet of the community modules.       *)

\* Induction over the subsets of a finite set: a set Q of them that has every
\* set from which removing any element leads into Q has them all.
THEOREM SubsetInduction ==
  ASSUME NEW S, IsFiniteSet(S), NEW Q,
         \A T \in SUBSET S : (\A x \in T : T \ {x} \in Q) => T \in Q
  PROVE  SUBSET S \subseteq Q
  <1> SUFFICES ASSUME NEW T0 \in SUBSET S, T0 \notin Q PROVE FALSE
    OBVIOUS
  <1> DEFINE bad == {T \in SUBSET S : T \notin Q}
             N == {Cardinality(T) : T \in bad}
  <1>1. \A T \in SUBSET S : IsFiniteSet(T)
    BY FS_Subset
  <1>2. \A T \in SUBSET S : Cardinality(T) \in Nat
    BY <1>1, FS_CardinalityType
  <1>3. N \subseteq Nat /\ N # {}
    BY <1>2
  <1>4. PICK n \in N : \A m \in N : n <= m
    BY <1>3, LeastNatural
  <1>5. PICK T \in bad : n = Cardinality(T)
    BY <1>4
  <1>6. ASSUME NEW x \in T PROVE T \ {x} \in Q
    <2>1. T \in SUBSET S /\ T \ {x} \in SUBSET S
      OBVIOUS
    <2>2. IsFiniteSet(T)
      BY <1>1, <2>1
    <2>3. Cardinality(T \ {x}) = Cardinality(T) - 1
      BY <2>2, FS_RemoveElement
    <2>4. Cardinality(T) \in Nat /\ Cardinality(T \ {x}) \in Nat
      BY <1>2, <2>1
    <2>5. ~(n <= Cardinality(T \ {x}))
      BY <1>5, <2>3, <2>4
    <2>6. Cardinality(T \ {x}) \notin N
      BY <1>4, <2>5
    <2>7. T \ {x} \notin bad
      BY <2>6
    <2> QED
      BY <2>1, <2>7
  <1>7. T \in SUBSET S /\ T \notin Q
    BY <1>5
  <1> QED
    BY <1>6, <1>7

\* The order in which the sum goes through a set.
PickOf(s) == CHOOSE x \in s : TRUE

LEMMA PickLemma == \A s : s # {} => PickOf(s) \in s
  BY DEF PickOf

\* The partial sums on the subsets that are in D.
SumsOn(f, D, g) ==
  g = [s \in D |-> IF s = {} THEN 0 ELSE f[PickOf(s)] + g[s \ {PickOf(s)}]]

\* The recursion that defines the sum has a solution.
LEMMA SumsExist ==
  ASSUME NEW f, NEW S, IsFiniteSet(S)
  PROVE  \E g : SumsOn(f, SUBSET S, g)
  <1> DEFINE D(n) == {s \in SUBSET S : Cardinality(s) < n}
             bad == {n \in Nat : ~\E g : SumsOn(f, D(n), g)}
  <1>1. \A T \in SUBSET S : IsFiniteSet(T) /\ Cardinality(T) <= Cardinality(S)
    BY FS_Subset
  <1>2. \A T \in SUBSET S : Cardinality(T) \in Nat
    BY <1>1, FS_CardinalityType
  <1>3. bad = {}
    <2> SUFFICES ASSUME bad # {} PROVE FALSE
      OBVIOUS
    <2>1. bad \subseteq Nat
      OBVIOUS
    <2>2. PICK n \in bad : \A m \in bad : n <= m
      BY <2>1, LeastNatural
    <2>3. n # 0
      <3> SUFFICES ASSUME n = 0 PROVE FALSE
        OBVIOUS
      <3>1. D(n) = {}
        BY <1>2
      <3> DEFINE g == [s \in {} |-> 0]
      <3>2. SumsOn(f, {}, g)
        BY DEF SumsOn
      <3> QED
        BY <3>1, <3>2
    <2>4. PICK m \in Nat : n = m + 1
      <3>1. n - 1 \in Nat /\ n = (n - 1) + 1
        BY <2>3
      <3> QED
        BY <3>1
    <2>5. m \notin bad
      <3>1. ~(n <= m) /\ n \in Nat
        BY <2>4
      <3> HIDE DEF bad
      <3> QED
        BY <2>2, <3>1
    <2>6. PICK g : SumsOn(f, D(m), g)
      BY <2>5
    <2> DEFINE h == [s \in D(n) |-> IF s = {} THEN 0 ELSE f[PickOf(s)] + g[s \ {PickOf(s)}]]
    <2>7. ASSUME NEW s \in D(n), s # {} PROVE s \ {PickOf(s)} \in D(m)
      <3>1. PickOf(s) \in s
        BY <2>7, PickLemma
      <3>2. s \in SUBSET S /\ Cardinality(s) < n
        OBVIOUS
      <3>3. IsFiniteSet(s) /\ Cardinality(s) \in Nat
        BY <1>1, <1>2, <3>2
      <3>4. Cardinality(s \ {PickOf(s)}) = Cardinality(s) - 1
        BY <3>1, <3>3, FS_RemoveElement
      <3>5. Cardinality(s \ {PickOf(s)}) < m
        BY <2>4, <3>2, <3>3, <3>4
      <3> QED
        BY <3>2, <3>5
    <2>8. \A s \in D(m) : s \in D(n)
      BY <1>2, <2>4
    <2>9. \A s \in D(m) : h[s] = g[s]
      BY <2>6, <2>8 DEF SumsOn
    <2>10. \A s \in D(n) : s # {} => g[s \ {PickOf(s)}] = h[s \ {PickOf(s)}]
      BY <2>7, <2>9
    <2> DEFINE k == [s \in D(n) |-> IF s = {} THEN 0 ELSE f[PickOf(s)] + h[s \ {PickOf(s)}]]
    <2>11. h = k
      <3>1. \A s \in D(n) : (IF s = {} THEN 0 ELSE f[PickOf(s)] + g[s \ {PickOf(s)}])
                              = (IF s = {} THEN 0 ELSE f[PickOf(s)] + h[s \ {PickOf(s)}])
        BY <2>10
      <3> QED
        BY <3>1
    <2>12. SumsOn(f, D(n), h)
      BY <2>11 DEF SumsOn
    <2> QED
      BY <2>12
  <1>4. Cardinality(S) + 1 \in Nat
    BY <1>2
  <1>5. D(Cardinality(S) + 1) = SUBSET S
    BY <1>1, <1>2
  <1> QED
    BY <1>3, <1>4, <1>5

\* The sum is read off the partial sums.
LEMMA SumIsPartial ==
  ASSUME NEW f, NEW S, IsFiniteSet(S)
  PROVE  \E g : SumsOn(f, SUBSET S, g) /\ SumFunctionOnSet(f, S) = g[S]
  <1> DEFINE it == CHOOSE g : SumsOn(f, SUBSET S, g)
  <1>1. SumFunctionOnSet(f, S) = it[S]
    BY DEF SumFunctionOnSet, FoldFunctionOnSet, MapThenFoldSet, PickOf, SumsOn
  <1>2. SumsOn(f, SUBSET S, it)
    BY SumsExist, Zenon
  <1> HIDE DEF it
  <1> QED
    BY <1>1, <1>2

LEMMA SumRecursion ==
  ASSUME NEW f, NEW S, IsFiniteSet(S)
  PROVE  /\ SumFunctionOnSet(f, {}) = 0
         /\ S # {} => SumFunctionOnSet(f, S)
                        = f[PickOf(S)] + SumFunctionOnSet(f, S \ {PickOf(S)})
  <1>1. SumFunctionOnSet(f, {}) = 0
    <2>1. IsFiniteSet({})
      BY FS_EmptySet
    <2>2. PICK g : SumsOn(f, SUBSET {}, g) /\ SumFunctionOnSet(f, {}) = g[{}]
      BY <2>1, SumIsPartial
    <2>3. {} \in SUBSET {}
      OBVIOUS
    <2> QED
      BY <2>2, <2>3 DEF SumsOn
  <1>2. ASSUME S # {}
        PROVE  SumFunctionOnSet(f, S) = f[PickOf(S)] + SumFunctionOnSet(f, S \ {PickOf(S)})
    <2> DEFINE T == S \ {PickOf(S)}
    <2>1. PICK g : SumsOn(f, SUBSET S, g) /\ SumFunctionOnSet(f, S) = g[S]
      BY SumIsPartial
    <2>2. IsFiniteSet(T)
      BY FS_RemoveElement
    <2>3. PICK h : SumsOn(f, SUBSET T, h) /\ SumFunctionOnSet(f, T) = h[T]
      BY <2>2, SumIsPartial
    <2> DEFINE Q == {U \in SUBSET T : h[U] = g[U]}
    <2>4. ASSUME NEW U \in SUBSET T, \A x \in U : U \ {x} \in Q
          PROVE  U \in Q
      <3>1. U \in SUBSET S
        OBVIOUS
      <3>2. g[U] = IF U = {} THEN 0 ELSE f[PickOf(U)] + g[U \ {PickOf(U)}]
        BY <2>1, <3>1 DEF SumsOn
      <3>3. h[U] = IF U = {} THEN 0 ELSE f[PickOf(U)] + h[U \ {PickOf(U)}]
        BY <2>3 DEF SumsOn
      <3>4. U # {} => h[U \ {PickOf(U)}] = g[U \ {PickOf(U)}]
        BY <2>4, PickLemma
      <3> QED
        BY <3>2, <3>3, <3>4
    <2> HIDE DEF Q, T
    <2>5. SUBSET T \subseteq Q
      BY <2>2, <2>4, SubsetInduction
    <2>6. h[T] = g[T]
      BY <2>5 DEF Q
    <2>7. g[S] = f[PickOf(S)] + g[T]
      <3>1. S \in SUBSET S
        OBVIOUS
      <3>2. g[S] = IF S = {} THEN 0 ELSE f[PickOf(S)] + g[S \ {PickOf(S)}]
        BY <2>1, <3>1 DEF SumsOn
      <3> QED
        BY <1>2, <3>2 DEF T
    <2> QED
      BY <2>1, <2>3, <2>6, <2>7 DEF T
  <1> QED
    BY <1>1, <1>2

\* A sum of integers is an integer, whatever element it starts with.
THEOREM SumProperties ==
  ASSUME NEW f, NEW S, IsFiniteSet(S), \A x \in S : f[x] \in Int
  PROVE  /\ SumFunctionOnSet(f, {}) = 0
         /\ SumFunctionOnSet(f, S) \in Int
         /\ \A x \in S : SumFunctionOnSet(f, S) = f[x] + SumFunctionOnSet(f, S \ {x})
  <1> DEFINE Sum(T) == SumFunctionOnSet(f, T)
  <1>1. \A T \in SUBSET S : IsFiniteSet(T)
    BY FS_Subset
  <1>2. Sum({}) = 0
    BY SumRecursion
  <1>3. ASSUME NEW T \in SUBSET S, T # {}
        PROVE  PickOf(T) \in T /\ Sum(T) = f[PickOf(T)] + Sum(T \ {PickOf(T)})
    <2>1. IsFiniteSet(T)
      BY <1>1
    <2> QED
      BY <1>3, <2>1, SumRecursion, PickLemma
  <1> HIDE DEF Sum
  <1> DEFINE I == {T \in SUBSET S : Sum(T) \in Int}
  <1>4. ASSUME NEW T \in SUBSET S, \A x \in T : T \ {x} \in I
        PROVE  T \in I
    <2>1. CASE T = {}
      BY <1>2, <2>1
    <2>2. CASE T # {}
      <3>1. PickOf(T) \in T /\ Sum(T) = f[PickOf(T)] + Sum(T \ {PickOf(T)})
        BY <1>3, <2>2
      <3>2. f[PickOf(T)] \in Int /\ Sum(T \ {PickOf(T)}) \in Int
        BY <1>4, <3>1
      <3> QED
        BY <3>1, <3>2
    <2> QED
      BY <2>1, <2>2
  <1> HIDE DEF I
  <1>5. SUBSET S \subseteq I
    BY <1>4, SubsetInduction
  <1>6. \A T \in SUBSET S : Sum(T) \in Int
    BY <1>5 DEF I
  <1> DEFINE Q == {T \in SUBSET S : \A x \in T : Sum(T) = f[x] + Sum(T \ {x})}
  <1>7. ASSUME NEW T \in SUBSET S, \A x \in T : T \ {x} \in Q
        PROVE  T \in Q
    <2> SUFFICES ASSUME NEW x \in T PROVE Sum(T) = f[x] + Sum(T \ {x})
      OBVIOUS
    <2> DEFINE y == PickOf(T)
    <2>1. y \in T /\ Sum(T) = f[y] + Sum(T \ {y})
      BY <1>3
    <2>2. CASE x = y
      BY <2>1, <2>2
    <2>3. CASE x # y
      <3>1. T \ {y} \in Q /\ x \in T \ {y} /\ T \ {x} \in Q /\ y \in T \ {x}
        BY <1>7, <2>1, <2>3
      <3> HIDE DEF y
      <3> DEFINE U == (T \ {y}) \ {x}
      <3>2. Sum(T \ {y}) = f[x] + Sum(U)
        BY <3>1
      <3>3. (T \ {x}) \ {y} = U
        OBVIOUS
      <3>4. Sum(T \ {x}) = f[y] + Sum(U)
        BY <3>1, <3>3
      <3>5. U \in SUBSET S /\ f[x] \in Int /\ f[y] \in Int
        BY <2>1
      <3>6. Sum(U) \in Int
        BY <1>6, <3>5
      <3> HIDE DEF U
      <3> QED
        BY <2>1, <3>2, <3>4, <3>5, <3>6
    <2> QED
      BY <2>2, <2>3
  <1> HIDE DEF Q
  <1>8. SUBSET S \subseteq Q
    BY <1>7, SubsetInduction
  <1>9. S \in SUBSET S
    OBVIOUS
  <1>10. Sum(S) \in Int /\ \A x \in S : Sum(S) = f[x] + Sum(S \ {x})
    BY <1>6, <1>8, <1>9 DEF Q
  <1> QED
    BY <1>2, <1>10 DEF Sum

\* The same for all parts of the set.
SumFacts(f, S) ==
  \A T \in SUBSET S :
    /\ IsFiniteSet(T) /\ SumFunctionOnSet(f, T) \in Int
    /\ T = {} => SumFunctionOnSet(f, T) = 0
    /\ \A x \in T : SumFunctionOnSet(f, T) = f[x] + SumFunctionOnSet(f, T \ {x})

LEMMA SumParts ==
  ASSUME NEW f, NEW S, IsFiniteSet(S), \A x \in S : f[x] \in Int
  PROVE  SumFacts(f, S)
  <1> SUFFICES ASSUME NEW T \in SUBSET S
               PROVE  /\ IsFiniteSet(T) /\ SumFunctionOnSet(f, T) \in Int
                      /\ T = {} => SumFunctionOnSet(f, T) = 0
                      /\ \A x \in T : SumFunctionOnSet(f, T)
                                        = f[x] + SumFunctionOnSet(f, T \ {x})
    BY DEF SumFacts
  <1>1. IsFiniteSet(T) /\ \A x \in T : f[x] \in Int
    BY FS_Subset
  <1> QED
    BY <1>1, SumProperties

THEOREM SumAdd ==
  ASSUME NEW S, IsFiniteSet(S), NEW f, NEW g, NEW h,
         \A x \in S : f[x] \in Int /\ g[x] \in Int /\ h[x] = f[x] + g[x]
  PROVE  SumFunctionOnSet(h, S) = SumFunctionOnSet(f, S) + SumFunctionOnSet(g, S)
  <1> DEFINE F(T) == SumFunctionOnSet(f, T)
             G(T) == SumFunctionOnSet(g, T)
             H(T) == SumFunctionOnSet(h, T)
  <1>1. \A T \in SUBSET S :
          /\ F(T) \in Int /\ G(T) \in Int /\ H(T) \in Int
          /\ T = {} => F(T) = 0 /\ G(T) = 0 /\ H(T) = 0
          /\ \A x \in T : /\ F(T) = f[x] + F(T \ {x}) /\ G(T) = g[x] + G(T \ {x})
                          /\ H(T) = h[x] + H(T \ {x})
    <2>1. SumFacts(f, S)
      BY SumParts
    <2>2. SumFacts(g, S)
      BY SumParts
    <2>3. SumFacts(h, S)
      BY SumParts
    <2> QED
      BY <2>1, <2>2, <2>3 DEF SumFacts
  <1> HIDE DEF F, G, H
  <1> DEFINE Q == {T \in SUBSET S : H(T) = F(T) + G(T)}
  <1>2. ASSUME NEW T \in SUBSET S, \A x \in T : T \ {x} \in Q
        PROVE  T \in Q
    <2>1. CASE T = {}
      BY <1>1, <2>1
    <2>2. CASE T # {}
      <3>1. PICK x \in T : TRUE
        BY <2>2
      <3>2. H(T \ {x}) = F(T \ {x}) + G(T \ {x}) /\ T \ {x} \in SUBSET S
        BY <1>2
      <3>3. /\ F(T) = f[x] + F(T \ {x}) /\ G(T) = g[x] + G(T \ {x})
            /\ H(T) = h[x] + H(T \ {x})
            /\ F(T \ {x}) \in Int /\ G(T \ {x}) \in Int
            /\ f[x] \in Int /\ g[x] \in Int /\ h[x] = f[x] + g[x]
        BY <1>1, <3>2
      <3>4. H(T) = F(T) + G(T)
        BY <3>2, <3>3
      <3> QED
        BY <3>4
    <2> QED
      BY <2>1, <2>2
  <1> HIDE DEF Q
  <1>3. S \in Q
    BY <1>2, SubsetInduction
  <1> QED
    BY <1>3 DEF Q, F, G, H

THEOREM SumScale ==
  ASSUME NEW S, IsFiniteSet(S), NEW f, NEW h, NEW c \in Int,
         \A x \in S : f[x] \in Int /\ h[x] = c * f[x]
  PROVE  SumFunctionOnSet(h, S) = c * SumFunctionOnSet(f, S)
  <1> DEFINE F(T) == SumFunctionOnSet(f, T)
             H(T) == SumFunctionOnSet(h, T)
  <1>1. \A T \in SUBSET S :
          /\ F(T) \in Int /\ H(T) \in Int
          /\ T = {} => F(T) = 0 /\ H(T) = 0
          /\ \A x \in T : F(T) = f[x] + F(T \ {x}) /\ H(T) = h[x] + H(T \ {x})
    <2>1. SumFacts(f, S)
      BY SumParts
    <2>2. SumFacts(h, S)
      BY SumParts
    <2> QED
      BY <2>1, <2>2 DEF SumFacts
  <1> HIDE DEF F, H
  <1> DEFINE Q == {T \in SUBSET S : H(T) = c * F(T)}
  <1>2. ASSUME NEW T \in SUBSET S, \A x \in T : T \ {x} \in Q
        PROVE  T \in Q
    <2>1. CASE T = {}
      BY <1>1, <2>1
    <2>2. CASE T # {}
      <3>1. PICK x \in T : TRUE
        BY <2>2
      <3>2. H(T \ {x}) = c * F(T \ {x}) /\ T \ {x} \in SUBSET S
        BY <1>2
      <3>3. /\ F(T) = f[x] + F(T \ {x}) /\ H(T) = h[x] + H(T \ {x})
            /\ F(T \ {x}) \in Int /\ f[x] \in Int /\ h[x] = c * f[x]
        BY <1>1, <3>2
      <3>4. \A a, b \in Int : c * (a + b) = c * a + c * b
        OBVIOUS
      <3>5. H(T) = c * F(T)
        BY <3>2, <3>3, <3>4
      <3> QED
        BY <3>5
    <2> QED
      BY <2>1, <2>2
  <1> HIDE DEF Q
  <1>3. S \in Q
    BY <1>2, SubsetInduction
  <1> QED
    BY <1>3 DEF Q, F, H

\* The sum depends on the values in the set only.
THEOREM SumSame ==
  ASSUME NEW S, IsFiniteSet(S), NEW f, NEW h, \A x \in S : f[x] \in Int /\ h[x] = f[x]
  PROVE  SumFunctionOnSet(h, S) = SumFunctionOnSet(f, S)
  <1>1. \A x \in S : h[x] = 1 * f[x]
    OBVIOUS
  <1>2. SumFunctionOnSet(h, S) = 1 * SumFunctionOnSet(f, S)
    BY <1>1, SumScale
  <1>3. SumFunctionOnSet(f, S) \in Int
    BY SumProperties
  <1> QED
    BY <1>2, <1>3

THEOREM SumZero ==
  ASSUME NEW S, IsFiniteSet(S), NEW h, \A x \in S : h[x] = 0
  PROVE  SumFunctionOnSet(h, S) = 0
  <1>1. \A x \in S : h[x] \in Int /\ h[x] = 0 * h[x]
    OBVIOUS
  <1>2. SumFunctionOnSet(h, S) = 0 * SumFunctionOnSet(h, S)
    BY <1>1, SumScale
  <1>3. SumFunctionOnSet(h, S) \in Int
    BY <1>1, SumProperties
  <1> QED
    BY <1>2, <1>3

\* A sum of natural numbers, and that no term exceeds it.
THEOREM SumOfNaturals ==
  ASSUME NEW S, IsFiniteSet(S), NEW f, \A x \in S : f[x] \in Nat
  PROVE  /\ SumFunctionOnSet(f, S) \in Nat
         /\ \A x \in S : f[x] <= SumFunctionOnSet(f, S)
  <1> DEFINE F(T) == SumFunctionOnSet(f, T)
  <1>1. \A T \in SUBSET S :
          /\ F(T) \in Int
          /\ T = {} => F(T) = 0
          /\ \A x \in T : F(T) = f[x] + F(T \ {x})
    <2>1. SumFacts(f, S)
      BY SumParts
    <2> QED
      BY <2>1 DEF SumFacts
  <1> HIDE DEF F
  <1> DEFINE Q == {T \in SUBSET S : F(T) \in Nat}
  <1>2. ASSUME NEW T \in SUBSET S, \A x \in T : T \ {x} \in Q
        PROVE  T \in Q
    <2>1. CASE T = {}
      BY <1>1, <2>1
    <2>2. CASE T # {}
      <3>1. PICK x \in T : TRUE
        BY <2>2
      <3>2. F(T \ {x}) \in Nat /\ F(T) = f[x] + F(T \ {x}) /\ f[x] \in Nat
        BY <1>1, <1>2
      <3> QED
        BY <3>2
    <2> QED
      BY <2>1, <2>2
  <1> HIDE DEF Q
  <1>3. SUBSET S \subseteq Q
    BY <1>2, SubsetInduction
  <1>4. \A T \in SUBSET S : F(T) \in Nat
    BY <1>3 DEF Q
  <1>5. ASSUME NEW x \in S PROVE f[x] <= F(S)
    <2>1. S \in SUBSET S /\ S \ {x} \in SUBSET S
      OBVIOUS
    <2>2. F(S) = f[x] + F(S \ {x}) /\ F(S \ {x}) \in Nat /\ f[x] \in Nat
      BY <1>1, <1>4, <2>1
    <2> QED
      BY <2>2
  <1> QED
    BY <1>4, <1>5 DEF F

THEOREM SumMonotone ==
  ASSUME NEW S, IsFiniteSet(S), NEW f, NEW h,
         \A x \in S : f[x] \in Int /\ h[x] \in Int /\ f[x] <= h[x]
  PROVE  SumFunctionOnSet(f, S) <= SumFunctionOnSet(h, S)
  <1> DEFINE d == [x \in S |-> h[x] - f[x]]
  <1>1. \A x \in S : d[x] \in Nat /\ d[x] \in Int /\ h[x] = f[x] + d[x]
    OBVIOUS
  <1> HIDE DEF d
  <1>2. SumFunctionOnSet(h, S) = SumFunctionOnSet(f, S) + SumFunctionOnSet(d, S)
    BY <1>1, SumAdd
  <1>3. SumFunctionOnSet(d, S) \in Nat
    BY <1>1, SumOfNaturals
  <1>4. SumFunctionOnSet(f, S) \in Int
    BY SumProperties
  <1> QED
    BY <1>2, <1>3, <1>4

\* A sum over a part is the sum of the terms of that part.
THEOREM SumOfPart ==
  ASSUME NEW S, IsFiniteSet(S), NEW C, C \subseteq S, NEW f, NEW h,
         \A x \in S : f[x] \in Int /\ h[x] = IF x \in C THEN f[x] ELSE 0
  PROVE  SumFunctionOnSet(h, S) = SumFunctionOnSet(f, C)
  <1> DEFINE F(T) == SumFunctionOnSet(f, T)
             H(T) == SumFunctionOnSet(h, T)
  <1>1. \A T \in SUBSET S :
          /\ F(T) \in Int /\ H(T) \in Int
          /\ T = {} => F(T) = 0 /\ H(T) = 0
          /\ \A x \in T : F(T) = f[x] + F(T \ {x}) /\ H(T) = h[x] + H(T \ {x})
    <2>1. SumFacts(f, S)
      BY SumParts
    <2>2. SumFacts(h, S)
      BY SumParts
    <2> QED
      BY <2>1, <2>2 DEF SumFacts
  <1> HIDE DEF F, H
  <1> DEFINE Q == {T \in SUBSET S : H(T) = F(T \cap C)}
  <1>2. ASSUME NEW T \in SUBSET S, \A x \in T : T \ {x} \in Q
        PROVE  T \in Q
    <2>1. CASE T = {}
      <3>1. T \cap C = {} /\ {} \in SUBSET S
        BY <2>1
      <3> QED
        BY <1>1, <2>1, <3>1
    <2>2. CASE T # {}
      <3>1. PICK x \in T : TRUE
        BY <2>2
      <3>2. H(T \ {x}) = F((T \ {x}) \cap C) /\ T \ {x} \in SUBSET S
        BY <1>2
      <3>3. H(T) = h[x] + H(T \ {x}) /\ H(T \ {x}) \in Int
        BY <1>1, <3>2
      <3>4. CASE x \in C
        <4>1. x \in T \cap C /\ (T \ {x}) \cap C = (T \cap C) \ {x} /\ T \cap C \in SUBSET S
          BY <3>4
        <4>2. F(T \cap C) = f[x] + F((T \cap C) \ {x})
          BY <1>1, <4>1
        <4>3. h[x] = f[x]
          BY <3>4
        <4> QED
          BY <3>2, <3>3, <4>1, <4>2, <4>3
      <3>5. CASE x \notin C
        <4>1. (T \ {x}) \cap C = T \cap C /\ h[x] = 0
          BY <3>5
        <4>2. H(T) = H(T \ {x})
          BY <3>3, <4>1
        <4> QED
          BY <3>2, <4>1, <4>2
      <3> QED
        BY <3>4, <3>5
    <2> QED
      BY <2>1, <2>2
  <1> HIDE DEF Q
  <1>3. S \in Q /\ S \cap C = C
    BY <1>2, SubsetInduction
  <1> QED
    BY <1>3 DEF Q, F, H

\* Counting a part by ones.
THEOREM SumOfOnes ==
  ASSUME NEW S, IsFiniteSet(S), NEW f, \A x \in S : f[x] = 1
  PROVE  SumFunctionOnSet(f, S) = Cardinality(S)
  <1> DEFINE F(T) == SumFunctionOnSet(f, T)
  <1>1. \A T \in SUBSET S :
          /\ IsFiniteSet(T) /\ F(T) \in Int
          /\ T = {} => F(T) = 0
          /\ \A x \in T : F(T) = f[x] + F(T \ {x})
    <2>1. \A x \in S : f[x] \in Int
      OBVIOUS
    <2>2. SumFacts(f, S)
      BY <2>1, SumParts
    <2> QED
      BY <2>2 DEF SumFacts
  <1> HIDE DEF F
  <1> DEFINE Q == {T \in SUBSET S : F(T) = Cardinality(T)}
  <1>2. ASSUME NEW T \in SUBSET S, \A x \in T : T \ {x} \in Q
        PROVE  T \in Q
    <2>1. CASE T = {}
      BY <1>1, <2>1, FS_EmptySet
    <2>2. CASE T # {}
      <3>1. PICK x \in T : TRUE
        BY <2>2
      <3>2. F(T \ {x}) = Cardinality(T \ {x}) /\ F(T) = 1 + F(T \ {x}) /\ IsFiniteSet(T)
        BY <1>1, <1>2
      <3>3. Cardinality(T \ {x}) = Cardinality(T) - 1
        BY <3>2, FS_RemoveElement
      <3>4. Cardinality(T) \in Nat
        BY <3>2, FS_CardinalityType
      <3> QED
        BY <3>2, <3>3, <3>4
    <2> QED
      BY <2>1, <2>2
  <1> HIDE DEF Q
  <1>3. S \in Q
    BY <1>2, SubsetInduction
  <1> QED
    BY <1>3 DEF Q, F

\* A table of integers over S and R: its rows a, its columns c, and their sums.
Table(S, R, a, c, f, g) ==
  /\ IsFiniteSet(S) /\ IsFiniteSet(R)
  /\ \A x \in S, y \in R : a[x][y] \in Int /\ c[y][x] = a[x][y]
  /\ \A x \in S : f[x] = SumFunctionOnSet(a[x], R)
  /\ \A y \in R : g[y] = SumFunctionOnSet(c[y], S)

\* Summing a table by rows or by columns.
THEOREM SumSwap ==
  ASSUME NEW S, NEW R, NEW a, NEW c, NEW f, NEW g, Table(S, R, a, c, f, g)
  PROVE  SumFunctionOnSet(f, S) = SumFunctionOnSet(g, R)
  <1> USE DEF Table
  <1> DEFINE col(y) == c[y]
             part(T) == [y \in R |-> SumFunctionOnSet(col(y), T)]
             F(T) == SumFunctionOnSet(f, T)
             G(T) == SumFunctionOnSet(part(T), R)
             Q == {T \in SUBSET S : F(T) = G(T)}
  <1>1. \A y \in R : SumFacts(col(y), S)
    <2> TAKE y \in R
    <2>1. \A x \in S : col(y)[x] \in Int
      OBVIOUS
    <2> HIDE DEF col
    <2> QED
      BY <2>1, SumParts
  <1>2. \A x \in S : f[x] \in Int
    <2> TAKE x \in S
    <2>1. \A y \in R : a[x][y] \in Int
      OBVIOUS
    <2> QED
      BY <2>1, SumProperties
  <1>3. SumFacts(f, S)
    BY <1>2, SumParts
  <1>4. \A y \in R : \A T \in SUBSET S : SumFunctionOnSet(col(y), T) \in Int
    BY <1>1 DEF SumFacts
  <1>5. ASSUME NEW T \in SUBSET S, \A x \in T : T \ {x} \in Q
        PROVE  T \in Q
    <2>1. CASE T = {}
      <3>1. \A y \in R : SumFunctionOnSet(col(y), T) = 0
        BY <1>1, <2>1 DEF SumFacts
      <3>2. \A y \in R : part(T)[y] = 0
        BY <3>1
      <3> HIDE DEF part
      <3>3. G(T) = 0
        BY <3>2, SumZero
      <3>4. F(T) = 0
        BY <1>3, <2>1 DEF SumFacts
      <3> QED
        BY <3>3, <3>4 DEF part
    <2>2. CASE T # {}
      <3>1. PICK x \in T : TRUE
        BY <2>2
      <3> DEFINE U == T \ {x}
      <3>2. F(U) = G(U) /\ U \in SUBSET S
        BY <1>5
      <3>3. F(T) = f[x] + F(U) /\ f[x] = SumFunctionOnSet(a[x], R)
        BY <1>3 DEF SumFacts
      <3>4. \A y \in R : SumFunctionOnSet(col(y), T)
                           = col(y)[x] + SumFunctionOnSet(col(y), U)
        BY <1>1 DEF SumFacts
      <3>5. \A y \in R : col(y)[x] = a[x][y] /\ a[x][y] \in Int
        OBVIOUS
      <3> HIDE DEF U, col
      <3>6. \A y \in R : a[x][y] \in Int /\ part(U)[y] \in Int /\ part(T)[y] = a[x][y] + part(U)[y]
        BY <1>4, <3>2, <3>4, <3>5
      <3> DEFINE r == a[x]  p == part(U)  q == part(T)
      <3>7. \A y \in R : r[y] \in Int /\ p[y] \in Int /\ q[y] = r[y] + p[y]
        BY <3>6
      <3> HIDE DEF r, p, q
      <3>8. SumFunctionOnSet(q, R) = SumFunctionOnSet(r, R) + SumFunctionOnSet(p, R)
        BY <3>7, SumAdd
      <3>9. F(T) = G(T)
        BY <3>2, <3>3, <3>8 DEF r, p, q
      <3> QED
        BY <3>9
    <2> QED
      BY <2>1, <2>2
  <1> HIDE DEF Q
  <1>6. S \in Q
    BY <1>5, SubsetInduction
  <1>7. SumFunctionOnSet(g, R) = G(S)
    <2> DEFINE p == part(S)
    <2>1. \A y \in R : p[y] \in Int /\ g[y] = p[y]
      BY <1>4
    <2> HIDE DEF p
    <2>2. SumFunctionOnSet(g, R) = SumFunctionOnSet(p, R)
      BY <2>1, SumSame
    <2> QED
      BY <2>2 DEF p
  <1> QED
    BY <1>6, <1>7 DEF Q
-----------------------------------------------------------------------------
(* Sequences.                                                              *)

\* Induction over the length of a sequence: a set of sequences that holds the
\* empty one and with every sequence its extensions holds all of them.
LEMMA SequenceInduction ==
  ASSUME NEW S, NEW P, <<>> \in P,
         \A t \in Seq(S), x \in S : t \in P => t \o <<x>> \in P
  PROVE  Seq(S) \subseteq P
  <1> DEFINE bad == {n \in Nat : \E t \in Seq(S) : Len(t) = n /\ t \notin P}
  <1>1. bad = {}
    <2> SUFFICES ASSUME bad # {} PROVE FALSE
      OBVIOUS
    <2>1. bad \subseteq Nat
      OBVIOUS
    <2>2. PICK n \in bad : \A m \in bad : n <= m
      BY <2>1, LeastNatural
    <2>3. PICK t \in Seq(S) : Len(t) = n /\ t \notin P
      OBVIOUS
    <2>4. t # <<>>
      BY <2>3
    <2>5. PICK u \in Seq(S), x \in S : t = Append(u, x)
      BY <2>4, SequenceEmptyOrAppend
    <2>6. t = u \o <<x>> /\ Len(u) \in Nat /\ Len(u) = n - 1 /\ n \in Nat
      BY <2>3, <2>5, AppendIsConcat, AppendProperties
    <2>7. Len(u) \notin bad
      <3> HIDE DEF bad
      <3> QED
        BY <2>2, <2>6
    <2>8. u \in P
      BY <2>6, <2>7
    <2> QED
      BY <2>3, <2>6, <2>8
  <1> QED
    BY <1>1

-----------------------------------------------------------------------------
(* FlattenSeq of the community modules, by its recursion.                  *)

\* The function FlattenSeq recurses through, up to n.
FlattensTo(s, n, f) ==
  f = [k \in 1 .. n |-> IF k = 1 THEN s[k] ELSE f[k - 1] \o s[k]]

LEMMA FlattenExists ==
  ASSUME NEW s, NEW n \in Nat
  PROVE  \E f : FlattensTo(s, n, f)
  <1> DEFINE bad == {m \in Nat : ~\E f : FlattensTo(s, m, f)}
  <1>1. bad = {}
    <2> SUFFICES ASSUME bad # {} PROVE FALSE
      OBVIOUS
    <2>1. bad \subseteq Nat
      OBVIOUS
    <2>2. PICK m \in bad : \A j \in bad : m <= j
      BY <2>1, LeastNatural
    <2>3. m # 0
      <3> DEFINE e == [k \in 1 .. 0 |-> <<>>]
      <3>1. FlattensTo(s, 0, e)
        BY DEF FlattensTo
      <3> QED
        BY <3>1
    <2>4. m - 1 \in Nat /\ m \in Nat /\ ~(m <= m - 1)
      BY <2>1, <2>3
    <2>5. m - 1 \notin bad
      <3> HIDE DEF bad
      <3> QED
        BY <2>2, <2>4
    <2>6. PICK g : FlattensTo(s, m - 1, g)
      BY <2>4, <2>5
    <2> DEFINE h == [k \in 1 .. m |-> IF k = 1 THEN s[k] ELSE g[k - 1] \o s[k]]
    <2>7. \A k \in 1 .. m - 1 : h[k] = g[k]
      <3>1. \A k \in 1 .. m - 1 : g[k] = IF k = 1 THEN s[k] ELSE g[k - 1] \o s[k]
        BY <2>6 DEF FlattensTo
      <3> QED
        BY <2>4, <3>1
    <2>8. \A k \in 1 .. m : h[k] = IF k = 1 THEN s[k] ELSE h[k - 1] \o s[k]
      <3>1. \A k \in 1 .. m : k # 1 => k - 1 \in 1 .. m - 1
        BY <2>4
      <3> QED
        BY <2>7, <3>1
    <2>9. h = [k \in 1 .. m |-> IF k = 1 THEN s[k] ELSE h[k - 1] \o s[k]]
      <3>1. \A k \in 1 .. m : (IF k = 1 THEN s[k] ELSE g[k - 1] \o s[k])
                             = IF k = 1 THEN s[k] ELSE h[k - 1] \o s[k]
        BY <2>8
      <3> QED
        BY <3>1, Zenon
    <2>10. FlattensTo(s, m, h)
      BY <2>9 DEF FlattensTo
    <2> QED
      BY <2>10
  <1> QED
    BY <1>1

LEMMA FlattenIsPartial ==
  ASSUME NEW s, Len(s) \in Nat, Len(s) # 0
  PROVE  \E f : FlattensTo(s, Len(s), f) /\ FlattenSeq(s) = f[Len(s)]
  <1> DEFINE f == CHOOSE g : g = [k \in 1 .. Len(s) |-> IF k = 1 THEN s[k] ELSE g[k - 1] \o s[k]]
  <1>1. FlattenSeq(s) = f[Len(s)]
    BY Zenon DEF FlattenSeq
  <1>2. FlattensTo(s, Len(s), f)
    BY FlattenExists, Zenon DEF FlattensTo
  <1> QED
    BY <1>1, <1>2, Zenon

\* Flattening from the right.
LEMMA FlattenEmpty == FlattenSeq(<<>>) = <<>>
  <1>1. Len(<<>>) = 0
    OBVIOUS
  <1> QED
    BY <1>1, Zenon DEF FlattenSeq

LEMMA FlattenSnoc ==
  ASSUME NEW S, NEW s \in Seq(Seq(S)), NEW x \in Seq(S)
  PROVE  FlattenSeq(s \o <<x>>) = FlattenSeq(s) \o x
  <1> DEFINE t == s \o <<x>>
             n == Len(s)
  <1>1. /\ n \in Nat /\ Len(t) = n + 1 /\ t[n + 1] = x
        /\ \A k \in 1 .. n : t[k] = s[k]
    OBVIOUS
  <1> HIDE DEF t, n
  <1>2. PICK g : FlattensTo(t, n + 1, g) /\ FlattenSeq(t) = g[n + 1]
    <2>1. Len(t) \in Nat /\ Len(t) # 0
      BY <1>1
    <2> QED
      BY <1>1, <2>1, FlattenIsPartial
  <1>3. \A k \in 1 .. n + 1 : g[k] = IF k = 1 THEN t[k] ELSE g[k - 1] \o t[k]
    BY <1>2 DEF FlattensTo
  <1>4. CASE n = 0
    <2>1. s = <<>> /\ FlattenSeq(s) = <<>>
      BY <1>4, FlattenEmpty DEF n
    <2>2. FlattenSeq(t) = x
      BY <1>1, <1>2, <1>3, <1>4
    <2> QED
      BY <2>1, <2>2 DEF t
  <1>5. CASE n # 0
    <2>1. PICK f : FlattensTo(s, n, f) /\ FlattenSeq(s) = f[n]
      BY <1>1, <1>5, FlattenIsPartial DEF n
    <2>2. \A k \in 1 .. n : f[k] = IF k = 1 THEN s[k] ELSE f[k - 1] \o s[k]
      BY <2>1 DEF FlattensTo
    <2> DEFINE bad == {k \in 1 .. n : f[k] # g[k]}
    <2>3. bad = {}
      <3> SUFFICES ASSUME bad # {} PROVE FALSE
        OBVIOUS
      <3>1. bad \subseteq Nat
        BY <1>1
      <3>2. PICK k \in bad : \A j \in bad : k <= j
        BY <3>1, LeastNatural
      <3>3. /\ k \in 1 .. n /\ f[k] # g[k] /\ k \in Nat
            /\ k # 1 => k - 1 \in 1 .. n /\ ~(k <= k - 1)
        BY <1>1
      <3>4. k # 1 => f[k - 1] = g[k - 1]
        <4>1. k # 1 => k - 1 \notin bad
          <5> HIDE DEF bad
          <5> QED
            BY <3>2, <3>3
        <4> QED
          BY <3>3, <4>1
      <3>5. k \in 1 .. n + 1 /\ t[k] = s[k]
        BY <1>1, <3>3
      <3> QED
        BY <1>3, <2>2, <3>3, <3>4, <3>5
    <2>4. f[n] = g[n]
      <3>1. n \in 1 .. n
        BY <1>1, <1>5
      <3> QED
        BY <2>3, <3>1
    <2>5. g[n + 1] = g[n] \o x
      <3>1. n + 1 \in 1 .. n + 1 /\ n + 1 # 1 /\ (n + 1) - 1 = n
        BY <1>1, <1>5
      <3> QED
        BY <1>1, <1>3, <3>1
    <2> QED
      BY <1>2, <2>1, <2>4, <2>5 DEF t
  <1> QED
    BY <1>4, <1>5

\* A flattened sequence of sequences is a sequence, one of at most as many
\* elements if the parts have at most one each.
LEMMA FlattenType ==
  ASSUME NEW S, NEW s \in Seq(Seq(S))
  PROVE  /\ FlattenSeq(s) \in Seq(S)
         /\ (\A k \in 1 .. Len(s) : Len(s[k]) <= 1) => Len(FlattenSeq(s)) <= Len(s)
         /\ (\A k \in 1 .. Len(s) : s[k] = <<>>) => FlattenSeq(s) = <<>>
  <1> DEFINE P == {t \in Seq(Seq(S)) :
                     /\ FlattenSeq(t) \in Seq(S)
                     /\ (\A k \in 1 .. Len(t) : Len(t[k]) <= 1) => Len(FlattenSeq(t)) <= Len(t)
                     /\ (\A k \in 1 .. Len(t) : t[k] = <<>>) => FlattenSeq(t) = <<>>}
  <1>1. <<>> \in P
    <2>1. /\ <<>> \in Seq(S) /\ <<>> \in Seq(Seq(S)) /\ Len(<<>>) <= Len(<<>>)
      OBVIOUS
    <2> QED
      BY <2>1, FlattenEmpty
  <1>2. ASSUME NEW t \in Seq(Seq(S)), NEW x \in Seq(S), t \in P
        PROVE  t \o <<x>> \in P
    <2> DEFINE u == t \o <<x>>
               n == Len(t)
               f == FlattenSeq(t)
    <2>1. /\ n \in Nat /\ u \in Seq(Seq(S)) /\ Len(u) = n + 1 /\ u[n + 1] = x
          /\ \A k \in 1 .. n : u[k] = t[k]
      OBVIOUS
    <2>2. /\ f \in Seq(S)
          /\ (\A k \in 1 .. n : Len(t[k]) <= 1) => Len(f) <= n
          /\ (\A k \in 1 .. n : t[k] = <<>>) => f = <<>>
      BY <1>2
    <2>3. FlattenSeq(u) = f \o x
      BY FlattenSnoc
    <2> HIDE DEF u, n, f
    <2>4. FlattenSeq(u) \in Seq(S) /\ Len(FlattenSeq(u)) = Len(f) + Len(x) /\ Len(f) \in Nat /\ Len(x) \in Nat
      BY <2>2, <2>3
    <2>5. n + 1 \in 1 .. n + 1 /\ \A k \in 1 .. n : k \in 1 .. n + 1
      BY <2>1
    <2>6. (\A k \in 1 .. Len(u) : Len(u[k]) <= 1) => Len(FlattenSeq(u)) <= Len(u)
      <3> SUFFICES ASSUME \A k \in 1 .. Len(u) : Len(u[k]) <= 1
                   PROVE  Len(FlattenSeq(u)) <= Len(u)
        OBVIOUS
      <3>1. Len(x) <= 1 /\ Len(f) <= n
        BY <2>1, <2>2, <2>5
      <3> QED
        BY <2>1, <2>4, <3>1
    <2>7. (\A k \in 1 .. Len(u) : u[k] = <<>>) => FlattenSeq(u) = <<>>
      <3> SUFFICES ASSUME \A k \in 1 .. Len(u) : u[k] = <<>>
                   PROVE  FlattenSeq(u) = <<>>
        OBVIOUS
      <3>1. x = <<>> /\ f = <<>>
        BY <2>1, <2>2, <2>5
      <3> QED
        BY <2>3, <3>1
    <2>8. u \in P
      BY <2>1, <2>4, <2>6, <2>7
    <2> QED
      BY <2>8 DEF u
  <1> HIDE DEF P
  <1>3. Seq(Seq(S)) \subseteq P
    BY <1>1, <1>2, SequenceInduction
  <1> QED
    BY <1>3 DEF P

\* Flattening from the left.
LEMMA FlattenCons ==
  ASSUME NEW S, NEW s \in Seq(Seq(S)), NEW x \in Seq(S)
  PROVE  FlattenSeq(<<x>> \o s) = x \o FlattenSeq(s)
  <1> DEFINE P == {t \in Seq(Seq(S)) : FlattenSeq(<<x>> \o t) = x \o FlattenSeq(t)}
  <1>1. <<>> \in P
    <2>1. <<x>> \o <<>> = <<>> \o <<x>> /\ <<>> \in Seq(Seq(S))
      OBVIOUS
    <2>2. FlattenSeq(<<>> \o <<x>>) = FlattenSeq(<<>>) \o x
      BY <2>1, FlattenSnoc
    <2>3. <<>> \o x = x /\ x \o <<>> = x
      BY ConcatEmptySeq
    <2> QED
      BY <2>1, <2>2, <2>3, FlattenEmpty
  <1>2. ASSUME NEW t \in Seq(Seq(S)), NEW y \in Seq(S), t \in P
        PROVE  t \o <<y>> \in P
    <2>1. <<x>> \in Seq(Seq(S)) /\ <<y>> \in Seq(Seq(S)) /\ <<x>> \o t \in Seq(Seq(S)) /\ t \o <<y>> \in Seq(Seq(S))
      OBVIOUS
    <2>2. <<x>> \o (t \o <<y>>) = (<<x>> \o t) \o <<y>>
      BY <2>1, ConcatAssociative
    <2>3. FlattenSeq((<<x>> \o t) \o <<y>>) = FlattenSeq(<<x>> \o t) \o y
      BY <2>1, FlattenSnoc
    <2>4. FlattenSeq(t \o <<y>>) = FlattenSeq(t) \o y
      BY FlattenSnoc
    <2>5. FlattenSeq(<<x>> \o t) = x \o FlattenSeq(t)
      BY <1>2
    <2>6. (x \o FlattenSeq(t)) \o y = x \o (FlattenSeq(t) \o y)
      <3>1. FlattenSeq(t) \in Seq(S)
        BY FlattenType
      <3> QED
        BY <3>1, ConcatAssociative
    <2>7. FlattenSeq(<<x>> \o (t \o <<y>>)) = x \o FlattenSeq(t \o <<y>>)
      BY <2>2, <2>3, <2>4, <2>5, <2>6
    <2> QED
      BY <2>1, <2>7
  <1> HIDE DEF P
  <1>3. Seq(Seq(S)) \subseteq P
    BY <1>1, <1>2, SequenceInduction
  <1> QED
    BY <1>3 DEF P
=============================================================================
