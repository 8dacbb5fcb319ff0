---------------------------------- MODULE Sums ---------------------------------
(***************************************************************************)
(* Sums of a function's values, and what finite sets of numbers have: the  *)
(* facts that the proofs of the board's points and of the planner's counts *)
(* rest on.                                                                *)
(*                                                                         *)
(* A sum is the fold of the community modules, a function on the subsets   *)
(* of a set that is chosen to satisfy its own recursion.  That there is    *)
(* one, and what holds of it, is proved size by size: of the sizes that    *)
(* have a counterexample there is a least, and none below it.              *)
(***************************************************************************)
EXTENDS Integers, FiniteSetsExt, FiniteSetTheorems, WellFoundedInduction, TLAPS

LEMMA LeastNumber ==
  ASSUME NEW S \in SUBSET Nat, S # {}
  PROVE  \E m \in S : \A n \in S : m <= n
  <1> DEFINE before == {m \in Nat \X Nat : m[1] < m[2]}
  <1>1. IsWellFoundedOn(before, Nat)
    BY NatLessThanWellFounded DEF OpToRel
  <1>2. PICK m \in S : \A n \in S : <<n, m>> \notin before
    <2> HIDE DEF before
    <2> QED BY <1>1, WFMin
  <1>3. \A n \in S : <<n, m>> \in Nat \X Nat
    OBVIOUS
  <1>4. \A n \in S : ~(n < m)
    BY <1>2, <1>3
  <1> QED BY <1>4

\* The element of a set that a sum takes next.
Pick(s) == CHOOSE x \in s : TRUE

\* What a function sums up to over each set, and what is true of it as far as sets
\* of n elements.
Sums(f) ==
  CHOOSE iter : iter = [s \in SUBSET DOMAIN f |->
    IF s = {} THEN 0 ELSE f[Pick(s)] + iter[s \ {Pick(s)}]]

UpToSize(f, n) == {s \in SUBSET DOMAIN f : Cardinality(s) <= n}

SumsSoFar(f, n, iter) ==
  iter = [s \in UpToSize(f, n) |-> IF s = {} THEN 0 ELSE f[Pick(s)] + iter[s \ {Pick(s)}]]

\* The library's sum of a function over its domain.
LEMMA SumIsSums ==
  ASSUME NEW f
  PROVE  MapThenSumSet(LAMBDA x : f[x], DOMAIN f) = Sums(f)[DOMAIN f]
  BY DEF Sums, Pick, MapThenSumSet, MapThenFoldSet

LEMMA PickIsIn ==
  ASSUME NEW s, s # {}, IsFiniteSet(s)
  PROVE  /\ Pick(s) \in s /\ IsFiniteSet(s \ {Pick(s)})
         /\ Cardinality(s \ {Pick(s)}) = Cardinality(s) - 1
         /\ Cardinality(s) \in Nat /\ Cardinality(s \ {Pick(s)}) \in Nat
  <1>1. Pick(s) \in s
    BY DEF Pick
  <1> QED BY <1>1, FS_RemoveElement, FS_CardinalityType

\* There is such a function, whatever the size.
LEMMA SumsExist ==
  ASSUME NEW f, IsFiniteSet(DOMAIN f), NEW n \in Nat
  PROVE  \E iter : SumsSoFar(f, n, iter)
  <1> DEFINE Bad == {m \in Nat : ~\E iter : SumsSoFar(f, m, iter)}
  <1> SUFFICES ASSUME Bad # {} PROVE FALSE
    OBVIOUS
  <1>1. PICK m \in Bad : \A k \in Bad : m <= k
    BY LeastNumber
  <1>2. \A s \in SUBSET DOMAIN f : IsFiniteSet(s) /\ Cardinality(s) \in Nat
    BY FS_Subset, FS_CardinalityType
  <1>3. CASE m = 0
    <2> DEFINE none == [s \in UpToSize(f, 0) |-> 0]
    <2>1. \A s \in UpToSize(f, 0) : s = {}
      BY <1>2, FS_EmptySet DEF UpToSize
    <2>2. SumsSoFar(f, 0, none)
      BY <2>1 DEF SumsSoFar
    <2> QED BY <1>3, <2>2
  <1>4. CASE m # 0
    <2>1. m - 1 \in Nat /\ m - 1 \notin Bad
      BY <1>1, <1>4
    <2>2. PICK iter : SumsSoFar(f, m - 1, iter)
      BY <2>1
    <2> DEFINE more == [s \in UpToSize(f, m) |-> IF s = {} THEN 0 ELSE f[Pick(s)] + iter[s \ {Pick(s)}]]
    <2>3. ASSUME NEW s \in UpToSize(f, m), s # {}
          PROVE  more[s \ {Pick(s)}] = iter[s \ {Pick(s)}]
      <3> DEFINE rest == s \ {Pick(s)}
      <3>1. rest \in UpToSize(f, m - 1) /\ rest \in UpToSize(f, m)
        BY <1>2, <2>1, <2>3, PickIsIn DEF UpToSize
      <3> HIDE DEF rest
      <3>2. iter[rest] = IF rest = {} THEN 0 ELSE f[Pick(rest)] + iter[rest \ {Pick(rest)}]
        BY <2>2, <3>1 DEF SumsSoFar
      <3>3. more[rest] = IF rest = {} THEN 0 ELSE f[Pick(rest)] + iter[rest \ {Pick(rest)}]
        BY <3>1
      <3> QED BY <3>2, <3>3 DEF rest
    <2>4. more = [s \in UpToSize(f, m) |-> IF s = {} THEN 0 ELSE f[Pick(s)] + more[s \ {Pick(s)}]]
      BY <2>3
    <2>5. SumsSoFar(f, m, more)
      BY <2>4 DEF SumsSoFar
    <2> QED BY <2>5
  <1> QED BY <1>3, <1>4

LEMMA SumsAre ==
  ASSUME NEW f, IsFiniteSet(DOMAIN f)
  PROVE  Sums(f) = [s \in SUBSET DOMAIN f |->
                      IF s = {} THEN 0 ELSE f[Pick(s)] + Sums(f)[s \ {Pick(s)}]]
  <1> DEFINE n == Cardinality(DOMAIN f)
  <1>1. n \in Nat /\ UpToSize(f, n) = SUBSET DOMAIN f
    BY FS_Subset, FS_CardinalityType DEF UpToSize
  <1>2. PICK iter : SumsSoFar(f, n, iter)
    BY <1>1, SumsExist
  <1>3. iter = [s \in SUBSET DOMAIN f |-> IF s = {} THEN 0 ELSE f[Pick(s)] + iter[s \ {Pick(s)}]]
    BY <1>1, <1>2 DEF SumsSoFar
  <1> QED BY <1>3 DEF Sums

\* The fold's recursion: one element's value, and the sum of the others.
LEMMA SumStep ==
  ASSUME NEW f, IsFiniteSet(DOMAIN f), NEW s \in SUBSET DOMAIN f
  PROVE  IF s = {} THEN Sums(f)[s] = 0
         ELSE Sums(f)[s] = f[Pick(s)] + Sums(f)[s \ {Pick(s)}]
  BY SumsAre

\* The sum of elements of a set that is closed under addition is one of them.
LEMMA SumsStayIn ==
  ASSUME NEW S, 0 \in S, \A x, y \in S : x + y \in S,
         NEW f, IsFiniteSet(DOMAIN f), f \in [DOMAIN f -> S]
  PROVE  \A s \in SUBSET DOMAIN f : Sums(f)[s] \in S
  <1> DEFINE Bad == {n \in Nat : \E s \in SUBSET DOMAIN f : Cardinality(s) = n /\ Sums(f)[s] \notin S}
  <1>1. \A s \in SUBSET DOMAIN f : IsFiniteSet(s) /\ Cardinality(s) \in Nat
    BY FS_Subset, FS_CardinalityType
  <1>2. ASSUME Bad # {} PROVE FALSE
    <2>1. PICK n \in Bad : \A m \in Bad : n <= m
      BY <1>2, LeastNumber
    <2>2. PICK s \in SUBSET DOMAIN f : Cardinality(s) = n /\ Sums(f)[s] \notin S
      OBVIOUS
    <2>3. s # {} /\ Sums(f)[s] = f[Pick(s)] + Sums(f)[s \ {Pick(s)}]
      BY <2>2, SumStep
    <2>4. /\ Pick(s) \in s /\ Cardinality(s \ {Pick(s)}) = n - 1
          /\ Cardinality(s \ {Pick(s)}) \in Nat
      BY <1>1, <2>2, <2>3, PickIsIn
    <2>5. Sums(f)[s \ {Pick(s)}] \notin S
      <3>1. f[Pick(s)] \in S
        BY <2>4
      <3> QED BY <2>2, <2>3, <3>1
    <2>6. n - 1 \in Bad
      BY <2>4, <2>5
    <2> QED BY <2>1, <2>6
  <1>3. QED
    BY <1>1, <1>2

\* A sum of ones counts.
LEMMA SumsOfOnes ==
  ASSUME NEW D, IsFiniteSet(D)
  PROVE  Sums([x \in D |-> 1])[D] = Cardinality(D)
  <1> DEFINE f == [x \in D |-> 1]
             Bad == {n \in Nat : \E s \in SUBSET D : Cardinality(s) = n /\ Sums(f)[s] # n}
  <1>1. \A s \in SUBSET D : IsFiniteSet(s) /\ Cardinality(s) \in Nat
    BY FS_Subset, FS_CardinalityType
  <1>2. DOMAIN f = D /\ \A x \in D : f[x] = 1
    OBVIOUS
  <1> HIDE DEF f
  <1>3. ASSUME Bad # {} PROVE FALSE
    <2>1. PICK n \in Bad : \A m \in Bad : n <= m
      BY <1>3, LeastNumber
    <2>2. PICK s \in SUBSET D : Cardinality(s) = n /\ Sums(f)[s] # n
      OBVIOUS
    <2>3. s # {}
      BY <1>2, <2>2, SumStep, FS_EmptySet
    <2>4. /\ Pick(s) \in s /\ Cardinality(s \ {Pick(s)}) = n - 1
          /\ Cardinality(s \ {Pick(s)}) \in Nat
      BY <1>1, <2>2, <2>3, PickIsIn
    <2>5. Sums(f)[s] = 1 + Sums(f)[s \ {Pick(s)}]
      BY <1>2, <2>3, <2>4, SumStep
    <2>6. Sums(f)[s \ {Pick(s)}] # n - 1
      BY <2>2, <2>5
    <2>7. n - 1 \in Bad
      BY <2>4, <2>6
    <2> QED BY <2>1, <2>7
  <1>4. Cardinality(D) \in Nat /\ D \in SUBSET D
    BY <1>1
  <1> QED BY <1>3, <1>4 DEF f

\* Sets of so many elements each have no more elements together than these add up to.
LEMMA UnionIsBounded ==
  ASSUME NEW f, IsFiniteSet(DOMAIN f), f \in [DOMAIN f -> Nat], NEW k \in Nat, NEW parts,
         \A x \in DOMAIN f : IsFiniteSet(parts[x]) /\ Cardinality(parts[x]) <= f[x] * k
  PROVE  LET all == UNION {parts[x] : x \in DOMAIN f} IN
         IsFiniteSet(all) /\ Cardinality(all) <= Sums(f)[DOMAIN f] * k
  <1> DEFINE Together(s) == UNION {parts[x] : x \in s}
             Fits(s) == IsFiniteSet(Together(s)) /\ Cardinality(Together(s)) <= Sums(f)[s] * k
             Bad == {n \in Nat : \E s \in SUBSET DOMAIN f : Cardinality(s) = n /\ ~Fits(s)}
  <1>1. \A s \in SUBSET DOMAIN f : IsFiniteSet(s) /\ Cardinality(s) \in Nat
    BY FS_Subset, FS_CardinalityType
  <1>2. \A s \in SUBSET DOMAIN f : Sums(f)[s] \in Nat
    <2>1. 0 \in Nat /\ \A x, y \in Nat : x + y \in Nat
      OBVIOUS
    <2> QED BY <2>1, SumsStayIn
  <1>3. ASSUME Bad # {} PROVE FALSE
    <2>1. PICK n \in Bad : \A m \in Bad : n <= m
      BY <1>3, LeastNumber
    <2>2. PICK s \in SUBSET DOMAIN f : Cardinality(s) = n /\ ~Fits(s)
      OBVIOUS
    <2>3. ASSUME s = {} PROVE FALSE
      <3>1. Together(s) = {}
        BY <2>3
      <3>2. Sums(f)[s] = 0
        BY <2>3, SumStep
      <3>3. IsFiniteSet({}) /\ Cardinality({}) = 0 /\ 0 <= 0 * k
        BY FS_EmptySet
      <3> HIDE DEF Together
      <3> QED BY <2>2, <3>1, <3>2, <3>3
    <2> DEFINE p == Pick(s)
               rest == s \ {p}
    <2>4. p \in s /\ Cardinality(rest) = n - 1 /\ Cardinality(rest) \in Nat
      BY <1>1, <2>2, <2>3, PickIsIn
    <2>5. Sums(f)[s] = f[p] + Sums(f)[rest]
      BY <2>3, SumStep
    <2>6. Together(s) = parts[p] \union Together(rest)
      BY <2>4
    <2>7. rest \in SUBSET DOMAIN f
      OBVIOUS
    <2> HIDE DEF p, rest, Together
    <2>8. Fits(rest)
      <3> HIDE DEF Fits
      <3> QED BY <2>1, <2>4, <2>7
    <2>9. /\ IsFiniteSet(parts[p]) /\ Cardinality(parts[p]) \in Nat /\ Cardinality(parts[p]) <= f[p] * k
          /\ IsFiniteSet(Together(rest)) /\ Cardinality(Together(rest)) \in Nat
          /\ Cardinality(Together(rest)) <= Sums(f)[rest] * k
          /\ f[p] \in Nat /\ Sums(f)[rest] \in Nat
      BY <1>2, <2>4, <2>7, <2>8, FS_CardinalityType
    <2>10. /\ IsFiniteSet(Together(s))
           /\ Cardinality(Together(s)) <= Cardinality(parts[p]) + Cardinality(Together(rest))
      <3> DEFINE both == parts[p] \cap Together(rest)
      <3>1. Cardinality(both) \in Nat
        BY <2>9, FS_Intersection, FS_CardinalityType
      <3>2. /\ IsFiniteSet(Together(s))
            /\ Cardinality(Together(s)) =
                 Cardinality(parts[p]) + Cardinality(Together(rest)) - Cardinality(both)
        BY <2>6, <2>9, FS_Union
      <3> HIDE DEF both
      <3> QED BY <2>9, <3>1, <3>2
    <2>11. (f[p] + Sums(f)[rest]) * k = f[p] * k + Sums(f)[rest] * k
      BY <2>9
    <2>12. /\ Cardinality(Together(s)) \in Nat /\ f[p] * k \in Nat /\ Sums(f)[rest] * k \in Nat
      BY <2>9, <2>10, FS_CardinalityType
    <2>13. Cardinality(Together(s)) <= Sums(f)[s] * k
      BY <2>5, <2>9, <2>10, <2>11, <2>12
    <2> QED BY <2>2, <2>10, <2>13
  <1>4. Fits(DOMAIN f)
    <2> HIDE DEF Fits
    <2> QED BY <1>1, <1>3
  <1> QED BY <1>4

-------------------------------------------------------------------------------
\* Finite sets.

LEMMA MaxIsIn ==
  ASSUME NEW S \in SUBSET Int, IsFiniteSet(S), S # {}
  PROVE  Max(S) \in S /\ \A j \in S : Max(S) >= j
  <1> DEFINE Has(T) == \E i \in T : \A j \in T : i >= j
             Bad == {n \in Nat : \E T \in SUBSET S : Cardinality(T) = n /\ T # {} /\ ~Has(T)}
  <1>1. \A T \in SUBSET S : IsFiniteSet(T) /\ Cardinality(T) \in Nat
    BY FS_Subset, FS_CardinalityType
  <1>2. ASSUME Bad # {} PROVE FALSE
    <2>1. PICK n \in Bad : \A m \in Bad : n <= m
      BY <1>2, LeastNumber
    <2>2. PICK T \in SUBSET S : Cardinality(T) = n /\ T # {} /\ ~Has(T)
      OBVIOUS
    <2>3. PICK x \in T : TRUE
      BY <2>2
    <2> DEFINE rest == T \ {x}
    <2>4. rest # {}
      BY <2>2, <2>3
    <2>5. rest \in SUBSET S /\ Cardinality(rest) = n - 1 /\ n - 1 \in Nat
      BY <1>1, <2>2, <2>3, FS_RemoveElement
    <2>6. Has(rest)
      <3> HIDE DEF Has, rest
      <3> QED BY <2>1, <2>4, <2>5
    <2>7. PICK i \in rest : \A j \in rest : i >= j
      BY <2>6
    <2>8. x \in Int /\ i \in Int
      OBVIOUS
    <2>9. Has(T)
      BY <2>7, <2>8
    <2> QED BY <2>2, <2>9
  <1>3. Has(S)
    <2> HIDE DEF Has
    <2> QED BY <1>1, <1>2
  <1> QED BY <1>3 DEF Max

LEMMA ImageIsFinite ==
  ASSUME NEW f, IsFiniteSet(DOMAIN f)
  PROVE  IsFiniteSet({f[k] : k \in DOMAIN f})
  <1> DEFINE T == {f[k] : k \in DOMAIN f}
             g == [k \in DOMAIN f |-> f[k]]
  <1>1. g \in Surjection(DOMAIN f, T)
    BY DEF Surjection
  <1> QED BY <1>1, FS_Surjection
===============================================================================
