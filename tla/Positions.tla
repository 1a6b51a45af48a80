------------------------------ MODULE Positions ------------------------------
(***************************************************************************)
(* Lemmas about order that several components' proofs need: first and last *)
(* positions, what holds of all positions, and the places of an order.     *)
(***************************************************************************)
EXTENDS Naturals, FiniteSets, FiniteSetTheorems, WellFoundedInduction, TLAPS

(* A set of positions has a first and, in a sequence, a last one.          *)
LEMMA FirstPosition ==
  ASSUME NEW S \in SUBSET Nat, S # {}
  PROVE  \E i \in S : \A j \in S : i <= j
<1> DEFINE Below(i) == 0..i
           Starts == {Below(i) : i \in S}
<1>1. Starts \subseteq FiniteSubsetsOf(Nat)
  <2>1. ASSUME NEW i \in S
        PROVE  Below(i) \in SUBSET Nat /\ IsFiniteSet(Below(i))
    BY FS_Interval
  <2> HIDE DEF Below
  <2> QED
    BY <2>1 DEF FiniteSubsetsOf
<1>2. PICK B \in Starts : \A C \in Starts : ~(<<C, B>> \in StrictSubsetOrdering(Nat))
  <2>1. IsWellFoundedOn(StrictSubsetOrdering(Nat), FiniteSubsetsOf(Nat))
    BY FS_StrictSubsetOrderingWellFounded
  <2>2. Starts # {}
    OBVIOUS
  <2> HIDE DEF Starts
  <2> QED
    BY <1>1, <2>1, <2>2, WFMin
<1>3. PICK i \in S : B = Below(i)
  OBVIOUS
<1>4. ASSUME NEW j \in S, j < i
      PROVE  FALSE
  <2>1. Below(j) \subseteq Below(i) /\ i \in Below(i) /\ i \notin Below(j) /\ Below(i) \subseteq Nat
    BY <1>4
  <2> HIDE DEF Below
  <2>2. Below(j) \in SUBSET Nat /\ Below(i) \in SUBSET Nat
        /\ Below(j) \subseteq Below(i) /\ Below(j) # Below(i)
    BY <2>1
  <2>3. <<Below(j), Below(i)>> \in StrictSubsetOrdering(Nat)
    BY <2>2 DEF StrictSubsetOrdering
  <2> QED
    BY <1>2, <1>3, <2>3
<1> QED
  BY <1>4

(* A set of positions that is not empty has a last one.                    *)
LEMMA LastPosition ==
  ASSUME NEW n \in Nat, NEW S \in SUBSET (1..n), S # {}
  PROVE  \E i \in S : \A j \in S : j <= i
<1> DEFINE M == {n - i : i \in S}
<1>1. M \in SUBSET Nat /\ M # {}
  <2>1. \A i \in S : n - i \in Nat
    OBVIOUS
  <2> QED
    BY <2>1
<1>2. PICK m \in M : \A k \in M : m <= k
  <2> HIDE DEF M
  <2> QED
    BY <1>1, FirstPosition
<1>3. PICK i \in S : m = n - i
  OBVIOUS
<1>4. \A j \in S : n - i <= n - j
  BY <1>2, <1>3
<1> QED
  BY <1>4

(* What holds of 0 and passes from each number to the next holds of all of *)
(* them: the minimal counterexample would follow one that is none.         *)
LEMMA Upwards ==
  ASSUME NEW n \in Nat, NEW S, 0 \in S, \A k \in 0..n : k \in S /\ k < n => k + 1 \in S
  PROVE  \A k \in 0..n : k \in S
<1> SUFFICES ASSUME NEW l \in 0..n, l \notin S PROVE FALSE
  OBVIOUS
<1> DEFINE T == {k \in 0..n : k \notin S}
<1>1. T \in SUBSET Nat /\ T # {}
  OBVIOUS
<1>2. PICK m \in T : \A k \in T : m <= k
  <2> HIDE DEF T
  <2> QED
    BY <1>1, FirstPosition
<1>3. m \in Nat /\ m # 0 /\ m <= n /\ m \notin S
  OBVIOUS
<1>4. m - 1 \in 0..n /\ m - 1 \in S /\ m - 1 < n /\ (m - 1) + 1 = m
  BY <1>2, <1>3
<1> QED
  BY <1>3, <1>4

(* The elements of S that a relation puts before x.                        *)
Preceding(S, R, x) == {y \in S : <<y, x>> \in R}

(* In a strict total order of a finite set each place is taken: one        *)
(* element has none before it, one has one, and so on.                     *)
LEMMA EachPlaceTaken ==
  ASSUME NEW S, IsFiniteSet(S), NEW R,
         \A x \in S : <<x, x>> \notin R,
         \A x, y \in S : x # y => <<x, y>> \in R \/ <<y, x>> \in R,
         \A x, y, z \in S : <<x, y>> \in R /\ <<y, z>> \in R => <<x, z>> \in R
  PROVE  /\ \A x \in S : Cardinality(Preceding(S, R, x)) \in 0..(Cardinality(S) - 1)
         /\ \A x, y \in S : <<x, y>> \in R
              => Cardinality(Preceding(S, R, x)) < Cardinality(Preceding(S, R, y))
         /\ \A k \in 1..Cardinality(S) : \E x \in S : Cardinality(Preceding(S, R, x)) = k - 1
<1>1. PICK m \in Nat : m = Cardinality(S)
  BY FS_CardinalityType
<1>2. \A x \in S : IsFiniteSet(Preceding(S, R, x)) /\ Cardinality(Preceding(S, R, x)) \in Nat
  <2> SUFFICES ASSUME NEW x \in S
               PROVE  IsFiniteSet(Preceding(S, R, x)) /\ Cardinality(Preceding(S, R, x)) \in Nat
    OBVIOUS
  <2>1. Preceding(S, R, x) \in SUBSET S
    BY DEF Preceding
  <2>2. IsFiniteSet(Preceding(S, R, x))
    BY <2>1, FS_Subset
  <2> QED
    BY <2>2, FS_CardinalityType
<1>3. ASSUME NEW x \in S PROVE Cardinality(Preceding(S, R, x)) \in 0..(m - 1)
  <2>1. IsFiniteSet(S \ {x}) /\ Cardinality(S \ {x}) = m - 1
    BY <1>1, FS_RemoveElement
  <2>2. Preceding(S, R, x) \in SUBSET (S \ {x})
    BY DEF Preceding
  <2>3. Cardinality(Preceding(S, R, x)) <= Cardinality(S \ {x})
    BY <2>1, <2>2, FS_Subset
  <2> QED
    BY <1>1, <1>2, <2>1, <2>3
<1>4. ASSUME NEW x \in S, NEW y \in S, <<x, y>> \in R
      PROVE  Cardinality(Preceding(S, R, x)) < Cardinality(Preceding(S, R, y))
  <2>1. PICK A : A = Preceding(S, R, x)
    OBVIOUS
  <2>2. PICK B : B = Preceding(S, R, y)
    OBVIOUS
  <2>3. A \in SUBSET B /\ A # B
    <3>1. \A z \in A : z \in B
      BY <1>4, <2>1, <2>2 DEF Preceding
    <3>2. x \in B /\ x \notin A
      BY <1>4, <2>1, <2>2 DEF Preceding
    <3> QED
      BY <3>1, <3>2
  <2>4. IsFiniteSet(B) /\ Cardinality(A) \in Nat /\ Cardinality(B) \in Nat
    BY <1>2, <2>1, <2>2
  <2>5. Cardinality(A) <= Cardinality(B) /\ Cardinality(B) # Cardinality(A)
    BY <2>3, <2>4, FS_Subset
  <2> QED
    BY <2>1, <2>2, <2>4, <2>5
<1>5. ASSUME NEW k \in 1..m PROVE \E x \in S : Cardinality(Preceding(S, R, x)) = k - 1
  <2> SUFFICES ASSUME \A x \in S : Cardinality(Preceding(S, R, x)) # k - 1 PROVE FALSE
    OBVIOUS
  <2> DEFINE T == (0..(m - 1)) \ {k - 1}
  <2> DEFINE f == [x \in S |-> Cardinality(Preceding(S, R, x))]
  <2>1. IsFiniteSet(0..(m - 1)) /\ Cardinality(0..(m - 1)) = m
    <3>1. 0 \in Int /\ m - 1 \in Int /\ ~(0 > m - 1) /\ (m - 1) - 0 + 1 = m
      BY <1>1
    <3> QED
      BY <3>1, FS_Interval
  <2>2. k - 1 \in 0..(m - 1)
    BY <1>1
  <2>3. IsFiniteSet(T) /\ Cardinality(T) = m - 1
    <3>1. PICK I : I = 0..(m - 1)
      OBVIOUS
    <3>2. IsFiniteSet(I) /\ Cardinality(I) = m /\ k - 1 \in I
      BY <2>1, <2>2, <3>1
    <3>3. IsFiniteSet(I \ {k - 1}) /\ Cardinality(I \ {k - 1}) = Cardinality(I) - 1
      BY <3>2, FS_RemoveElement
    <3> QED
      BY <3>1, <3>2, <3>3
  <2>4. f \in [S -> T]
    BY <1>3
  <2>5. Cardinality(T) < Cardinality(S)
    BY <1>1, <2>3
  <2>6. PICK x \in S, y \in S : x # y /\ f[x] = f[y]
    <3> HIDE DEF T, f
    <3> QED
      BY <2>3, <2>4, <2>5, FS_PigeonHole
  <2>7. Cardinality(Preceding(S, R, x)) = Cardinality(Preceding(S, R, y))
    BY <2>6
  <2>8. <<x, y>> \in R \/ <<y, x>> \in R
    BY <2>6
  <2>9. Cardinality(Preceding(S, R, x)) \in Nat /\ Cardinality(Preceding(S, R, y)) \in Nat
    BY <1>2
  <2> QED
    BY <1>4, <2>7, <2>8, <2>9
<1> QED
  BY <1>1, <1>3, <1>4, <1>5

(* A list of the elements by how many are before each.                     *)
Listing(S, R, L) ==
  /\ L = [k \in 1..Cardinality(S) |-> L[k]]
  /\ \A k \in 1..Cardinality(S) :
       (\E x \in S : Cardinality(Preceding(S, R, x)) = k - 1)
         => L[k] \in S /\ Cardinality(Preceding(S, R, L[k])) = k - 1

(* Such a list of a strict total order has all of them, in its order.      *)
LEMMA Listed ==
  ASSUME NEW S, IsFiniteSet(S), NEW R,
         \A x \in S : <<x, x>> \notin R,
         \A x, y \in S : x # y => <<x, y>> \in R \/ <<y, x>> \in R,
         \A x, y, z \in S : <<x, y>> \in R /\ <<y, z>> \in R => <<x, z>> \in R,
         NEW L, Listing(S, R, L)
  PROVE  /\ Cardinality(S) \in Nat /\ L \in [1..Cardinality(S) -> S]
         /\ \A k, l \in 1..Cardinality(S) : k < l <=> <<L[k], L[l]>> \in R
         /\ \A x \in S : \E k \in 1..Cardinality(S) : L[k] = x
         /\ \A k \in 1..Cardinality(S) : Cardinality(Preceding(S, R, L[k])) = k - 1
<1> DEFINE c(x) == Cardinality(Preceding(S, R, x))
<1>1. PICK m \in Nat : m = Cardinality(S)
  BY FS_CardinalityType
<1>2. /\ \A x \in S : c(x) \in 0..(m - 1)
      /\ \A x, y \in S : <<x, y>> \in R => c(x) < c(y)
      /\ \A k \in 1..m : \E x \in S : c(x) = k - 1
  BY <1>1, EachPlaceTaken
<1>3. \A k \in 1..m : L[k] \in S /\ c(L[k]) = k - 1
  <2> SUFFICES ASSUME NEW k \in 1..m PROVE L[k] \in S /\ c(L[k]) = k - 1
    OBVIOUS
  <2>1. \E x \in S : c(x) = k - 1
    BY <1>2
  <2> QED
    BY <1>1, <2>1 DEF Listing
<1>4. L \in [1..m -> S]
  <2>1. L = [k \in 1..m |-> L[k]]
    BY <1>1 DEF Listing
  <2> HIDE DEF c
  <2> QED
    BY <1>3, <2>1
<1> HIDE DEF c
<1>5. ASSUME NEW k \in 1..m, NEW l \in 1..m PROVE k < l <=> <<L[k], L[l]>> \in R
  <2>1. L[k] \in S /\ L[l] \in S /\ c(L[k]) = k - 1 /\ c(L[l]) = l - 1
    BY <1>3
  <2>2. CASE k < l
    <3>1. c(L[k]) < c(L[l]) /\ ~(c(L[l]) < c(L[k]))
      BY <2>1, <2>2
    <3>2. L[k] # L[l]
      BY <3>1
    <3> QED
      BY <1>2, <2>1, <2>2, <3>1, <3>2
  <2>3. CASE ~(k < l)
    <3>1. ~(c(L[k]) < c(L[l]))
      BY <2>1, <2>3
    <3> QED
      BY <1>2, <2>1, <2>3, <3>1
  <2> QED
    BY <2>2, <2>3
<1>6. ASSUME NEW x \in S PROVE \E k \in 1..m : L[k] = x
  <2>1. PICK k \in 1..m : k = c(x) + 1
    BY <1>1, <1>2
  <2>2. L[k] \in S /\ c(L[k]) = c(x)
    BY <1>2, <1>3, <2>1
  <2>3. ~(c(L[k]) < c(x)) /\ ~(c(x) < c(L[k]))
    BY <1>2, <2>2
  <2>4. L[k] = x
    BY <1>2, <2>2, <2>3
  <2> QED
    BY <2>4
<1> QED
  BY <1>1, <1>3, <1>4, <1>5, <1>6 DEF c
=============================================================================
