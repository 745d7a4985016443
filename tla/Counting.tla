------------------------------ MODULE Counting ------------------------------
(***************************************************************************)
(* Counting the elements of a finite set while one of them comes or goes:  *)
(* the proofs use it to count processes by where their control is.  And    *)
(* the least of some numbers.                                              *)
(***************************************************************************)
EXTENDS Integers, FiniteSets, FiniteSetTheorems, WellFoundedInduction, TLAPS

\* 1 if e is in S.
In(e, S) == IF e \in S THEN 1 ELSE 0

\* Two finite sets that differ at most in p.
LEMMA CountMove ==
    ASSUME NEW A, NEW B, IsFiniteSet(A), NEW p, A \ {p} = B \ {p}
    PROVE  /\ Cardinality(A) \in Nat
           /\ Cardinality(B) = Cardinality(A) + In(p, B) - In(p, A)
<1> DEFINE R == A \ {p}
<1>1. IsFiniteSet(R)
    BY FS_Subset
<1>2. /\ p \in A => A = R \cup {p}
      /\ p \notin A => A = R
      /\ p \in B => B = R \cup {p}
      /\ p \notin B => B = R
      /\ p \notin R
    OBVIOUS
<1>3. Cardinality(R) \in Nat /\ Cardinality(R \cup {p}) = Cardinality(R) + 1
    BY <1>1, <1>2, FS_AddElement, FS_CardinalityType
<1> HIDE DEF R
<1>4. /\ p \in A => Cardinality(A) = Cardinality(R \cup {p})
      /\ p \notin A => Cardinality(A) = Cardinality(R)
      /\ p \in B => Cardinality(B) = Cardinality(R \cup {p})
      /\ p \notin B => Cardinality(B) = Cardinality(R)
    BY <1>2, Zenon
<1>5. /\ Cardinality(A) = Cardinality(R) + In(p, A)
      /\ Cardinality(B) = Cardinality(R) + In(p, B)
    BY <1>3, <1>4 DEF In
<1>6. In(p, A) \in {0, 1} /\ In(p, B) \in {0, 1}
    BY DEF In
<1>7. QED
    BY <1>3, <1>5, <1>6

\* A set of numbers that is not empty has a least one.
LEMMA LeastOf ==
    ASSUME NEW N \in SUBSET Nat, N # {}
    PROVE  \E n \in N : \A k \in N : n <= k
<1>1. PICK n \in N : \A k \in N : ~(<<k, n>> \in OpToRel(<, Nat))
    BY NatLessThanWellFounded, WFMin
<1>2. ASSUME NEW k \in N PROVE n <= k
  <2>1. ~(k < n)
    BY <1>1 DEF OpToRel
  <2>2. QED
    BY <2>1
<1>3. QED
    BY <1>2
=============================================================================
