---------------------------- MODULE NodesProofs ----------------------------
(***************************************************************************)
(* Lemmas about the linked lists, for the proofs about the programs that     *)
(* keep one.                                                                *)
(***************************************************************************)
EXTENDS Nodes, FiniteSetTheorems, WellFoundedInduction, TLAPS

(* A nonempty set of naturals has a least element.                           *)
LEMMA LeastExists ==
    ASSUME NEW T, T \subseteq Nat, T # {}
    PROVE  \E x \in T : \A y \in T : x <= y
<1> DEFINE R == OpToRel(<, Nat)
<1>1. IsWellFoundedOn(R, Nat)
  BY NatLessThanWellFounded
<1>2. PICK x \in T : \A y \in T : <<y, x>> \notin R
  BY <1>1, WFMin
<1>3. \A y \in T : x <= y
  <2> TAKE y \in T
  <2>1. ~ (y < x)
    BY <1>2 DEF OpToRel
  <2> QED
    BY <2>1
<1> QED
  BY <1>3

(* A finite list that is not empty has a node in front of all others, which   *)
(* is the one that fewest nodes are in front of.                              *)
LEMMA FirstProperties ==
    ASSUME NEW L, IsFiniteSet(L), L # {}, \A n \in L : n.id \in Int
    PROVE  First(L) \in L /\ \A m \in L : m.id <= First(L).id
<1> DEFINE front(n) == {m \in L : m.id > n.id}
<1>1. \A n \in L : IsFiniteSet(front(n)) /\ Cardinality(front(n)) \in Nat
  BY FS_Subset, FS_CardinalityType
<1>2. PICK n \in L : \A k \in L : Cardinality(front(n)) <= Cardinality(front(k))
  <2> DEFINE T == {Cardinality(front(k)) : k \in L}
  <2>1. T \subseteq Nat /\ T # {}
    BY <1>1
  <2>2. PICK x \in T : \A y \in T : x <= y
    BY <2>1, LeastExists
  <2> QED
    BY <2>2
<1>3. ASSUME NEW m \in L, ~ (m.id <= n.id)
      PROVE  FALSE
  <2>1. m.id > n.id
    BY <1>3
  <2>2. front(m) \subseteq front(n)
    BY <2>1
  <2>3. m \in front(n) /\ m \notin front(m)
    BY <2>1
  <2> HIDE DEF front
  <2>4. Cardinality(front(m)) < Cardinality(front(n))
    BY <1>1, <2>2, <2>3, FS_Subset
  <2> QED
    BY <1>1, <1>2, <2>4
<1> QED
  BY <1>3 DEF First

(* The id of a new node is above those of the list.                           *)
LEMMA FrontIdProperties ==
    ASSUME NEW L, IsFiniteSet(L), \A n \in L : n.id \in Nat
    PROVE  FrontId(L) \in Nat /\ \A n \in L : n.id < FrontId(L)
<1>1. CASE L = {}
  BY <1>1 DEF FrontId
<1>2. CASE L # {}
  <2>1. First(L) \in L /\ \A m \in L : m.id <= First(L).id
    BY <1>2, FirstProperties
  <2> QED
    BY <1>2, <2>1 DEF FrontId
<1> QED
  BY <1>1, <1>2

(* A list with a node replaced is not longer, and has the other nodes.        *)
LEMMA ReplaceProperties ==
    ASSUME NEW L, IsFiniteSet(L), NEW n, NEW m
    PROVE  /\ IsFiniteSet(Replace(L, n, m))
           /\ Cardinality(Replace(L, n, m)) <= Cardinality(L)
           /\ \A k \in Replace(L, n, m) : k \in L \/ k = m
           /\ \A k \in L : (IF k = n THEN m ELSE k) \in Replace(L, n, m)
<1> DEFINE f == [k \in L |-> IF k = n THEN m ELSE k]
           I == {f[k] : k \in L}
<1>1. Replace(L, n, m) = I
  BY DEF Replace
<1>2. IsFiniteSet(I) /\ Cardinality(I) <= Cardinality(L)
  <2>1. f \in Surjection(L, I)
    BY DEF Surjection
  <2> HIDE DEF f, I
  <2> QED
    BY <2>1, FS_Surjection
<1>3. /\ \A k \in I : k \in L \/ k = m
      /\ \A k \in L : (IF k = n THEN m ELSE k) \in I
  OBVIOUS
<1> QED
  BY <1>1, <1>2, <1>3

=============================================================================
