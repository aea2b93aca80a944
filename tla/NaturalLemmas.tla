---------------------------- MODULE NaturalLemmas ----------------------------
(***************************************************************************)
(* A fact about natural numbers that the proofs about batches and about    *)
(* the supervisor of runs need.                                            *)
(***************************************************************************)
EXTENDS Naturals, TLAPS, WellFoundedInduction

\* A set of natural numbers has a smallest element.
LEMMA HasLeast ==
  ASSUME NEW S \in SUBSET Nat, S # {}
  PROVE  \E x \in S : \A y \in S : x <= y
<1>1. PICK x \in S : \A y \in S : <<y, x>> \notin OpToRel(<, Nat)
  BY NatLessThanWellFounded, WFMin
<1>2. \A y \in S : ~(y < x)
  BY <1>1 DEF OpToRel
<1> QED
  BY <1>2
=============================================================================
