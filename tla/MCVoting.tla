------------------------------ MODULE MCVoting ------------------------------
(***************************************************************************)
(* A small session for SimplexVoting: three honest validators and a faulty *)
(* one of equal weight, rival candidates in a slot, and a candidate that   *)
(* is built over a skipped slot.  A candidate id is a slot and a hash.     *)
(***************************************************************************)
EXTENDS SimplexVoting, FiniteSets, TLC

CONSTANTS v1, v2, v3, v4

MCWeightOf(S) == Cardinality(S)

MCGenesis == <<-1, 0>>

a0 == <<0, 1>>
a1 == <<1, 1>>
g1 == <<1, 2>>
h2 == <<2, 1>>

MCCandidate == {a0, a1, g1, h2}

MCSlotOf == [c \in Candidate |-> c[1]]

\* a1 extends a0, its rival g1 extends genesis over slot 0, h2 extends g1.
MCParent == [c \in Candidate |-> IF c = a1 THEN a0 ELSE IF c = h2 THEN g1 ELSE MCGenesis]

MCSymmetry == Permutations({v1, v2, v3})
=============================================================================
