-------------------------- MODULE SimplexCandidates --------------------------
(***************************************************************************)
(* The block candidates that may appear in a Simplex session: the slot and *)
(* the parent that each names (RawCandidateId, CandidateParent in          *)
(* node/simplex/src/block.rs).                                             *)
(***************************************************************************)
EXTENDS Integers

CONSTANTS
    Slot,        \* slot numbers in use
    Candidate,   \* block candidates, named by their candidate id
    Genesis,     \* the absent parent (CandidateParent = None)
    slotOf,      \* the slot each candidate was produced for
    parent       \* the parent each candidate names

\* Genesis sits below slot 0.
SlotOf(c) == IF c = Genesis THEN -1 ELSE slotOf[c]

ASSUME CandidateAssumption ==
    /\ Slot \subseteq Nat
    /\ Genesis \notin Candidate
    /\ slotOf \in [Candidate -> Slot]
    /\ parent \in [Candidate -> Candidate \cup {Genesis}]
    /\ \A c \in Candidate : SlotOf(parent[c]) < slotOf[c]
=============================================================================
