------------------------------- MODULE MCNode -------------------------------
(* Small sessions for SimplexNode: one validator running the FSM (weight 2), *)
(* one other honest validator (3) and one faulty validator (2); a quorum     *)
(* weighs 5.                                                                 *)
EXTENDS SimplexInvariant

CONSTANTS me, other, byz

MCValidator == {me, other, byz}
MCFaulty == {byz}

MCWeightOf(V) ==
    (IF me \in V THEN 2 ELSE 0) + (IF other \in V THEN 3 ELSE 0) + (IF byz \in V THEN 2 ELSE 0)

MCGenesis == <<-1, 0>>

\* Rival candidates of slot 0; in slot 1 a successor of a0 and a block over
\* slot 0, which overtakes a0 when slot 0 is both notarized and skipped.
a0 == <<0, 1>>
b0 == <<0, 2>>
a1 == <<1, 1>>
g1 == <<1, 2>>

Rivals == {a0, b0}
Fork == {a0, a1, g1}
Overtaken == {a0, g1}

MCSlotOf == [c \in Candidate |-> c[1]]
MCParent == [c \in Candidate |-> IF c = a1 THEN a0 ELSE MCGenesis]
MCSlot == 0 .. LastSlot

MCAllSigners == Quorum
MCOthersSign == {{other, byz}}
=============================================================================
