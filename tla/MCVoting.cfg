CONSTANTS
    v1 = v1
    v2 = v2
    v3 = v3
    v4 = v4
    Validator = {v1, v2, v3, v4}
    Faulty = {v4}
    WeightOf <- MCWeightOf
    Slot = {0, 1, 2}
    Candidate <- MCCandidate
    Genesis <- MCGenesis
    slotOf <- MCSlotOf
    parent <- MCParent
SPECIFICATION VotingSpec
SYMMETRY MCSymmetry
CHECK_DEADLOCK FALSE
INVARIANTS
    VotingTypeOK
    UniqueNotarization
    NoFinalAndSkip
    FinalizedIsKept
    Consistency
