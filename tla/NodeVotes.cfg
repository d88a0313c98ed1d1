CONSTANTS
    me = me
    other = other
    byz = byz
    Me = me
    Validator <- MCValidator
    Faulty <- MCFaulty
    WeightOf <- MCWeightOf
    Slot <- MCSlot
    Candidate <- Rivals
    Genesis <- MCGenesis
    slotOf <- MCSlotOf
    parent <- MCParent
    slots_per_leader_window = 1
    max_leader_window_desync = 2
    LastSlot = 0
    MAX_HISTORY_SLOTS = 1
    DirectVoters = {me, other, byz}
    CertSigners <- MCAllSigners
SPECIFICATION NodeSpec
CHECK_DEADLOCK FALSE
INVARIANTS
    check_invariants
    WeightsMatchVotes
    HonestNotAccused
PROPERTIES
    VotingRules
