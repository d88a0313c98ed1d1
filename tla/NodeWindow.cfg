CONSTANTS
    me = me
    other = other
    byz = byz
    Me = me
    Validator <- MCValidator
    Faulty <- MCFaulty
    WeightOf <- MCWeightOf
    Slot <- MCSlot
    Candidate <- Fork
    Genesis <- MCGenesis
    slotOf <- MCSlotOf
    parent <- MCParent
    slots_per_leader_window = 2
    max_leader_window_desync = 3
    LastSlot = 1
    MAX_HISTORY_SLOTS = 1
    DirectVoters = {me, other}
    CertSigners = {}
SPECIFICATION NodeSpec
CHECK_DEADLOCK FALSE
INVARIANTS
    NodeTypeOK
    NeverPanics
    FsmIsSound
PROPERTIES
    VotingRules
