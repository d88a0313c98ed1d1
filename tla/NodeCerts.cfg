CONSTANTS
    me = me
    other = other
    byz = byz
    Me = me
    Validator <- MCValidator
    Faulty <- MCFaulty
    WeightOf <- MCWeightOf
    Slot <- MCSlot
    Candidate <- Overtaken
    Genesis <- MCGenesis
    slotOf <- MCSlotOf
    parent <- MCParent
    slots_per_leader_window = 1
    max_leader_window_desync = 3
    LastSlot = 2
    MAX_HISTORY_SLOTS = 1
    DirectVoters = {}
    CertSigners <- MCOthersSign
SPECIFICATION NodeSpec
CHECK_DEADLOCK FALSE
INVARIANTS
    SkipIndexExact
    CursorBase
    CertificatesTakeEffect
    FsmIsSound
PROPERTIES
    NothingIsUndone
