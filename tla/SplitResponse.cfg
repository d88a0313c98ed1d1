CONSTANTS
    Slot = {0, 1, 2, 3}
    Candidate <- Repeated
    Genesis <- MCGenesis
    slotOf <- MCSlotOf
    parent <- MCParent
    isEmpty <- MCIsEmpty
    Tip <- e2
    IsMasterchain = FALSE
    MAX_HISTORY_SLOTS = 2
    FailingWrites <- NoWrites
    MaySkip = {}
    Disks <- NewSession
SPECIFICATION DeliverySpec
INVARIANT RepairReachesBook
