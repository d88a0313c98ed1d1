CONSTANTS
    Slot = {0, 1, 2, 3}
    Candidate <- Blocks
    Genesis <- MCGenesis
    slotOf <- MCSlotOf
    parent <- MCParent
    isEmpty <- MCIsEmpty
    Tip <- b1
    IsMasterchain = TRUE
    MAX_HISTORY_SLOTS = 2
    FailingWrites <- OneWrite
    MaySkip = {1, 2}
    Disks <- DatabaseContents
SPECIFICATION DeliverySpec
INVARIANTS SignaturesMatch CompleteMeansDelivered CursorsAgree
