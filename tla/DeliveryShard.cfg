CONSTANTS
    Slot = {0, 1, 2, 3}
    Candidate <- Repeated
    Genesis <- MCGenesis
    slotOf <- MCSlotOf
    parent <- MCParent
    isEmpty <- MCIsEmpty
    Tip <- e2
    IsMasterchain = FALSE
    MAX_HISTORY_SLOTS = 2
    FailingWrites <- OneWrite
    MaySkip = {1, 3}
    Disks <- OneMissing
SPECIFICATION DeliverySpec
INVARIANTS DeliveryTypeOK AtMostOnce NoPanic SignaturesMatch CompleteMeansDelivered CursorsAgree
