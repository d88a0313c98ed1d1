CONSTANTS
    Slot = {0, 1, 2, 3}
    Candidate <- Blocks
    Genesis <- MCGenesis
    slotOf <- MCSlotOf
    parent <- MCParent
    isEmpty <- MCIsEmpty
    Tip <- b1
    IsMasterchain = FALSE
    MAX_HISTORY_SLOTS = 8
    FailingWrites <- FirstWrite
    MaySkip = {0}
    Disks <- DatabaseContents
SPECIFICATION FairDeliverySpec
PROPERTIES WholeAnswersAreTaken DeliveredUnlessStranded
