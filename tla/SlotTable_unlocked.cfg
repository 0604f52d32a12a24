SPECIFICATION SlotSpec
CONSTANTS
    Slots = 2
    MaxJobs = 5
INVARIANTS
    NothingReachesDisplaced
