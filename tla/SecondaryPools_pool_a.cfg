SPECIFICATION Spec
CONSTANTS
    NPools = 1
    SessQueueSize = 2
    AsicQueueSize = 3
    LowWater = 2
    NSlots = 1
    MaxGen = 2
    MaxNotifies = 2
    MaxRetries = 0
    FailoverChoices = {FALSE}
    Events = {"poolA"}
INVARIANTS
    PoolJobsInOrder
PROPERTIES
    CleanSparesOtherPools
