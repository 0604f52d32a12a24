SPECIFICATION Spec
CONSTANTS
    NPools = 1
    SessQueueSize = 2
    AsicQueueSize = 3
    LowWater = 2
    NSlots = 1
    MaxGen = 2
    MaxNotifies = 0
    MaxRetries = 0
    FailoverChoices = {TRUE}
    Events = {"network", "drop", "nonce"}
INVARIANTS
    TypeOK
    ExtranonceNotOlderThanNotify
    HandleOutlivesWrite
    ShareUnderAuthorizedWorker
    SurvivorsWereInHand
    EnqueueNeverBlocks
PROPERTIES
    FlagEndsItsOwnSession
