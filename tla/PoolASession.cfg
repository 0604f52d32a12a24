SPECIFICATION Spec
CONSTANTS
    QueueSize = 1
    LowWater = 1
    MAX_RETRY_ATTEMPTS = 1
    HasFallback = TRUE
    MaxSessions = 2
    MaxGen = 2
    ReachableChoices = {{0, 1}, {1}}
INVARIANTS
    TypeOK
    CleanedWorkWasInHand
    ShareUnderAuthorizedWorker
PROPERTIES
    LiveNotifyNotDiscarded
