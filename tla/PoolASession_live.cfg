SPECIFICATION FairSpec
CONSTANTS
    QueueSize = 1
    LowWater = 1
    MAX_RETRY_ATTEMPTS = 1
    HasFallback = TRUE
    MaxSessions = 1
    MaxGen = 1
    ReachableChoices = {{}, {0}, {1}, {0, 1}}
PROPERTIES
    HeldWorkLetGo
    ReachableEndpointServes
