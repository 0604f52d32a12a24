SPECIFICATION FairSpec
CONSTANTS
    NPools = 3
    ConnectTimeout = 5
    MaxOverhead = 1
    IdleDelay = 2
    RetryDelay = 5
    MaxRetries = 1
    FailoverChoices = {TRUE, FALSE}
    Hosts <- AnyHosts
INVARIANTS
    StallBounded
PROPERTIES
    LivePoolConnectsUnlessStarved
