SPECIFICATION FairSpec
CONSTANTS
    NPools = 3
    ConnectTimeout = 5
    MaxOverhead = 0
    IdleDelay = 2
    RetryDelay = 5
    MaxRetries = 3
    FailoverChoices = {TRUE}
    Hosts <- TwoSilent
PROPERTIES
    LivePoolConnects
