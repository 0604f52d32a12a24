SPECIFICATION PartsSpec
CONSTANTS
    Settings <- MCSettings
    MaxDue = 2
    MaxSlices = 120
    MaxRetries = 3
    FailoverChoices = {TRUE, FALSE}
    QUEUE_SIZE = 3
    Producers = {"builder"}
    Consumers = {"sender"}
    Owners = {1, 2}
    Tags = {1, 2}
    Slots = 2
    MaxJobs = 6
    MaxRead = 3
    MaxLine = 6
    MaxBytes = 6
    MaxSes = 2
    MAX_SESSIONS = 2
    IdleTimeout = 3
    MAX_FAILURES = 2
    Lockout = 1
    MaxTime = 6
    MaxTokens = 4
    Sensors = {0, 1}
    MAX_READ_FAILURES = 2
    FAN_STALL_STRIKES = 3
    Temps = {29, 58, 60, 64, 66, 68}
    StartDuties = {0}
    STEP_FAN_TEMP = 10
    MIN_PWM_PERCENT = 20
    DecreasePasses = 1
    IncreasePasses = 2
    MaxLearned = 2
    MaxDuty = 110
INVARIANTS
    PartsTypeOK
    ShareWithinBound
    ZeroWeightNeverWins
    EqualPoolsAlternate
    LinkMatchesRecord
    NoEndpointPassedOver
    NoLostWakeup
    JobsOwnedOnce
    LinesAsSent
    RecentClientsStaySignedIn
    DangerBounded
    ShutdownHasCause
PROPERTIES
    PrimaryNotGivenUpEarly
    ImplementsFifo
    HotFanFull
