SPECIFICATION Spec
CONSTANTS
    NPools = 1
    SessQueueSize = 1
    AsicQueueSize = 2
    LowWater = 1
    NSlots = 1
    MaxGen = 2
    MaxNotifies = 0
    MaxRetries = 0
    FailoverChoices = {FALSE}
    Events = {"nonce"}
INVARIANTS
    DeadWorkNotSubmitted
