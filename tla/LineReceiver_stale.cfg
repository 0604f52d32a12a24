SPECIFICATION LineSpec
CONSTANTS
    MaxRead = 3
    MaxLine = 6
    MaxBytes = 4
    MaxSes = 2
INVARIANTS
    NoStaleLine
