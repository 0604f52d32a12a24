SPECIFICATION HealthSpec
CONSTANTS
    Sensors = {0, 1}
    MAX_READ_FAILURES = 3
    FAN_STALL_STRIKES = 5
INVARIANTS
    ControlBoardHeatTrips
