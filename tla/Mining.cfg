SPECIFICATION Spec
CONSTANTS
    MaxSessions = 2
    MaxEpoch = 4
    MaxFaults = 1
INVARIANTS
    OneLiveRun
    StopIsClean
CHECK_DEADLOCK FALSE
