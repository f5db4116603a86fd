\* A restore to a virtual snapshot sets the decider's time back to zero.
SPECIFICATION Spec
CONSTANTS
    Command <- MCCommand
    Duration <- MCDuration
    Policy = "threshold"
    Threshold = 2
    Faults <- NoFaults
    MaxSnapshots = 4
    MaxLog = 1
    MaxEnv = 1
CHECK_DEADLOCK FALSE
INVARIANTS
    ReplayCostBounded
