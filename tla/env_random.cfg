\* Physical and virtual snapshots in every mixture; executions may time out.
SPECIFICATION FairSpec
CONSTANTS
    Command <- MCCommand
    Duration <- MCDuration
    Policy = "random"
    Threshold = 0
    Faults <- TimeoutFault
    MaxSnapshots = 4
    MaxLog = 1
    MaxEnv = 2
CHECK_DEADLOCK FALSE
INVARIANTS
    TypeOK
    ReplayFaithful
    EnvMatchesPosition
PROPERTIES
    ImplementsStore
    RestoreTerminates
