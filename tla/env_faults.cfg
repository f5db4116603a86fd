\* Every failure of the backend, late commands and ignored restores included.
SPECIFICATION Spec
CONSTANTS
    Command <- OneCommand
    Duration <- UnitDuration
    Policy = "random"
    Threshold = 0
    Faults <- AllFaults
    MaxSnapshots = 3
    MaxLog = 2
    MaxEnv = 2
CHECK_DEADLOCK FALSE
INVARIANTS
    AncestryIntact
    TreeLinked
    TimeNeverOverstated
    
