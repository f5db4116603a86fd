\* An attachment that fails tears down the session of its owner.
SPECIFICATION Spec
CONSTANTS
    m1 = m1
    m2 = m2
    b1 = b1
    Main = Main
    Manager <- MCManager
    Owner = m1
    Fork <- MCFork
    Faults <- SnapshotFault
    MaxCheckpoints = 3
    MaxCalls = 1
CHECK_DEADLOCK FALSE
INVARIANTS
    SessionOutlivesAttachers
