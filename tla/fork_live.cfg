\* Every call returns, with failures and with another manager on the session.
SPECIFICATION FairSpec
CONSTANTS
    t1 = t1
    t2 = t2
    b1 = b1
    b2 = b2
    Main = Main
    NoThread = NoThread
    Thread <- MCThread
    Branch <- MCBranch
    Gen <- MCGen
    Kinds <- Both
    Faults <- AllFaults
    MaxCalls = 3
CHECK_DEADLOCK FALSE
PROPERTIES
    CallsReturn
    SnapshotsRecorded
