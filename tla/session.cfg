\* An owner and an attached manager on one session, every command may fail.
SPECIFICATION FairSpec
CONSTANTS
    m1 = m1
    m2 = m2
    b1 = b1
    Main = Main
    Manager <- MCManager
    Owner = m1
    Fork <- MCFork
    Faults <- AllFaults
    MaxCheckpoints = 3
    MaxCalls = 3
CHECK_DEADLOCK FALSE
INVARIANTS
    TypeOK
    HistoryInherited
    LineageTrue
    RegistryCurrent
    CleanupTruthful
PROPERTIES
    SessionReleased
    AttachEnds
