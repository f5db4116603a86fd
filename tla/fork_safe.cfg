\* Two threads, any calls, a backend whose every operation may fail.
SPECIFICATION Spec
CONSTANTS
    t1 = t1
    t2 = t2
    b1 = b1
    b2 = b2
    Main = Main
    NoThread = NoThread
    Thread <- MCThread
    Branch <- MCBranch
    Gen <- MCGen
    Kinds <- Both
    Faults <- BackendFaults
    MaxCalls = 5
SYMMETRY Symmetry
CHECK_DEADLOCK FALSE
INVARIANTS
    TypeOK
    OneOperationPerBranch
    CurrentUsable
    RegistriesAgree
    PositionsTrue
    LineageTrue
    RestoreLands
PROPERTIES
    ImplementsPool
