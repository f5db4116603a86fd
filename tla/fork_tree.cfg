\* A snapshot whose parent is not yet in the tree is not linked to it.
SPECIFICATION Spec
CONSTANTS
    t1 = t1
    t2 = t2
    b1 = b1
    b2 = b2
    Main = Main
    NoThread = NoThread
    Thread <- MCThread
    Branch <- MCBranch
    Gen <- MCGen
    Kinds <- Waypoint
    Faults <- NoFaults
    MaxCalls = 5
SYMMETRY Symmetry
CHECK_DEADLOCK FALSE
INVARIANTS
    TreeComplete
