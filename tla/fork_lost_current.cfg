\* A listing that races a restore removes the state of the branch it made current.
SPECIFICATION Spec
CONSTANTS
    t1 = t1
    t2 = t2
    b1 = b1
    b2 = b2
    Main = Main
    NoThread = NoThread
    Thread <- MCThread
    Branch <- MCBranch
    Gen <- MCGen
    Kinds <- Waypoint
    Faults <- Shared
    MaxCalls = 5
SYMMETRY Symmetry
CHECK_DEADLOCK FALSE
INVARIANTS
    CurrentRegistered
