\* A restore answers True and there is no machine.
SPECIFICATION Spec
CONSTANTS
    Kinds <- FirecrackerOnly
    MaxSnapshots = 2
CHECK_DEADLOCK FALSE
INVARIANTS
    RestoredUsable
