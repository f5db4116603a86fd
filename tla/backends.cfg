\* All five backends, every external program may fail.
SPECIFICATION Spec
CONSTANTS
    Kinds <- EveryKind
    MaxSnapshots = 4
CHECK_DEADLOCK FALSE
INVARIANTS
    TypeOK
    ContainerRestored
    RestoreRecovers
    NoPhantoms
    EnvOnPosition
    ReleasedMeansGone
