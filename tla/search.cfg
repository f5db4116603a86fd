\* Every small search, in which up to two calls fail.
SPECIFICATION FairSpec
CONSTANTS
    Nobody = Nobody
    Fanouts <- MCFanouts
    Generations <- MCGenerations
    Targets <- MCTargets
    MaxFaults = 2
CHECK_DEADLOCK FALSE
INVARIANTS
    NoFalseAlarm
    ExitZeroMeansDone
    WinnersSurvive
    ProgressTowardsTarget
    EntriesInOrder
PROPERTIES
    AlwaysSettles
