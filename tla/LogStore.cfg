SPECIFICATION Spec
CONSTANTS
    MaxTerm = 3
    MaxIndex = 2
    MaxFlying = 2
    MaxCrashes = 1
    MaxSnaps = 1
    MaxPeers = 2
    MaxPerReady = 1
INVARIANTS NoPanic PersistedIsDurable NeverSpliced Restartable
PROPERTIES DurableLogSpec EventuallyGiven
CHECK_DEADLOCK FALSE
