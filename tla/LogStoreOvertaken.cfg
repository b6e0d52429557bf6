SPECIFICATION Spec
CONSTANTS
    MaxTerm = 3
    MaxIndex = 2
    MaxFlying = 3
    MaxCrashes = 0
    MaxSnaps = 0
    MaxPeers = 0
    MaxPerReady = 1
INVARIANT PersistedIsDurable
CHECK_DEADLOCK FALSE
