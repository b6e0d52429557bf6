SPECIFICATION Spec
CONSTANTS
    MaxIndex = 5
    MaxCap = 3
    Indexes <- MCIndexes
    Caps <- MCCaps
    None = None
INVARIANTS AddNeverPanics FullMeansLimit
PROPERTY WindowSpec
