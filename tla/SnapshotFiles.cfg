SPECIFICATION FilesSpec
CONSTANTS
    MaxIndex = 3
CONSTRAINT OldestIsDatabase
INVARIANTS  DatabasesSurvive StartsFromSnapshot
