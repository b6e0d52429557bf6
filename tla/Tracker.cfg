SPECIFICATION MCSpec
CONSTANTS
    Node = {n1, n2, n3, n4}
    MaxAcked = 2
    Groups = {0, 1, 2}
    IndexMax = 99
SYMMETRY NodeSymmetry
INVARIANTS AlwaysWellFormed LastRequestWins CommitsLargestReplicated GroupCommitIsExact VoteResultIsFinal
PROPERTIES RestoreInverts QuorumsOverlap DecisionsStand
CHECK_DEADLOCK FALSE
