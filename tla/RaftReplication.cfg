SPECIFICATION Spec
CONSTANTS
    Server = {n1, n2, n3}
    None = None
    Empty = Empty
    Value = {v}
    MaxInflight = 2
    IndexMax = 100
    Scenarios <- ReplicationScenarios
SYMMETRY ServerSymmetry
VIEW LiveView
INVARIANTS MatchedIsDurable FlowControl StateMachineSafety TermsNeedPreVotes LoneReadsAreLinearizable
