SPECIFICATION Spec
CONSTANTS
    Server = {n1, n2, n3}
    None = None
    Empty = Empty
    Value = {v}
    MaxInflight = 1
    IndexMax = 100
    Scenarios <- ElectionScenarios
SYMMETRY ServerSymmetry
VIEW LiveView
INVARIANTS ElectionSafety LogMatching LeaderCompleteness CommittedIsDurable NoFatalHeartbeat
INVARIANTS ForwardedOnce OnePendingChange ConfChangesApply
PROPERTY CommittedLogSpec
