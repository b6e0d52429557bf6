SPECIFICATION Spec
CONSTANTS
    Server = {n1, n2, n3}
    None = None
    Empty = Empty
    Value = {v}
    MaxInflight = 2
    IndexMax = 100
    Scenarios <- RequestScenarios
SYMMETRY ServerSymmetry
VIEW LiveView
INVARIANTS RequestedSnapshotIsRecent
