SPECIFICATION Spec
CONSTANTS
    Leader = n1
    Peer = n2
    None = None
    Empty = Empty
    MaxInflight = 1
    IndexMax = 100
    BufSize = 1
    Urls = 2
    Reachable = {0}
    DoneSize = 5
    MaxLog = 3
    MaxAnswers = 1
    CatchUpSteps = 7
INVARIANTS NoLimbo CanCatchUp
