SPECIFICATION FairSpec
CONSTANTS
    None = None
    Jobs = {j1}
    Connected = {j1}
    Procs = {p1, p2}
    FindProductRetries = 1
    StartRetries = 2
    FindActivityRetries = 1
    PollRetries = 0
    ErrorRetries = 1
    MaxRetries = 2
    MaxPop = 2
    Verdicts = {"passed", "failed", "errored"}
    MaxCrash = 1
INVARIANTS
    TypeOK
    AbortIsSent
PROPERTIES
    EveryJobEnds
    ImplementsExecutor
