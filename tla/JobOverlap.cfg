SPECIFICATION Spec
CONSTANTS
    None = None
    Jobs = {j1, j2}
    Connected = {j1}
    Procs = {p1, p2}
    FindProductRetries = 0
    StartRetries = 0
    FindActivityRetries = 1
    PollRetries = 0
    ErrorRetries = 0
    MaxRetries = 1
    Verdicts = {"passed", "failed"}
    MaxPop = 2
    MaxCrash = 0
INVARIANTS
    ReportsInOrder
    OneAtATime
