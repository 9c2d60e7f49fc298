SPECIFICATION FairSpec
CONSTANTS
    None = None
    Jobs = {j1, j2}
    Connected = {j1}
    Procs = {p1}
    FindProductRetries = 0
    StartRetries = 0
    FindActivityRetries = 1
    PollRetries = 0
    ErrorRetries = 0
    MaxRetries = 1
    MaxPop = 2
    Verdicts = {"passed", "failed"}
    MaxCrash = 0
PROPERTIES
    EveryJobEnds
