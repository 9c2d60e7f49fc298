CONSTANTS
    q1 = q1
    Queues = {q1}
    Canonicals = {c1, c2}
    QueueOf <- MCQueueOf
    MaxCount = 10
    Verdicts = {"success"}
    MaxRev = 2
    MaxPatchSets = 2
    MaxCrash = 0
    None = None
SPECIFICATION FairSpec
PROPERTIES
    WaitingStarts
CHECK_DEADLOCK FALSE
