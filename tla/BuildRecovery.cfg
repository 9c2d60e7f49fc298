CONSTANTS
    q1 = q1
    Queues = {q1}
    Canonicals = {c1, c2}
    QueueOf <- MCQueueOf
    MaxCount = 10
    Verdicts = {"failure"}
    MaxRev = 2
    MaxPatchSets = 2
    MaxCrash = 1
    None = None
SPECIFICATION FairSpec
INVARIANTS
    WakeUpComing
PROPERTIES
    WaitingStarts
    SlotIsReleased
CHECK_DEADLOCK FALSE
