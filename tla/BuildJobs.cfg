CONSTANTS
    q1 = q1
    Queues = {q1}
    Canonicals = {c1, c2}
    QueueOf <- MCQueueOf
    MaxCount = 10
    Verdicts = {"success", "failure"}
    MaxRev = 2
    MaxPatchSets = 3
    MaxCrash = 0
    None = None
SPECIFICATION Spec
INVARIANTS
    TypeOK
    SlotHasOwner
    ExecutesHolderOnly
    CancelledNeverRuns
PROPERTIES
    FreedByOwnEnd
CHECK_DEADLOCK FALSE
