CONSTANTS
    q1 = q1
    Queues = {q1}
    Canonicals = {c1, c2}
    QueueOf <- MCQueueOf
    MaxCount = 10
    Verdicts = {"success"}
    MaxRev = 2
    MaxPatchSets = 3
    MaxCrash = 0
    None = None
SPECIFICATION Spec
PROPERTIES
    TerminalIsFinal
CHECK_DEADLOCK FALSE
