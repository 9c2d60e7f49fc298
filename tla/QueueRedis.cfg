CONSTANTS
    Queues = {q1, q2}
    Canonicals = {c1, c2}
    Shas = {s1, s2}
    MaxCount = 1
    MaxTime = 2
    None = None
SPECIFICATION Spec
INVARIANTS
    TypeOK
    ReadyCountsWaiting
    WaitingHasPatchSet
    BlockedHasOwner
    NewestOnly
PROPERTIES
    NoOvertaking
    NoTakeover
    ImplementsQueue
