CONSTANTS
    Tasks = {t1, t2}
    Clients = {p1, p2}
    Kinds = {"queued", "abort"}
    Items = {x}
    MaxPop = 1
    None = None
SPECIFICATION FairSpec
INVARIANTS
    TypeOK
    FlagMeansTaken
    OwedIsStored
PROPERTIES
    ImplementsDelivery
    EventuallyHandedOut
