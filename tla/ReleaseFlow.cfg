SPECIFICATION Spec
CONSTANTS
    None = None
    Nobody = Nobody
    NoLabel = NoLabel
    NoEdit = NoEdit
    Invalid = Invalid
    p1 = p1
    p2 = p2
    Clients = {p1, p2}
    Ops <- TwoClientsOps
    Lib = "lib"
    App = "app"
    Sources <- TwoSources
    Refs <- AllRefs
    Publications = {"artifact", "flat", "image"}
    Deps = {"artifact", "image"}
    LabelOf <- TwoLabels
    FileOf <- TwoFiles
    Pending <- TwoReleases
    Subscribed = TRUE
    Budget = 1
INVARIANTS
    TypeOK
    PublishedIsTagged
    IndexIsTwoWay
    OneUpdatePerLabel
    ReleaseIsProposed
SYMMETRY ClientsAreAlike
