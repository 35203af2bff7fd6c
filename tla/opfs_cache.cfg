CONSTANTS
    Proc = {p1, p2}
    NoName = NoName
    NoListing = NoListing
    Path <- TwoDirs
    Requests <- CacheRequests
    InitDisks <- CacheDisks
    Temp <- MCTemp
    Result <- Both
    NoOverwrite = FALSE
    Fails = TRUE
    MaxOps = 3
SPECIFICATION Spec
INVARIANTS
    TypeOK
    FlightsLed
    Coherent
SYMMETRY Symmetric
