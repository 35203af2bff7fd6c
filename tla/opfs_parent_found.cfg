CONSTANTS
    Proc = {p1, p2}
    NoName = NoName
    NoListing = NoListing
    Path <- OneDir
    Requests <- ParentRequests
    InitDisks <- ParentDisks
    Temp <- MCTemp
    Result <- Yes
    NoOverwrite = FALSE
    Fails = FALSE
    MaxOps = 2
SPECIFICATION Spec
INVARIANTS
    ParentFound
