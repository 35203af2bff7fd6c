CONSTANTS
    Proc = {p1, p2}
    NoName = NoName
    NoListing = NoListing
    Path <- OneDir
    Requests <- UploadRequests
    InitDisks <- UploadDisks
    Temp <- MCTemp
    Result <- Yes
    NoOverwrite = TRUE
    Fails = TRUE
    MaxOps = 3
SPECIFICATION Spec
PROPERTIES
    ObjectKept
    CallsReturn
