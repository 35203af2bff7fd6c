CONSTANTS
    c1 = c1
    c2 = c2
    Client = {c1, c2}
    NoLock = NoLock
    NoNode = NoNode
    NoName = NoName
    Name <- MCName
    Root <- MCRoot
    Path <- MCPath
    Walk <- MCWalk
    Duration <- MCDuration
    Time <- MCTime
    Join <- MCJoin
    Base <- MCRootBase
    Tags <- MCTags
    MaxToken = 3
    MaxTime = 1
SPECIFICATION WSpec
INVARIANTS
    WTypeOK
    TokenIndex
    RefCounts
    ExpiryIndex
    NoConflict
    HeldByClaims
    ClaimExclusion
    ClaimBacked
    NoLeakedTempLock
    ClaimsOwned
PROPERTIES
    TableSpec
SYMMETRY Clients
