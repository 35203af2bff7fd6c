CONSTANTS
    c1 = c1
    c2 = c2
    Client = {c1, c2}
    NoLock = NoLock
    NoNode = NoNode
    NoName = NoName
    Name <- MCNameBase
    Root <- MCRoot
    Path <- MCNameBase
    Walk <- MCWalkBase
    Duration <- MCDuration
    Time <- MCTime
    Join <- MCJoinBase
    Base <- MCUserBase
    Tags <- MCNoTags
    MaxToken = 2
    MaxTime = 1
SPECIFICATION WSpec
INVARIANTS
    TargetRespected
