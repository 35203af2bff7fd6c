CONSTANTS
    p1 = p1
    p2 = p2
    p3 = p3
    Key = {k1}
    Caller = {p1, p2, p3}
    Call = {f1, f2, f3}
    NoCall = NoCall
    NoKey = NoKey
    Uses <- MCUses
    MaxDups = 2
SPECIFICATION Spec
INVARIANTS
    TypeOK
    FlightsRegistered
    SharedExact
    CallsReferenced
PROPERTIES
    DedupSpec
    Served
CHECK_DEADLOCK FALSE
