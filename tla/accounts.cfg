CONSTANTS
    Proc = {p1, p2}
    Device = {d1, d2}
    MaxDevices = 1
    Policies = {"deny", "evict_oldest"}
    MaxPurges = 1
    Obj = {u1, u2, u3}
    MaxPwd = 3
    MaxRequests = 3
    MaxRestarts = 1
    Fails = TRUE
SPECIFICATION Spec
INVARIANTS
    TypeOK
    DeviceLimit
    PutOutStaysOut
    CacheTruth
PROPERTIES
    OldRefused
SYMMETRY Symmetric
CHECK_DEADLOCK FALSE
