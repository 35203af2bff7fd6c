CONSTANTS
    Proc = {p1}
    Loader = Loader
    Path = {a, b}
    Driver = {d1, d2}
    MaxId = 1
    MaxOps = 2
    MaxSaves = 0
    MaxRestarts = 0
    NoRow = NoRow
    NoDriver = NoDriver
    NoFrame = NoFrame
    NoId = NoId
SPECIFICATION Spec
INVARIANTS
    AllMounted
CHECK_DEADLOCK FALSE
