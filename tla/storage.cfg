CONSTANTS
    Proc = {p1, p2}
    Loader = Loader
    Path = {a, b}
    Driver = {d1, d2, d3, d4}
    MaxId = 2
    MaxOps = 3
    MaxSaves = 1
    MaxRestarts = 1
    NoRow = NoRow
    NoDriver = NoDriver
    NoFrame = NoFrame
    NoId = NoId
SPECIFICATION Spec
INVARIANTS
    TypeOK
    Mirrored
    DriversAccounted
SYMMETRY Alike
CHECK_DEADLOCK FALSE
