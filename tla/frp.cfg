CONSTANTS
    Proc = {p1, p2}
    None = None
    MaxSaves = 3
    MaxServices = 3
    MaxCalls = 3
SPECIFICATION Spec
INVARIANTS
    InHand
PROPERTIES
    CallsReturn
CHECK_DEADLOCK FALSE
