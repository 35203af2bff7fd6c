CONSTANTS
    Concurrency = 2
    PartSize = 4
    PartBodyMaxRetries = 1
    Limit = 2
    Lengths = {9}
    MaxOthers = 0
    Pieces = {4}
SPECIFICATION Spec
INVARIANTS
    BeingReadRetried
CHECK_DEADLOCK FALSE
