CONSTANTS
    Concurrency = 2
    PartSize = 4
    PartBodyMaxRetries = 1
    Limit = 2
    Lengths = {0, 3, 13}
    MaxOthers = 1
    Pieces = {3}
SPECIFICATION Spec
INVARIANTS
    TypeOK
    SendFindsRoom
    ChunksCoverRange
    ConnectionsCounted
    ChunkNotLost
PROPERTIES
    StreamSpec
    WorkersEnd
    ReadingEnds
CHECK_DEADLOCK FALSE
