SPECIFICATION Spec
CONSTANTS
    Length = 4
    Capacities = {0, 2, 4}
    Chunk = 2
    MaxRedirects = 3
    MaxRetries = 2
INVARIANTS TypeOK SentInOrder ResendsWhole NothingAfterClear
CHECK_DEADLOCK FALSE
