CONSTANTS
    Clients = {c1}
    QueueMax = 2
    MaxPieces = 3
    MaxStops = 1
    MaxRelays = 2
    AppendFails = TRUE
SPECIFICATION Spec
INVARIANTS TypeOK   DuplicatesAreNamed
PROPERTIES StreamsEnd
CHECK_DEADLOCK FALSE
