CONSTANTS
    Clients = {c1}
    QueueMax = 2
    MaxPieces = 2
    MaxStops = 1
    MaxRelays = 1
    AppendFails = FALSE
SPECIFICATION Spec
PROPERTIES KeptTextIsSaved
CHECK_DEADLOCK FALSE
