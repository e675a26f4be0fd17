CONSTANTS
    Conns = {c1, c2}
    Reqs = {r1}
    Chunks = 3
    NoConn = NoConn
    CancelInClose = TRUE
SPECIFICATION Spec
PROPERTIES LostRequestEnds ServedRequestEnds LeavingStopsRunner StreamSpec
CHECK_DEADLOCK FALSE
