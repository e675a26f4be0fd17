CONSTANTS
    Conns = {c1, c2}
    Reqs = {r1, r2}
    Chunks = 1
    NoConn = NoConn
    CancelInClose = FALSE
SYMMETRY Symmetry
SPECIFICATION Spec
INVARIANTS TypeOK InFlightOwned
CHECK_DEADLOCK FALSE
