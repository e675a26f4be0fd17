CONSTANTS
    Conns = {c1, c2}
    Sessions = {s1}
    NoConn = NoConn
    NoSession = NoSession
    MalformedHello = FALSE
    StoreFails = FALSE
    Events = {"idle", "item", "running", "failing"}
    Stoppable = {s1}
SYMMETRY Symmetry
SPECIFICATION Spec
INVARIANTS TypeOK RegisteredHasHandler NoSessionStuckRunning
PROPERTIES OnlyOwnerRemoves
CHECK_DEADLOCK FALSE
