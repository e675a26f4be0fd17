CONSTANTS
    Conns = {c1, c2}
    Sessions = {s1}
    NoConn = NoConn
    NoSession = NoSession
    MalformedHello = TRUE
    StoreFails = TRUE
    Events = {"running"}
    Stoppable = {}
SPECIFICATION Spec
PROPERTIES DeadTunnelLeaves OrphanRelayEnds
CHECK_DEADLOCK FALSE
