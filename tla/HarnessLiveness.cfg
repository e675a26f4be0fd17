CONSTANTS
    Convs = {v1}
    Calls = {g1, g2}
    Releases = {r1}
    Procs = {p1, p2}
    Wants <- OneWant
    NoConv = NoConv
    NoProc = NoProc
    NoWant = NoWant
    NoModel = NoModel
    GraceCancel = TRUE
SPECIFICATION Spec
PROPERTIES CallsReturn ShutdownReturns
CHECK_DEADLOCK FALSE
