CONSTANTS
    Convs = {v1}
    Calls = {g1, g2, g3}
    Releases = {r1}
    Procs = {p1, p2, p3}
    Wants <- SwitchWants
    NoConv = NoConv
    NoProc = NoProc
    NoWant = NoWant
    NoModel = NoModel
    GraceCancel = FALSE
SYMMETRY Symmetry
SPECIFICATION Spec
INVARIANTS TypeOK OneLiveProcess Tracked NoRespawnAfterRelease ReaperSparesTurns ShutdownClean
PROPERTIES ServesOpenClient
CHECK_DEADLOCK FALSE
