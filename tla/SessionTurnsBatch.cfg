CONSTANTS
    MaxMsgs = 3
    MaxInterrupts = 0
    MaxFaults = 0
SPECIFICATION Spec
INVARIANT AnsweredReachesModel
CHECK_DEADLOCK FALSE
