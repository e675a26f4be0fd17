CONSTANTS
    MaxMsgs = 3
    MaxInterrupts = 1
    MaxFaults = 1
SPECIFICATION Spec
INVARIANTS TypeOK SlotHoldsTheTurn NothingStranded NoMessageLost FinishedTurnNotInjectable InterruptFlagFresh
PROPERTIES ComesToRest
CHECK_DEADLOCK FALSE
