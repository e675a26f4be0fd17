CONSTANTS
    MaxPosts = 2
    MaxAnswers = 1
    Handlers <- ModelHandlers
    Retries = 1
SPECIFICATION Spec
INVARIANTS TypeOK UnansweredKeepsItsCard NotAskedWhileAnswered
PROPERTIES OnlyOwnerUnparks  CardsClear BlockIsHandled
CHECK_DEADLOCK FALSE
