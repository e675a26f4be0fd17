CONSTANTS
    MaxPosts = 2
    MaxAnswers = 0
    Handlers <- ModelHandlers
    Retries = 1
SPECIFICATION Spec
PROPERTIES OneWakePerBlock
CHECK_DEADLOCK FALSE
