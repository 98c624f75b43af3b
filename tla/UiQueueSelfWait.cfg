SPECIFICATION Spec
CONSTANTS
    Workers = {w1, w2}
    UI = UI
    MaxPuts = 1
    Polls = 1
    Raising = FALSE

PROPERTY EveryRequestEnds
CHECK_DEADLOCK FALSE
