SPECIFICATION Spec
CONSTANTS
    Workers = {w1, w2}
    UI = UI
    MaxPuts = 2
    Polls = 1
    Raising = TRUE
INVARIANTS WaiterNotForgotten
PROPERTIES LastingMessageStays WorkerGoesOn
CHECK_DEADLOCK FALSE
