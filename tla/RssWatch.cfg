SPECIFICATION Spec
CONSTANTS
    MaxItems = 3
    PubDate <- Dates
    MaxStarts = 2
    MaxChanges = 1
    MaxUpdates = 2
    CalcModes = {"none"}
    FormulaChoices = {"unset", "block"}
    FeedFails = TRUE
INVARIANTS NoItemMissed OneWatcher
PROPERTIES StopEndsWatch NewItemsTried
CHECK_DEADLOCK FALSE
