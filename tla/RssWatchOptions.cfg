SPECIFICATION Spec
CONSTANTS
    MaxItems = 1
    PubDate <- OneDate
    MaxStarts = 1
    MaxChanges = 0
    MaxUpdates = 2
    CalcModes = {"none", "xbrl21"}
    FormulaChoices = {"unset", "all", "block"}
    FeedFails = FALSE
INVARIANT OptionsReset
CHECK_DEADLOCK FALSE
