CONSTANTS
    Workers = {"sync", "reconcile"}
    Hooks = {"hook"}
    SlaveHooks = {}
    MaxRow = 1
    MaxCrashes = 0
    MaxOutages = 0
    MaxErrors = 0
    MaxMoves = 0
SPECIFICATION PlainSpec
CHECK_DEADLOCK FALSE
PROPERTIES
    DoneIsFinal
