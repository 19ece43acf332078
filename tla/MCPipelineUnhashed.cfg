CONSTANTS
    Workers = {"sync", "poll_slave", "reconcile"}
    Hooks = {}
    SlaveHooks = {}
    MaxRow = 1
    MaxCrashes = 1
    MaxOutages = 0
    MaxErrors = 0
    MaxMoves = 0
SPECIFICATION PlainFairSpec
CHECK_DEADLOCK FALSE
PROPERTIES
    HashFollows
