CONSTANTS
    Workers = {"sync", "poll_slave", "reconcile", "retry_slave", "retry_master"}
    Hooks = {}
    SlaveHooks = {}
    MaxRow = 2
    MaxCrashes = 1
    MaxOutages = 1
    MaxErrors = 1
    MaxMoves = 0
SPECIFICATION MCFairSpec
CHECK_DEADLOCK FALSE
PROPERTIES
    Settles
    DoneAtLast
