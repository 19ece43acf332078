CONSTANTS
    Workers = {"sync", "poll_master", "poll_slave", "reconcile", "resume"}
    Hooks = {"hook"}
    SlaveHooks = {"slave_hook"}
    MaxRow = 1
    MaxCrashes = 0
    MaxOutages = 1
    MaxErrors = 1
    MaxMoves = 2
SPECIFICATION MCSpec
CHECK_DEADLOCK FALSE
INVARIANTS
    IInv
    NoFalseCancel
PROPERTIES
    KeepsPromise
