CONSTANTS
    Jobs = {j1, j2}
    api = api
    worker = worker
    Procs <- MCProcs
    Reclaimers <- MCReclaimers
    Types <- HashOnly
    ConcurrentTypes <- HashOnly
    Keys = {k1}
    NoKey = NoKey
    PoolSize = 1
    Results = {"success"}
    MaxStops = 1
    MaxDrops = 1
SPECIFICATION Spec
SYMMETRY Symmetry
CONSTRAINT OneFault
\* Once every id is used and settled nothing is left to do.
CHECK_DEADLOCK FALSE
INVARIANTS
    OneHandlerPerSlot
    ShutdownSettles
PROPERTIES
    StopWins
    LiveJobIsKept
    Table
