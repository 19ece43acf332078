CONSTANTS
    api = api
    worker = worker
    j1 = j1
    k1 = k1
    e1 = e1
    e2 = e2
    Jobs = {j1}
    Procs <- MCProcs
    Reclaimers <- MCReclaimers
    Types <- HashOnly
    ConcurrentTypes <- HashOnly
    Keys = {k1}
    NoKey = NoKey
    PoolSize = 1
    Results = {"success", "partial", "failed"}
    MaxStops = 2
    MaxDrops = 1
    Paths = {e1, e2}
    LastVersion = 2
    MaxRuns = 3
SPECIFICATION MCSpec
\* Once every id is used and settled, or every version hashed, nothing is left
\* to do.
CHECK_DEADLOCK FALSE
INVARIANTS
    StatusIsHonest
    NewsIsToldOnce
PROPERTIES
    Resolved
