CONSTANTS
    Jobs = {j1, j2}
    api = api
    worker = worker
    Procs <- MCReclaimers
    Reclaimers <- MCReclaimers
    Types <- HashOnly
    ConcurrentTypes <- HashOnly
    Keys = {k1}
    NoKey = NoKey
    PoolSize = 1
    Results = {"success", "failed"}
    MaxStops = 0
    MaxDrops = 0
SPECIFICATION Spec
SYMMETRY Symmetry
\* Once every id is used and settled nothing is left to do.
CHECK_DEADLOCK FALSE
PROPERTIES
    QueuedJobIsKept
