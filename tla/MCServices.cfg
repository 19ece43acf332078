SPECIFICATION Spec
\* Calls, ticks and requests come to an end, and Kensetsu need not change.
CHECK_DEADLOCK FALSE
CONSTANTS
    m1 = m1
    a1 = a1
    t1 = t1
    f1 = f1
    j1 = j1
    j2 = j2
    s1 = s1
    s2 = s2
    p1 = p1
    p2 = p2
    path = path
    bytes = bytes
    presets = presets
    jobs = jobs
    o1 = o1
    d1 = d1
    r1 = r1
    x = x
    y = y
    q1 = q1
    q2 = q2
    q3 = q3
    q4 = q4
    b1 = b1
    h1 = h1
    Calls = {a1}
    Automatic = {a1}
    Files = {f1}
    ReqOf <- MCReqOf
    PresetOf <- MCPresetOf
    FilesOf <- MCFilesOf
    PathOf <- MCPathOf
    ContentOf <- MCContentOf
    Ticks = {t1}
    Manual = {m1}
    Versions = {f1}
    Nobody = Nobody
    MaxGen = 1
    MaxRev = 0
    Streams = {s1, s2}
    Channels = {jobs}
    ChannelsOf <- MCChannelsOf
    MaxChanges = 1
    MaxLeaves = 1
    MaxMisses = 1
    NoToken = NoToken
    Pollers = {p1, p2}
    NoPoller = NoPoller
    EncJobs = {j1, j2}
    BatchLimit = 1
    MaxTrouble = 1
    MaxMishaps = 1
    Passes = {o1, d1, r1}
    KindOf <- MCKindOf
    Torrents = {x, y}
    MaxVersion = 2
    MaxSyncNews = 2
    MaxSyncTrouble = 1
    Free = Free
    Pool = Pool
    Releases = {q1, q2, q3, q4}
    PageSize = 2
    MaxShifts = 2
    MaxScanFaults = 1
    LastFile = 2
    FolderPass = b1
    TorrentJobs = {h1}
    MaxWrites = 1
    MaxHashFaults = 1
INVARIANTS
    TypesOK
    BaselineIsOwn
    BelievedHashIsTrue
PROPERTIES
    NoOlderAnswer
    SendingEnds
    ClaimEnds
    ChangesReachThePage
    TrackingCatchesUp
    SyncCatchesUp
    NoFalseAbsence
    SweepCatchesUp
    BackfillCovers
