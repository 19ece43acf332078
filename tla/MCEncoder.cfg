SPECIFICATION MCSpec
\* Every call and every tick comes to an end.
CHECK_DEADLOCK FALSE
CONSTANTS
    m1 = m1
    m2 = m2
    a1 = a1
    t1 = t1
    t2 = t2
    f1 = f1
    f2 = f2
    path = path
    bytes = bytes
    presets = presets
    Calls = {m1, m2, a1}
    Automatic = {a1}
    Files = {f1, f2}
    ReqOf <- MCReqOf
    PresetOf <- MCPresetOf
    FilesOf <- MCFilesOf
    PathOf <- MCPathOf
    ContentOf <- MCContentOf
    Ticks = {t1, t2}
    Manual = {m1}
    Versions = {f1}
    Nobody = Nobody
    MaxGen = 2
    MaxRev = 1
CONSTRAINTS
    InOrder
    TwoAreEnough
INVARIANTS
    HistoryTellsTruth
    NoSilentRepeat
    CandidatesTellTruth
PROPERTIES
    KeepsLedger
    IntentIsPermitted
    QueueNeverRepeats
