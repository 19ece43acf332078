CONSTANTS
    m1 = m1
    m2 = m2
    b1 = b1
    b2 = b2
    c1 = c1
    q1 = q1
    none = none
    Msgs = {m1, m2}
    Bots = {b1, b2}
    Hevc = {}
    Chats = {}
    ChatOf <- OneChat
    Pipelines = {q1}
    PipelineOf <- OnePipeline
    NoPipeline = none
    Legacy = {m1, m2}
    Switched = {"primary"}
    Welcomes = {}
    Limit = 1
    MaxPause = 2
    MaxAcks = 1
    MaxCrashes = 1
SPECIFICATION Spec
SYMMETRY Symmetry
INVARIANTS
    IInv
    NoSilentDuplicate
    TgTellsTruth
PROPERTIES
    ClaimsAreFenced
    PauseIsKept
    Promise
