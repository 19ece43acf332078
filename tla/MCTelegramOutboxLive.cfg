CONSTANTS
    m1 = m1
    m2 = m2
    b1 = b1
    b2 = b2
    c1 = c1
    q1 = q1
    none = none
    Msgs = {m1, m2}
    Bots = {b1}
    Hevc = {m1, m2, b1}
    Chats = {c1}
    ChatOf <- OneChat
    Pipelines = {q1}
    PipelineOf <- EventPipeline
    NoPipeline = none
    Legacy = {}
    Switched = {}
    Welcomes = {m2}
    Limit = 1
    MaxPause = 1
    MaxAcks = 0
    MaxCrashes = 2
SPECIFICATION FairSpec
PROPERTIES
    RenewedOnlyForApproved
    DueRowsAreTaken
    ClaimsEnd
