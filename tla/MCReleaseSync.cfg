CONSTANTS
    o1 = o1
    d1 = d1
    r1 = r1
    x = x
    Passes = {o1, d1, r1}
    KindOf <- MCKindOf
    Torrents = {x}
    MaxVersion = 2
    MaxSyncNews = 2
    MaxSyncTrouble = 1
    Free = Free
    Pool = Pool
SPECIFICATION FairSpec
PROPERTIES
    FailureIsRetried
