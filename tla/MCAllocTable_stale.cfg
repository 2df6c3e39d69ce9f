CONSTANTS
    t1 = t1
    t2 = t2
    cb1 = cb1
    Thread = {t1, t2}
    Callback = {cb1}
    MaxPages = 1
    PageSize = 1
    MaxAdds = 3
    GenrMod = 4
    Careful = FALSE
    CacheSize = 2
    CacheMaxUsed = 1
    NoPtr = NoPtr
    NoThread = NoThread
    None = None
    Zeroed = Zeroed
    Invalid = Invalid
    Freed = Freed
SPECIFICATION FairSpec
INVARIANTS
    LockInv
    MatchingIdIsLive
    LiveQueryAnswered
PROPERTIES
    FreshIds
    LockReleased
