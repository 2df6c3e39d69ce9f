CONSTANTS
    t1 = t1
    cb1 = cb1
    Thread = {t1}
    Callback = {cb1}
    MaxPages = 2
    PageSize = 2
    MaxAdds = 5
    GenrMod = 6
    Careful = TRUE
    CacheSize = 3
    CacheMaxUsed = 2
    NoPtr = NoPtr
    NoThread = NoThread
    None = None
    Zeroed = Zeroed
    Invalid = Invalid
    Freed = Freed
SPECIFICATION Spec
INVARIANTS
    FreeListOK
    SlotsAccounted
    NoSlotsMeansFull
    CacheSound
    HitsAreOwn
