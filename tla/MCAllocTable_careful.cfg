CONSTANTS
    t1 = t1
    t2 = t2
    cb1 = cb1
    cb2 = cb2
    Thread = {t1, t2}
    Callback = {cb1, cb2}
    MaxPages = 2
    PageSize = 1
    MaxAdds = 4
    GenrMod = 2
    Careful = TRUE
    CacheSize = 2
    CacheMaxUsed = 1
    NoPtr = NoPtr
    NoThread = NoThread
    None = None
    Zeroed = Zeroed
    Invalid = Invalid
    Freed = Freed
SPECIFICATION Spec
SYMMETRY Symmetry
INVARIANTS
    TypeOK
    CallsOwnCallbacks
    OwnedStaysRegistered
PROPERTIES
    RegistrySpec
