SPECIFICATION Spec
CONSTANTS
    t1 = t1
    t2 = t2
    Thread = {t1, t2}
    NoList = NoList
    LimbBit = 2
    PacketLimbs = 2
    MaxLength = 9
    Machine <- Machines
    Listing <- Listings
    Setting <- MCSetting
    Input <- MCInput
INVARIANTS
    VersionsAllowed
    KernelsExact
PROPERTIES
    CallsEnd
