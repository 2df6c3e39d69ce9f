SPECIFICATION Spec
CONSTANTS
    LimbBit = 6
    PacketLimbs = 2
    MaxLength = 2
    SizeBit = 16
    MwcShift = 3
    LcgFactor = 13
    LcgTerm = 5
    XorShifts <- MCXorShifts
    Numbers <- MCNumbers
    Text <- MCText
    Format <- MCFormat
    RoomMax = 28
    Generator <- MCGenerator
    RandomBits = {0, 1, 5, 6, 7, 12, 13, 24}
    MaxDraws = 3
INVARIANTS
    NoOverrun
    ReadExact
    RoomToldOrRead
    WriteExact
    RoundTrip
    LengthBound
    RandomExact
CHECK_DEADLOCK FALSE
