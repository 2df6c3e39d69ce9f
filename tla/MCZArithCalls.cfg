SPECIFICATION Spec
CONSTANTS
    LimbBit = 2
    PacketLimbs = 2
    MulCutoff = 4
    SqrCutoff = 4
    MaxLength = 5
    ShortMax = 3
    Operands <- MCOperands
    Word <- MCWord
    Shift <- MCShift
INVARIANTS
    Canonical
    NoOverrun
    OnlyResultWritten
    SumExact
    ProductExact
    BitsExact
    DivisionExact
    CompareExact
CHECK_DEADLOCK FALSE
