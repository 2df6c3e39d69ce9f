SPECIFICATION Spec
CONSTANTS
    LimbBit = 2
    PacketLimbs = 2
    MulCutoff = 8
    SqrCutoff = 8
    MaxLength = 5
    ShortMax = 3
    Operands <- NineOperands
    Word <- MCWord
    Shift <- MCShift
INVARIANT NoOverrun
CHECK_DEADLOCK FALSE
