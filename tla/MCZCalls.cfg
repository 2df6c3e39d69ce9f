CONSTANTS
    x = x
    y = y
    c = c
    Zvar = {x, y}
    Custom = {c}
    Heap = {1, 2, 3, 4}
    MaxLen = 4
    StackMax = 2
    NoBlock = NoBlock
    MulCutoff = 0
    SqrCutoff = 1
    MaxUsed = 2
    Size = {1}
    CustomMax = 1
    ClientId = {"DEFAULT"}
    Rebinds = FALSE
    EndsLast = FALSE
SPECIFICATION Spec
VIEW View
SYMMETRY Symmetry
INVARIANTS
    NothingLeaked
    FreedByOwner
    OperandsIntact
    OutputsKeptOnError
    TemporariesEnd
    OneHolder
    ShadowMirrors
