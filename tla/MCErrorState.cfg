CONSTANTS
    h1 = h1
    h2 = h2
    Handler = {h1, h2}
    Code = {"EDIVZERO", "ENOMEM"}
    MaxDepth = 4
SPECIFICATION Spec
INVARIANTS
    ErrorsReachInnermost
CHECK_DEADLOCK FALSE
