SPECIFICATION LiveSpec
CONSTANTS
    Cons = {c1, c2}
    Pooling = {TRUE, FALSE}
    Protocols = {"TCP", "UDS"}
    MaxWrites = 2
INVARIANTS
    LoopCloses
PROPERTIES
    DestroyReturns
