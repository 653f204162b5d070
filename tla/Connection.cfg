SPECIFICATION Spec
CONSTANTS
    HandshakeReplies <- Greetings
    QueryReplies <- SmallReplies
    PrepareReplies <- SmallPrepared
    Calls <- Commands
    MaxCommands = 3
    EarlyClose = TRUE
    QueueSize = 2
    BufferingUsed = TRUE
    Assertions = FALSE
INVARIANTS
    Inv
    LockStep
    QueueFits
    BusyAwaits
    EofIsComplete
    RefusalExplained
PROPERTIES
    NoStaleAnswer
    IsSession
