SPECIFICATION Spec
CONSTANTS
    HandshakeReplies <- Greetings
    QueryReplies <- LongReplies
    PrepareReplies <- SmallPrepared
    Calls = {"QUERY"}
    MaxCommands = 1
    EarlyClose = TRUE
    QueueSize = 2
    BufferingUsed = FALSE
    Assertions = FALSE
INVARIANTS
    RefusedMeansOutOfSequence
