SPECIFICATION LiveSpec
CONSTANTS
    HandshakeReplies <- GoodGreetings
    QueryReplies <- BrokenReplies
    PrepareReplies <- SmallPrepared
    Calls <- Commands
    MaxCommands = 2
    EarlyClose = FALSE
    QueueSize = 2
    BufferingUsed = TRUE
    Assertions = TRUE
INVARIANTS
    EofMeansNoMoreRows
    RowReadyIsRow
PROPERTIES
    CommandAnswered
    PendingQuerySent
