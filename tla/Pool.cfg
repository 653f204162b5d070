SPECIFICATION LiveSpec
CONSTANTS
    N = 2
    MaxRows = 2
    MaxCommands = 2
    Statements = TRUE
INVARIANTS
    CommandsKept
    EventsInPlace
PROPERTIES
    EndAfterRowsAnnounced
    AnswerRead
