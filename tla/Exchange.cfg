SPECIFICATION LiveSpec
CONSTANTS
    Commands = {"QUERY", "PREPARE", "EXECUTE", "RESET", "LONG_DATA", "CLOSE"}
    MaxCommands = 5
INVARIANTS
    CountKept
    AnswerIsOwn
PROPERTIES
    CommandEnds
