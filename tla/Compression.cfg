SPECIFICATION LiveSpec
CONSTANTS
    Commands = {"QUERY", "STMT_CLOSE"}
    MaxPackets = 2
    MaxChunks = 4
    MaxCommands = 2
    Base = 8
INVARIANTS
    PacketsOpened
    EndIsWhole
PROPERTIES
    AnswerRead
