SPECIFICATION LiveSpec
CONSTANTS
    Sizes = {1, 2}
    Records = {1, 2, 3}
    Burst = 2
    DefaultSize = 16
    Modulus = 1024
    MaxCommands = 3
INVARIANTS
    SentEncrypted
    SentIntact
    AnswersKept
PROPERTIES
    CommandEnds
