SPECIFICATION EscapingSpec
CONSTANTS
    Characters = {"n", "quote", "double_quote", "backslash", "newline"}
    MaxLength = 2
    MaxParams = 2
INVARIANTS
    BuiltInside
    TextUnderstood
    NumberKept
