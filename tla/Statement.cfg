SPECIFICATION Spec
CONSTANTS
    ParamCounts = {0, 1, 2}
    ColumnCounts = {1, 2, 3}
    Types = {"LONG", "STRING", "NULL", "DATETIME", "TIME"}
    StringSizes = {2100, 20000}
    DefaultSize = 16384
    Minimum = 2060
    DatetimeSize = 20
    Bits = 2
    MaxLive = 2
INVARIANTS
    ParametersOwned
    DecodedNullsLast
    RowRead
    ExecFits
