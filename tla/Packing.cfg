SPECIFICATION PackingSpec
CONSTANTS
    Base = 14
    Values = {0, 1, 6, 7, 8, 9, 10, 13, 14, 97, 98, 195, 196, 197, 1371, 1372, 2743, 2744, 2745, 19207, 19208, 38415, 38416, 737896, 737897, 1475790, 737894527, 737894528, 1475789055}
    Years = {0, 15}
    Parts = {0, 1, 13}
    Microseconds = {0, 2745}
    Mantissa = 737895
INVARIANTS
    PackedKept
    ColumnsExact
CHECK_DEADLOCK FALSE
