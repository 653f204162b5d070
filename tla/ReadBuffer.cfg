SPECIFICATION Spec
CONSTANTS
    DefaultSize = 8
    Suggested = 5
    Burst = 5
    Header = 1
    Lengths = {2, 3}
    Modulus = 1024
    MaxSize = 64
    MaxBytes = 14
INVARIANTS
    StreamInBuffer
    RoomOffered
    RowsNotOverwritten
