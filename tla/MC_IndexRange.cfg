CONSTANTS
    MaxByte = 2
    MaxLen = 2
    Attr = 1
    NoBound = NoBound
SPECIFICATION Spec
INVARIANT StringRangeComplete
