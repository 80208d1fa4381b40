SPECIFICATION Spec
CONSTANTS
    Workers = {w1, w2}
    Descriptors <- AllMice
    Moves <- SomeMoves
    MaxButtons = 4
    MaxSends = 3
SYMMETRY Symmetry
INVARIANTS TypeOK SentIsReceived RefusedIsRepeated EveryBitWasGiven
CHECK_DEADLOCK FALSE
