SPECIFICATION Spec
CONSTANTS
    Workers = {w1}
    Descriptors <- UnitMice
    Moves <- SomeMoves
    MaxButtons = 4
    MaxSends = 2
INVARIANT InsertedIsExtracted
CHECK_DEADLOCK FALSE
