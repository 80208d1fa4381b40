CONSTANTS
    N = 4
    Vectors = {v1, v2}
    a = a
    b = b
    Values = {a, b}
    Default = a
    Moved = Moved
    Raw = Raw
    Junk = Junk
    Counts = {0, 1, 2, 3, 4, 5}
    Lists <- MCLists
SPECIFICATION Spec
SYMMETRY VectorSymmetry
INVARIANTS TypeOK CallsSplice
