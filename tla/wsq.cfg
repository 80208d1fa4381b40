SPECIFICATION HSpec
CONSTANTS
    Thieves = {p1, p2}
    Capacity = 1
    MaxPushes = 4
SYMMETRY Symmetry
INVARIANTS TypeOK ExactlyOnce StealReadsHead
PROPERTIES ImplementsAbstract NeverOverstated
