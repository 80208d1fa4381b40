SPECIFICATION Spec
CONSTANTS
    Workers = {w1, w2}
    Buffers = {b1, b2}
    NpuCount = 2
    TicketLimit = 3
    MaxFrames = 4
    NoBuffer = NoBuffer
SYMMETRY Symmetry
CHECK_DEADLOCK FALSE
INVARIANTS TypeOK OneOwner NoBufferLost EnoughSeekers NeverAimsAtThePast
