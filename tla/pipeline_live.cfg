SPECIFICATION FairSpec
CONSTANTS
    Workers = {w1, w2}
    Buffers = {b1, b2}
    NpuCount = 2
    TicketLimit = 3
    MaxFrames = 2
    NoBuffer = NoBuffer
CHECK_DEADLOCK FALSE
PROPERTIES BufferReturns StopEndsRun ShutdownCompletes
