SPECIFICATION Spec
CONSTANTS
    w1 = w1
    w2 = w2
    Workers = {w1, w2}
    Heads <- MCHeads
    ImageSize = 16
    Threshold = 10240
    SumNoise = 100
    ScoreZp <- MCZp
    SumZp <- MCZp
    BoxZp <- MCZp
    BoxCounts = 8
    Frames <- MCFrames
    Angle <- MCAngle
INVARIANTS TypeOK NonMaxSuppressed MovesTowardsTarget
