SPECIFICATION FairSpec
CONSTANTS
    Depth = 2
    Words = 4
    PulpObi = FALSE
    CorevPulp = TRUE
INVARIANTS
    TypeOK
    CountsOutstanding
    RoomForResponses
    FlushesOutstanding
    ReadyForLoopJump
PROPERTIES
    DeliversStream
    KeepsDelivering
