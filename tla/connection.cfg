SPECIFICATION FairSpec
CONSTANTS
    c1 = c1
    c2 = c2
    None = None
    Conns = {c1, c2}
    ResponseBytes = 2
    SentBufferSize = 3
    SocketSize = 4
    FaultSets <- const_FaultSets
    MaxPending <- const_MaxPending
INVARIANTS
    TypeOK
    StreamInOrder
    NoUseAfterFree
    StrandedOnlyWhenMet
PROPERTIES
    HeartbeatsAnswered
    GoneAreDeleted
