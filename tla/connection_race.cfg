SPECIFICATION Spec
CONSTANTS
    c1 = c1
    c2 = c2
    None = None
    Conns = {c1}
    ResponseBytes = 2
    SentBufferSize = 3
    SocketSize = 4
    FaultSets <- const_Stays
    MaxPending <- const_StaysPending
INVARIANTS
    NothingStranded
