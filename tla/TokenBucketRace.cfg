SPECIFICATION Spec
CONSTANTS
    CPUs = {c1, c2}
    LimitKbps <- MCLimitKbps
    PacketSizes = {100}
    NsPerUs = 2
    UsPerSec = 2
    Word = 4096
    MaxTime = 5
INVARIANTS
    TypeOK
    RateBoundUpToLateness
    Inv
