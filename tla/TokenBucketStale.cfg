SPECIFICATION Spec
CONSTANTS
    CPUs = {c1, c2}
    LimitKbps <- MCLimitKbps
    PacketSizes = {125}
    NsPerUs = 1
    UsPerSec = 2
    Word = 4096
    MaxTime = 4
INVARIANTS
    RateBound
