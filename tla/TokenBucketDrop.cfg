SPECIFICATION StreamSpec
CONSTANTS
    CPUs = {c1}
    LimitKbps <- MCLimitKbps
    PacketSizes = {13}
    NsPerUs = 2
    UsPerSec = 12
    Word = 4096
    MaxTime = 16
PROPERTIES
    DropOnlyAboveRate
