SPECIFICATION Spec
CONSTANTS
    Pids = {p1}
    Callers = {c1}
    Monitor = monitor
    Unlimited = unlimited
    Configs <- MCUploadOnly
    Ops = {"limit", "unregister"}
    Faults = {}
    PidReuse = FALSE
INVARIANTS
    NoOrphanPins
