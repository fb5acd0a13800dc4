SPECIFICATION Spec
CONSTANTS
    Pids = {p1}
    Callers = {c1, c2}
    Monitor = monitor
    Unlimited = unlimited
    Configs <- MCConfigs
    Ops = {"limit", "unregister", "clean"}
    Faults <- MCAllFaults
    PidReuse = TRUE
INVARIANTS
    PinnedOrHeld
    SoloLimit
    SoloUnregister
    SoloClean
SYMMETRY MCSymmetry
VIEW MCView
