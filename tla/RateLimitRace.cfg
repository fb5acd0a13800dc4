SPECIFICATION FairSpec
CONSTANTS
    Pids = {p1}
    Callers = {c1, c2}
    Monitor = monitor
    Unlimited = unlimited
    Configs <- MCUploadOnly
    Ops = {"limit", "unregister"}
    Faults = {"LIBCG_CREATE", "LIBCG_ATTACH", "BPF_PIN"}
    PidReuse = FALSE
INVARIANTS
    TypeOK
    NoUnwatchedLimit
PROPERTIES
    ImplementsStore
    DeadLimitsGo
    CallsReturn
