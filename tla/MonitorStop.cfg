SPECIFICATION Spec
CONSTANTS
    Pids = {p1, p2}
    Clients = {c1}
    Daemons = {d1, d2}
    NoDaemon = none
    MAX_WATCHED_PIDS = 1
    BACKLOG = 0
    Ops = {"limit", "unregister", "clean"}
    Timeouts = TRUE
    Kills = TRUE
INVARIANTS
    TypeOK
    CalmCommand
SYMMETRY MCSymmetry
VIEW MCView
