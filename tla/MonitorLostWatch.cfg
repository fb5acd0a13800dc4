SPECIFICATION FairSpec
CONSTANTS
    Pids = {p1}
    Clients = {c1}
    Daemons = {d1, d2}
    NoDaemon = none
    MAX_WATCHED_PIDS = 1
    BACKLOG = 1
    Ops = {"limit", "unregister"}
    Timeouts = FALSE
    Kills = FALSE
PROPERTIES
    DeathCleaned
