SPECIFICATION LiveSpec
CONSTANTS
    Pids = {p1}
    Clients = {c1, c2}
    Daemons = {d1, d2}
    NoDaemon = none
    MAX_WATCHED_PIDS = 1
    BACKLOG = 1
    Ops = {"limit"}
    Timeouts = FALSE
    Kills = TRUE
CHECK_DEADLOCK FALSE
PROPERTIES
    WatchedDeathCleaned
    ClientsReturn
    IdleDaemonExits
