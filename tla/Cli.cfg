SPECIFICATION MCSpec
CONSTANTS
    Pids = {1, 2}
    NumSlots = 3
    Kind <- MCKind
    Uid <- MCUid
    UID_MIN_DEFAULT = 2
    MaxChanges = 1
    InitialCapacity = 1
    Faults = {"SOCKET", "BIND", "ALLOC", "RECVMSG", "DUMP", "PROC", "REALLOC"}
    Unlimited = 2
    ULONG_MAX = 5
    CommandLines <- MCCommandLines
    CliFaults = {"INIT", "CALLOC", "READ", "LIMIT", "UNSET", "CLEAN"}
    Others = TRUE
INVARIANTS
    CliTypeOK
    ListSound
    ListExact
    ListShowsTyped
PROPERTIES
    LimitsTheListed
    CommandsEnd
