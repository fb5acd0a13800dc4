SPECIFICATION FairSpec
CONSTANTS
    Pids = {11}
    Unlimited = 1
    Texts <- MCTexts
    PipeLines = 2
    Faults <- MCAllFaults
    Others = TRUE
CHECK_DEADLOCK FALSE
INVARIANTS
    TypeOK
    InStep
    
PROPERTIES
    RequestsReturn
    BackendFollows
