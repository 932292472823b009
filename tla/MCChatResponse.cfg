SPECIFICATION FairSpec
CONSTANTS
    Servers = 2
    MaxToolRetries = 2
    MaxCodeRetries = 1
    MaxChunks = 3
    MaxCalls = 1
    MaxCancels = 2
    None = None
INVARIANTS
    TypeOK
    DoneIsStored
    LossHasCause
    CallsAnswered
    UnansweredHasCause
    EndIsTold
    McpLeftHasCause
PROPERTIES
    ResponseEnds
CHECK_DEADLOCK FALSE
