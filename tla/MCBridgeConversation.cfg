SPECIFICATION Spec
CONSTANTS
    Users = {u1, u2}
    Streams = {s1, s2, s3}
    MaxHistoryTurns = 1
    MaxResets = 1
    Patient = {u1}
    None = None
SYMMETRY Symmetry
INVARIANTS
    TypeOK
    ContextIsOwn
    InOrderOnce
PROPERTIES
    PromiseKept
CHECK_DEADLOCK FALSE
