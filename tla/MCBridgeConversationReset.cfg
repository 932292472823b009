SPECIFICATION Spec
CONSTANTS
    Users = {u1, u2}
    Streams = {s1, s2, s3}
    MaxHistoryTurns = 1
    MaxResets = 1
    Patient = {}
    None = None
SYMMETRY Symmetry
INVARIANTS
    ResetForgets
CHECK_DEADLOCK FALSE
