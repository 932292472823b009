SPECIFICATION Spec
CONSTANTS
    Sids = {a, b}
    Edits = {e1}
    Slots = {k1, k2}
    Instances = {n1}
    Modes = {TRUE, FALSE}
    RedisEdits = {}
    MaxMoves = 2
    Original = Original
    Free = Free
SYMMETRY Symmetry
INVARIANTS
    TypeOK
    NoMissedUpdate
    UsersMatchRoom
PROPERTIES
    ContentInsertedOnce
    ClearedWhenUnusedInMemory
CHECK_DEADLOCK FALSE
