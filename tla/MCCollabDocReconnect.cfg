SPECIFICATION Spec
CONSTANTS
    Sids = {a, b}
    Edits = {}
    Slots = {k1}
    Instances = {n1}
    Modes = {TRUE}
    RedisEdits = {}
    MaxMoves = 3
    Original = Original
    Free = Free
SYMMETRY Symmetry
PROPERTIES
    ClearedWhenUnused
CHECK_DEADLOCK FALSE
