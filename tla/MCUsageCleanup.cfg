SPECIFICATION Spec
CONSTANTS
    Instances = {i1, i2}
    Models = {m1}
    Sids = {a, b}
    TimeoutDuration = 1
    LockTimeout = 2
    Stall = 1
    MaxCrashes = 0
    None = None
SYMMETRY Symmetry
INVARIANTS
    TypeOK
    NoModelWithoutUsage
PROPERTIES
    LossNeedsStaleRead
