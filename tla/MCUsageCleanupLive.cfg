SPECIFICATION FairRestartSpec
CONSTANTS
    Instances = {i1, i2}
    Models = {m1}
    Sids = {a}
    TimeoutDuration = 1
    LockTimeout = 3
    Stall = 0
    MaxCrashes = 1
    None = None
INVARIANTS
    OneCleaner
PROPERTIES
    TimedOutIsRemoved
