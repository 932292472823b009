SPECIFICATION MCFairSpec
CONSTANTS
    Tasks = {t1, t2}
    Items = {i1}
    Instances = {n1, n2}
    Stoppers = {s1}
    MaxFailures = 1
INVARIANTS
    TypeOK
    RunningIsCancellable
    RunningIsListed
    ItemSetsAgreeWithHash
    StaleHasCause
PROPERTIES
    StopTakesEffect
    EndedIsRemoved
CHECK_DEADLOCK FALSE
