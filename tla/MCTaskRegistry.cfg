SPECIFICATION FairSpec
CONSTANTS
    Tasks = {t1, t2}
    Items = {i1, i2}
    Stoppers = {s1, s2}
    NoList = NoList
    NoTask = NoTask
INVARIANTS
    TypeOK
    RunningIsStoppable
    NoStaleEntry
    CancelledHasOneStopper
    StopTaskTellsTruth
    OnlyTaskStopped
PROPERTIES
    StopReturns
    OverIsForgotten
CHECK_DEADLOCK FALSE
