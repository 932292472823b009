SPECIFICATION Spec
CONSTANTS
    Tasks = {t1, t2, t3}
    Items = {i1}
    Stoppers = {s1}
    NoList = NoList
    NoTask = NoTask
SYMMETRY Symmetry
INVARIANTS
    ItemStopStopsAll
CHECK_DEADLOCK FALSE
