SPECIFICATION Spec
CONSTANTS
    Tasks = {t1, t2}
    Items = {i1}
    Instances = {n1, n2}
    Stoppers = {s1}
    MaxFailures = 0
SYMMETRY Symmetry
INVARIANTS
    ItemListIsComplete
CHECK_DEADLOCK FALSE
