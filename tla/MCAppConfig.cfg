SPECIFICATION Spec
CONSTANTS
    Instances = {i1, i2}
    Keys = {a, b}
    u = u
    v = v
    Values <- MCValues
    Calls = {c, d}
    EnvValue = u
    Imports <- MCImports
    MaxSaves = 3
    MaxCrashes = 1
    None = None
SYMMETRY Symmetry
INVARIANTS
    TypeOK
    ReadsAgree
    RestartKeeps
