SPECIFICATION UsesSpec
CONSTANTS
    Workers = {w1}
    Files = {f, g}
    Targets = {t}
    Requests <- MCRequests
    MaxRuns = 2
    None = None
    f = f
    g = g
    Threads = {t1, t2}
    MaxModels = 4
SYMMETRY ThreadSymmetry
INVARIANTS
    UsesItsOwn LogSinceDeleted SettingsMet ErrorsReported  ComparesItsOwn
    StackConsistent
CHECK_DEADLOCK FALSE
