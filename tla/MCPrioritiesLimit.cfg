CONSTANTS
    Workers = {w1, w2}
    Limit = 2
    Texts = {t1}
    MaxSnapshots = 1
    MaxPriorities = 3
    MaxFresh = 0
    Null = Null
    None = None
SPECIFICATION Spec
SYMMETRY WorkerSymmetry
INVARIANT AtMostLimit
