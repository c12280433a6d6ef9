CONSTANTS
    Workers = {w1, w2}
    Limit = 1
    Texts = {t1}
    MaxSnapshots = 2
    MaxPriorities = 3
    MaxFresh = 1
    Null = Null
    None = None
SPECIFICATION Spec
SYMMETRY WorkerSymmetry
INVARIANTS
    TypeOK
    LimitOverrunBounded
    LinksSound
    PendingSound
PROPERTIES
    PriorityIdentity
    KeepsPriorityTable
