CONSTANTS
    Workers = {w1, w2}
    Codes = {c1}
    MaxFamilies = 2
    MaxSnapshots = 2
    MaxPriorities = 1
    Null = Null
    None = None
SPECIFICATION Spec
SYMMETRY WorkerSymmetry
INVARIANTS
    TypeOK
    ReferentialIntegrity
    NoStrayFamily
    RequestsConsistent
    DuplicatesBounded
PROPERTIES
    SnapshotIdentity
    RetiredForGood
    KeepsPriorityTable
