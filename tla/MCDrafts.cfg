CONSTANTS
    Workers = {w1, w2}
    Users = {ana, bea}
    MaxDrafts = 2
    MaxAge = 2
    MaxTime = 3
    SetBack = 1
    None = None
SPECIFICATION Spec
CHECK_DEADLOCK FALSE
SYMMETRY Symmetry
INVARIANTS
    TypeOK
    OwnersExist
PROPERTIES
    DeletedForGood
    AgedForGood
    HandOverStands
