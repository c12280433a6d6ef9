CONSTANTS
    Day = 3
    Offset <- West
    Workers = {w1, w2}
    Names = {n1}
    Emails = {e1, e2}
    Passes = {p1, p2}
    MaxUsers = 3
    MaxTokens = 1
    MaxTime = 5
    None = None
SPECIFICATION Spec
SYMMETRY WorkerSymmetry
INVARIANTS
    TypeOK
    SharedNamesBounded
    ResetTargetKept
    TokenNeverOutlivesTerm
    TokenGoodForItsDay
PROPERTY
    ResetsPermitted
