CONSTANTS
    Workers = {w1, w2}
    Months = 2
    First <- ShortMonths
    PerDay = 2
    Window = 2
    Names <- MCNames
    Lights <- MCLights
    Surveyed <- MCSurveyed
    Forms <- MCForms
    SetBack = 1
    MaxSetBacks = 1
    MaxSnapshots = 2
    None = None
SPECIFICATION Spec
CHECK_DEADLOCK FALSE
SYMMETRY WorkerSymmetry
INVARIANTS
    TypeOK
    OrdersAgree
    RecentNeverSpared
    CountsAgree
