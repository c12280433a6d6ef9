CONSTANTS
    Workers = {w1}
    Months = 3
    First <- RealMonths
    PerDay = 1
    Window = 30
    Names <- MCNames
    Lights <- MCLights
    Surveyed <- MCSurveyed
    Forms <- MCForms
    SetBack = 1
    MaxSetBacks = 0
    MaxSnapshots = 1
    None = None
SPECIFICATION Spec
INVARIANT OnlyRecentDeleted
