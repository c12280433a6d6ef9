CONSTANTS
    Workers = {w1, w2}
    Codes = {c1}
    MaxFamilies = 1
    MaxSnapshots = 2
    MaxPriorities = 1
    Null = Null
    None = None
SPECIFICATION FairSpec
PROPERTIES
    LivesItsLife
    StrayFamilyResolved
