CONSTANTS
    Workers = {w1, w2}
    Users = {u1}
    MaxApplications = 3
    MaxOrganizations = 2
    MaxFamilies = 1
    SeedApplications = 2
    SeedOrganizations = 1
    Null = Null
    None = None
SPECIFICATION Spec
SYMMETRY Symmetry
INVARIANTS
    TypeOK
    ReferentialIntegrity
    ListingsExact
PROPERTY CreatorSeesFamily
