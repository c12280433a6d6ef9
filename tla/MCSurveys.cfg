CONSTANTS
    Workers = {w1, w2}
    Names <- MCNames
    Attributes <- MCAttributes
    CodeParts <- MCCodeParts
    Schemas <- MCSchemas
    Submissions <- MCSubmissions
    MaxAnswers = 2
    MaxSurveys = 2
    MaxSnapshots = 1
    Null = Null
    None = None
SPECIFICATION Spec
SYMMETRY WorkerSymmetry
INVARIANTS
    TypeOK
    SnapshotsComply
    AnswersReadBack
    PersonIdentified
PROPERTY
    SubmissionsAtomic
