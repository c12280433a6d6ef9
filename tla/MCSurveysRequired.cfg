CONSTANTS
    Workers = {w1}
    Names <- MCNames
    Attributes <- MCAttributes
    CodeParts <- MCCodeParts
    Schemas <- MCSchemas
    Submissions <- MCSubmissions
    MaxAnswers = 2
    MaxSurveys = 1
    MaxSnapshots = 1
    Null = Null
    None = None
SPECIFICATION Spec
INVARIANT RequiredKept
