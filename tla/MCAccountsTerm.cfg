CONSTANTS
    Day = 24
    Offset <- Asuncion
    Workers = {w1}
    Names = {n1}
    Emails = {e1}
    Passes = {p1}
    MaxUsers = 1
    MaxTokens = 1
    MaxTime = 30
    None = None
SPECIFICATION Spec
INVARIANT TokenLivesItsTerm
