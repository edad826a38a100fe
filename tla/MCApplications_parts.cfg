SPECIFICATION AllSpec
CONSTANTS
    Handler = {h1, h2}
    Hand = {g1, g2}
    Application = {1, 2}
    Reviewer = {v1, v2, v3}
    MaxReviewers = 2
    f1 = f1
    Field = {f1}
    Forms <- OneForm
    LateForms = FALSE
    Score = {2, 5}
    Aggregate <- RubricConsensus
    Plans <- TwoPlans
    MaxYear = 2
    Slot = {"s"}
    Key = {"a", "b", "c"}
    Fields <- FormFields
    MaxFields = 2
    Value = {"", "yes", "no", "12"}
    Blank = ""
    Fits <- FitsType
    MaxForms = 2
    MaxSubmits = 2
    User = {"u"}
    Kind = {"TITLE", "STORY"}
    Locale = {"de", "en"}
    Hints = {{}, {"social-share"}}
    Template <- Templates
    Reply <- Replies
    Window <- SomeWindow
    InputLength = {9}
    CharsPerToken = 2
    MinTokens = 3
    TokenLimit = 10
    MaxGenerations = 3
SYMMETRY Symmetry
INVARIANTS
    ConsensusIsRight
    FormsAreComplete
    CoachIsFair
PROPERTIES
    AwardsAreFair
CHECK_DEADLOCK FALSE
