CONSTANTS
    Links = {l1, l2}
    Tags = {t1, t2}
    MaxId = 3
    MaxFolder = 2
    MaxRule = 2
    RulesBatch = 2
    Requests = {q1, q2}
    RuleInputs <- SomeRules
    ListInputs <- SomeLists
    MaxEdits = 2
    MaxRuns = 1
    None = None
SPECIFICATION OrganizeSpec
INVARIANTS SavedOnce NothingIsHollow
PROPERTY RunReachesAll
CHECK_DEADLOCK FALSE
