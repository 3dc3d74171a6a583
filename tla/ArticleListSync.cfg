CONSTANTS
    Entries = {e1, e2, e3}
    Published <- Dates
    MaxId = 3
    PageSize = 1
    IdsLimit = 2
    NewestFirst = TRUE
    MaxSeconds = 2
    MaxMarks = 2
    MaxDeletes = 0
    NoArticle = NoArticle
    NoRow = NoRow
    Wanted = {}
    BatchSize = 1
    MaxAsks = 0
    MaxFaults = 0
    NoContent = NoContent
SPECIFICATION FullSpec
INVARIANT AppIsToldAll
CHECK_DEADLOCK FALSE
