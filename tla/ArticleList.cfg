CONSTANTS
    Entries = {e1, e2, e3}
    Published <- Dates
    MaxId = 3
    PageSize = 1
    IdsLimit = 2
    NewestFirst = TRUE
    MaxSeconds = 2
    MaxMarks = 2
    MaxDeletes = 1
    NoArticle = NoArticle
    NoRow = NoRow
    Wanted = {e1, e2}
    BatchSize = 1
    MaxAsks = 1
    MaxFaults = 1
    NoContent = NoContent
SPECIFICATION FullSpec
INVARIANTS NothingIsMissed MarkAllCanBeUndone AppMissesNothing WorkIsUnderWay
PROPERTIES SparesNew
CHECK_DEADLOCK FALSE
