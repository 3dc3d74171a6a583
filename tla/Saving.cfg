SPECIFICATION SavingSpec
CONSTANTS
    Users = {ann}
    Pictures = {p1, p2, p3}
    Requests = {r1, r2}
    MaxId = 3
    Entries = 2
    MaxImages = 2
    Limit = 2
    Minute = 1
    MaxEvents = 3
    NoItem = NoItem
    NoRequest = NoRequest
    NoEntry = NoEntry
SYMMETRY Alike
INVARIANTS
    PicturesHaveFiles
    NoFileIsLeft
    NothingIsDoubled
PROPERTY
    StopsWhenFull
CHECK_DEADLOCK FALSE
