SPECIFICATION Spec
CONSTANTS
    Users = {a, b}
    Listers = {b}
    MaxId = 3
    Limit = 1
    PageSize = 1
    MaxWrites = 4
    NoItem = NoItem
    NoEntry = NoEntry
    NoRequest = NoRequest
INVARIANTS
    NoGaps
    NoGhosts
    OnlyOwn
PROPERTY CatchesUp
CHECK_DEADLOCK FALSE
