SPECIFICATION Spec
CONSTANTS
    Users = {a, b}
    Listers = {b}
    MaxId = 2
    Limit = 1
    PageSize = 1
    MaxWrites = 4
    NoItem = NoItem
    NoEntry = NoEntry
    NoRequest = NoRequest
INVARIANT AllDeletedAreTold
CHECK_DEADLOCK FALSE
