SPECIFICATION Spec
CONSTANTS
    MaxId = 2
    Urls = {u1, u2}
    MaxAttempts = 3
    Delay <- MCDelay
    StaleWork = 3
    Deadline = 2
    BatchSize = 2
    MaxEdits = 2
    MaxFaults = 1
    NoItem = NoItem
    NotWeb = NotWeb
    NoPage = NoPage
    NoCopy = NoCopy
INVARIANTS
    PageMatchesItem
    CopyIsOfItsAddress
PROPERTIES
    ImplementsPageQueue
    EveryPageSettles
CHECK_DEADLOCK FALSE
