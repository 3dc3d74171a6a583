SPECIFICATION Spec
CONSTANTS
    here = here
    there = there
    Users = {a}
    MaxId = 2
    Hosts <- MCHosts
    Webs <- MCWebs
    Workers = {w1, w2}
    MaxEvents = 3
    NoFeed = NoFeed
    NoJob = NoJob
INVARIANTS
    AddressIsItsOwn
PROPERTIES
    FirstFetchIsNotStashed
    SomeCopyUpdates
CHECK_DEADLOCK FALSE
