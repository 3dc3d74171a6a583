SPECIFICATION Spec
CONSTANTS
    here = here
    there = there
    Users = {a}
    MaxId = 2
    Hosts <- MCHosts
    Webs <- MCWebs
    Workers = {w1}
    MaxEvents = 1
    NoFeed = NoFeed
    NoJob = NoJob
PROPERTIES
    OneCopyStops
CHECK_DEADLOCK FALSE
