SPECIFICATION Spec
CONSTANTS
    here = here
    there = there
    Users = {a}
    MaxId = 2
    Hosts <- MCHosts
    Webs <- MCWebs
    Workers = {w1}
    MaxEvents = 3
    NoFeed = NoFeed
    NoJob = NoJob
INVARIANT BacklogStaysOut
CHECK_DEADLOCK FALSE
