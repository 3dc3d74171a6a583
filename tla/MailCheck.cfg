SPECIFICATION MailSpec
CONSTANTS
    Last = 3
    Unwanted = {}
    Nameless = {}
    Failing = {1}
    Sticky = {3}
    PerCheck = 2
    MaxEvents = 3
    MaxErrors = 1
    NoCheck = NoCheck
INVARIANTS
    OnceOnly
    NothingIsLost
PROPERTIES
    EveryMessageIsSaved
CHECK_DEADLOCK FALSE
