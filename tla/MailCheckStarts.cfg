SPECIFICATION MailSpec
CONSTANTS
    Last = 1
    Unwanted = {}
    Nameless = {}
    Failing = {}
    Sticky = {}
    PerCheck = 2
    MaxEvents = 3
    MaxErrors = 0
    NoCheck = NoCheck
PROPERTY
    ConnectingStarts
CHECK_DEADLOCK FALSE
