SPECIFICATION MailSpec
CONSTANTS
    Last = 2
    Unwanted = {}
    Nameless = {}
    Failing = {1}
    Sticky = {}
    PerCheck = 1
    MaxEvents = 2
    MaxErrors = 0
    NoCheck = NoCheck
PROPERTY
    NoneIsKeptBack
CHECK_DEADLOCK FALSE
