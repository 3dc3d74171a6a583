CONSTANTS
    Articles = {a1, a2}
    Calls = {c1, c2}
    MaxPresses = 3
    MaxFailures = 1
    NoCall = NoCall
    NoAnswer = NoAnswer
SPECIFICATION Spec
CHECK_DEADLOCK FALSE
INVARIANTS MarksAreKept
PROPERTY EveryMarkIsSent
