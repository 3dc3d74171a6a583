SPECIFICATION Spec
CONSTANTS
    MaxId = 3
    Emails = {x, y}
    Words = {p, q}
    Browsers = {b1, b2}
    Workers = {w1, w2}
    Limit = 2
    MaxEvents = 3
    NoUser = NoUser
    NoLink = NoLink
    NoCookie = NoCookie
    NoJob = NoJob
    NoWord = NoWord
    Anyone = Anyone
SYMMETRY Alike
INVARIANTS
    PasswordEndsSessions
    LinksWorkOnce
    SomeAdminStays
CHECK_DEADLOCK FALSE
