SPECIFICATION SignInSpec
CONSTANTS
    People = {ann}
    Admins = {ann}
    WithPassword = {}
    ServerKeys = {google}
    ServerListed = {}
    PasswordLogin = FALSE
    Requests = {r1, r2}
    MaxProviders = 2
    MaxEvents = 3
    NoRow = NoRow
    NoKey = NoKey
    NoRequest = NoRequest
INVARIANT
    SomeoneCanSignIn
CHECK_DEADLOCK FALSE
