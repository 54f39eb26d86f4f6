SPECIFICATION MCSpec
CONSTANTS
    \* StaffAccess
    hcis = hcis
    h1 = h1
    h2 = h2
    App = {hcis}
    Hcis = hcis
    Order <- MCOrder
    Handler = {h1, h2}
    MaxGrants = 1
    NoHandler = NoHandler
    \* HubSessions
    u1 = u1
    u2 = u2
    Login = {1, 2, 3}
    Person = {u1, u2}
    c1 = c1
    c2 = c2
    AccountCall = {c1, c2}
    MaxAge = 2
    Idle = 1
    LoginTime = 1
    OneUse = TRUE
    MaxNow = 1
    MaxRotations = 1
    MaxCuts = 1
    \* OtpCodes
    n1 = n1
    n2 = n2
    Number = {n1, n2}
    Tab = {c1, c2}
    FirstNumbers <- MCFirstNumbers
    HasEmail = FALSE
    MaxWrong = 1
    CodesPerHour = 1
    Validity = 1
    ResendAfter = 1
    CodeWindow = 1
    MaxTick = 2
    MaxMoves = 1
    \* TrustedDevices
    Device = {c1, c2}
    Lifetime = 1
    MaxDevices = 1
    MaxNonce = 2
    MaxReplaced = 1
    MaxDate = 1
VIEW Moving
SYMMETRY Symmetric
INVARIANTS OneSessionPerLogin TokenKept FiveCodesAnHour TrustIsEarned
PROPERTIES CompletedIsSound NumberProved
CHECK_DEADLOCK FALSE
