SPECIFICATION MCSpec
CONSTANTS
    \* HcisRoles
    Staff = {s1, s2}
    Role = {r1}
    Press = {1, 2, 3}
    MaxIds = 2
    \* ApplicationAccess and OrganMembers
    Email = {u1}
    Candidate = {u1}
    Application = {a1}
    c1 = c1
    c2 = c2
    Caller = {c1, c2}
    \* OrgDirectory
    Instance = {i1, i2}
    Member = {1, 2}
    Reader = {v1}
    PageSize = 1
    MaxEdits = 2
    MaxRevision = 2
    MaxDay = 2
    \* AccountPage
    Session = {s1, s2}
    Screen = {s1}
    Fetch = {1, 2}
    Names = {1}
    Outside = {"session"}
    MaxChanges = 2
    \* OrganPage
    Person = {s1, s2}
    OrganOnly = {s2}
    CanEndNew = TRUE
    Action = {1, 2}
    NoPerson = NoPerson
    \* KirimOutbox
    Day = 4
    WindowStart = 1
    WindowEnd = 3
    RetryDelays <- MCRetryDelays
    o1 = o1
    o2 = o2
    d1 = d1
    p1 = p1
    Outbox = {o1, o2}
    Device = {d1}
    Process = {p1}
    DeviceOf <- MCDeviceOf
    JenisOf <- MCJenisOf
    PriorityOf <- MCPriorityOf
    TtlOf <- MCTtlOf
    Replying = {}
    Configuration = {{}, {d1}}
    Rate = 1
    RateWindow = 2
    Lease = 2
    SendMax = 1
    MaxNow = 4
    NoRow = NoRow
    NoDevice = NoDevice
VIEW Moving
INVARIANTS PagesOfOneVersion MembersNeedTotp ActsOnItsOwn SaidAndShown EndsWhatWasShown RateRespected ToldWhatHappened
PROPERTIES DirectoryMovesForward
CHECK_DEADLOCK FALSE
