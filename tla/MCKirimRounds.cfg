SPECIFICATION RoundsSpec
CONSTANTS
    Delivery = {w1, w2}
    Process = {s1, s2}
    Batch = 2
    Lease = 1
    PostTime = 1
    MaxAttempts = 2
    FirstDelay = 1
    LongestDelay = 2
    MaxStops = 1
    NoDelivery = NoDelivery
    Tenant = {t1, t2}
    Puller = {p1, p2}
    Caller = {}
    PageLimit = 2
    MaxPages = 2
    MaxShown = 2
    MaxFaults = 1
    Runner = {r1, r2}
    Chat = {h1, h2}
    s1 = s1
    h1 = h1
    h2 = h2
    Messages <- MessagesOfChat
    CopyLimit = 2
    Conversation = {v1}
    WaitLimit = 1
    MaxBreaks = 1
    Module = {m1}
    Numbers = {1}
    EngineTenant = {e2, e3}
    Typed = {e2, e3}
    Handset = {f1}
    Admin = {d1, d2}
    MaxTurns = 1
    Creation = {}
    Edit = {g1, g2}
    AddLimit = 1
    Hour = 1
    MaxTicks = 0
    MaxLost = 1
INVARIANT CopiedOnce
PROPERTIES SuccessStands SettlesForGood EventsArrive StoredImportsEnd StatusCatchesUp GroupsCatchUp
CHECK_DEADLOCK FALSE
