SPECIFICATION InboundSpec
CONSTANTS
    Tenant = {t1, t2}
    Puller = {p1, p2}
    Caller = {c1}
    PageLimit = 1
    MaxPages = 2
    MaxShown = 2
    MaxFaults = 1
    Call = {k1}
    MaxItems = 3
    MaxRevision = 2
    Officer = {o1, o2}
    Body = {b0, b1}
    Emoji = {e1}
    MaxChanges = 2
    Module = {m1, m2}
    Numbers = {1, 2}
    EngineTenant = {e2, e3}
    Typed = {e2}
    Handset = {f1}
    Admin = {d1}
    MaxTurns = 0
    Creation = {q1, q2}
    Edit = {d1}
    AddLimit = 1
    Hour = 1
    MaxTicks = 1
    MaxLost = 1
    Hub = {p1}
    Subject = {s1, s2}
    Lively = {s1}
    Photo = {x1}
    Viewer = {v1}
    PerMinute = 1
    MaxFiles = 2
VIEW Moving
INVARIANTS AppliedInOrderOnce FreshAnswers OneChat UnreadCounts ShownAndNamed CardsReach OneGroupPerKey PhotosOnDisk
CHECK_DEADLOCK FALSE
