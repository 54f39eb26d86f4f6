SPECIFICATION MCSpec
CONSTANTS
    \* PlatformAdmin
    a = a
    b = b
    c = c
    x1 = x1
    x2 = x2
    h1 = h1
    h2 = h2
    Person = {a, b, c}
    Rank <- MCRank
    Proposal = {x1, x2}
    Handler = {h1, h2}
    First = {a, b}
    MaxGrants = 1
    NoProposal = NoProposal
    NoRequest = NoRequest
    \* ApplicationAccess and Governance
    u1 = u1
    u2 = u2
    b1 = b1
    b2 = b2
    p1 = p1
    p2 = p2
    Email = {u1, u2}
    Application = {a1}
    Browser = {b1, b2}
    SessionOf <- MCSessionOf
    UserOf <- MCUserOf
    CacheTtl = 1
    Wait = 1
    MaxClock = 2
VIEW Moving
SYMMETRY Symmetric
INVARIANTS NoDeadlock CardsAreOnesOwn
PROPERTIES FourEyes DecidedForGood
CHECK_DEADLOCK FALSE
