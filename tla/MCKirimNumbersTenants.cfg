SPECIFICATION NumbersSpec
CONSTANTS
    Module = {m1, m2}
    Numbers = {1, 2}
    EngineTenant = {e2, e3, e4}
    Typed = {}
    Handset = {f1}
    Admin = {d1}
    MaxTurns = 1
INVARIANT TenantsApart
CHECK_DEADLOCK FALSE
