SPECIFICATION RolesSpec
CONSTANTS
    Staff = {s1}
    Role = {r1}
    Press = {1, 2}
    MaxIds = 2
INVARIANT NoSecondAssignment
CHECK_DEADLOCK FALSE
