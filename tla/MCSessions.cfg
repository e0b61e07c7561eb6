SPECIFICATION Spec
CONSTANTS
    Users = {u1}
    Requests = {r1, r2}
    Timeout = 2
    MaxSessions = 2
    MaxPasswords = 3
    MaxTime = 3
INVARIANTS
    KnownPassword
PROPERTIES
    IdleEnds
SYMMETRY Symmetry
CHECK_DEADLOCK FALSE
