SPECIFICATION AccountsSpec
CONSTANTS
    a = a
    b = b
    x = x
    s1 = s1
    Calls = {r1, r2}
    Rolls = {a, b}
    Addresses = {x}
    Sections = {s1}
    Files <- MCFiles
    NoSection = NoSection
    Blank = Blank
    Void = Void
    Old = {4}
    MaxAccounts = 4
INVARIANTS
    ImportExplained
    AuditTrailSound
SYMMETRY Symmetry
CHECK_DEADLOCK FALSE
