SPECIFICATION Spec
CONSTANTS
    AttemptLimit = 1
    MaxAttempts = 3
    Opens = 0
    EndTime = 2
    Duration = 1
    TermDelay = 1
    PrepDelay = 1
    MaxPause = 0
    Threshold = 3
    MaxTime = 2
    Workers = {w1}
    Frames = {f1, f2}
    BrokerOutcomes = {TRUE}
INVARIANTS
    DisqualifiedStaysOut
    StrikesDisqualify
    GrantAccounting
PROPERTIES
    FirstVerdictStands
    SeatPromise
CHECK_DEADLOCK FALSE
