SPECIFICATION CountdownSpec
CONSTANTS
    AttemptLimit = 1
    MaxAttempts = 2
    Opens = 0
    EndTime = 5
    Duration = 3
    TermDelay = 2
    PrepDelay = 1
    MaxPause = 2
    Threshold = 3
    MaxTime = 6
    Workers = {w1}
    Frames = {f1}
    BrokerOutcomes = {TRUE, FALSE}
INVARIANTS
    TimeBudget
    CountdownArmed
PROPERTIES
    CountdownHonoured
    OverdueStands
    PendingResolves
CHECK_DEADLOCK FALSE
