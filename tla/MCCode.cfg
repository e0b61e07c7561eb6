SPECIFICATION Spec
CONSTANTS
    Clients = {c1, c2}
    Keys = {r1, s1, s2}
    SubmitKeys = {s1, s2}
    MaxJobs = 3
    Workers = {w1, w2}
    Retries = 1
    Sql = FALSE
    Points = 2
    CaseCount = 2
    PublicCount = 1
    Worth <- OnePerCase
    Faults = 2
    BrokerOutcomes = {TRUE, FALSE}
SYMMETRY Symmetry
INVARIANTS
    Backlog
    ProcessingHeld
    CreditJudged
PROPERTIES
    VerdictStands
CHECK_DEADLOCK FALSE
