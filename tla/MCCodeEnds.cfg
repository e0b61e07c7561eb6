SPECIFICATION FairSpec
CONSTANTS
    Clients = {c1}
    Keys = {"run", "s1", "s2"}
    SubmitKeys = {"s1", "s2"}
    MaxJobs = 2
    Workers = {w1, w2}
    Retries = 2
    Sql = TRUE
    Points = 2
    CaseCount = 2
    PublicCount = 1
    Worth <- OnePerCase
    Faults = 2
    BrokerOutcomes = {TRUE}
PROPERTIES
    JobsEnd
CHECK_DEADLOCK FALSE
