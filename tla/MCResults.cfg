SPECIFICATION FairSpec
CONSTANTS
    Students = {s1}
    MaxAttempts = 2
    Questions = {q1}
    Replies = {"pending"}
    Verdicts = {"right"}
    Points = 3
    Penalty = 1
    Retries = 1
    Faults = 1
    Makers = {p1}
    BrokerOutcomes = {TRUE, FALSE}
INVARIANTS
    TranscriptTruthful
    CertificateFirst
PROPERTIES
    FinalStays
    ResultsArrive
CHECK_DEADLOCK FALSE
