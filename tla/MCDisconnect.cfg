SPECIFICATION Spec
CONSTANTS
    Sockets = {s1, s2, s3}
    Grace = 2
    TTL = 4
    MaxTime = 8
    BrokerOutcomes = {TRUE, FALSE}
SYMMETRY Symmetry
PROPERTIES
    FullGrace
    CondemnedOffline
CHECK_DEADLOCK FALSE
