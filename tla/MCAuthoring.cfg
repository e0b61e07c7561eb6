SPECIFICATION Spec
CONSTANTS
    q1 = q1
    q2 = q2
    s1 = s1
    w1 = w1
    w2 = w2
    Questions = {q1, q2}
    Students = {s1}
    Points = {1}
    Totals = {1, 2}
    Admins = {w1, w2}
    Nobody = Nobody
INVARIANTS
    SnapshotWithinTotal
    PublishedHasSnapshot
PROPERTIES
    AudienceAdmitted
SYMMETRY Symmetry
CHECK_DEADLOCK FALSE
