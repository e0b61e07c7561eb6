SPECIFICATION SidesSpec
CONSTANTS
    Questions = {q1, q2}
    Coding = {q1}
    Contents = {"A", "B"}
    Requests = {r1, r2}
    Workers = {w1, w2}
    MaxRevision = 3
SYMMETRY Symmetry
INVARIANTS
    ScoreMatchesAnswers
    SettledSaved
PROPERTIES
    ClosedDrains
    NewestKept
CHECK_DEADLOCK FALSE
