SPECIFICATION Spec
CONSTANTS
    a1 = a1
    h1 = h1
    j1 = j1
    f1 = f1
    w1 = w1
    w2 = w2
    Attempts = {a1}
    Exam = Exam
    Student = Student
    Holds = {h1}
    Exports = {j1}
    Files = {f1}
    Workers = {w1, w2}
    Faults = 1
    ExportRetries = 1
    CleanRetries = 1
    Nobody = Nobody
INVARIANTS
    TombstoneTruthful
    ArchiveHonest
    NoLockCycle
PROPERTIES
    HeldUntouched
SYMMETRY Symmetry
CHECK_DEADLOCK FALSE
