SPECIFICATION IntakeSpec
CONSTANTS
    QuestionIds <- MCIds
    Workbooks <- MCWorkbooks
    CsvFiles <- MCCsvFiles
    Payloads <- MCPayloads
    Languages = {"PYTHON", "CPP"}
    HackerRankConfigured = FALSE
    Inputs = {"", "1", "2"}
    Outputs = {"", "TODO", "x"}
    Marks = {10}
    MaxQuestions = 2
    MaxTests = 3
    MaxEdits = 2
INVARIANTS
    PreviewHonoured
    AcceptedPublishes
    ExamplesArePublic
    ReadyPublishes
CHECK_DEADLOCK FALSE
