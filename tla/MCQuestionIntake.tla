--------------------------- MODULE MCQuestionIntake ---------------------------
EXTENDS QuestionIntake

\* Tests by position: the first is usually the sample, and the second the hidden one.
First == {Test(Case(1), FALSE, "1", "x", 1, TRUE, TRUE), Test(Case(1), FALSE, "", "x", 1, FALSE, TRUE),
          Test(Case(1), TRUE, "1", "x", 2, FALSE, TRUE), Test(Case(1), FALSE, "1", "TODO", 1, FALSE, TRUE)}
Second == {Test(Case(2), TRUE, "2", "x", 1, FALSE, TRUE), Test(Case(2), TRUE, "1", "x", 1, FALSE, TRUE),
           Test(Case(2), FALSE, "", "x", 2, TRUE, TRUE), Test(Case(2), TRUE, "2", "", 1, FALSE, TRUE),
           Test(Case(2), TRUE, "2", "x", 1, TRUE, TRUE), Test(Case(1), TRUE, "2", "x", 1, FALSE, TRUE)}
TestLists == {<<>>} \cup {<<t>> : t \in First} \cup {<<t, u>> : t \in First, u \in Second}
OptionLists == {<<>>, <<Option(1, TRUE, TRUE)>>}
    \cup {<<Option(1, TRUE, c), Option(key, text, d)>> :
             c, d \in BOOLEAN, key \in {1, 2}, text \in BOOLEAN}

Ask(id, type, points, negative) ==
    [id |-> id, type |-> type, statement |-> TRUE, points |-> points, negative |-> negative]
MCIds == {"", "q1", "q2", "q3"}
Of(id, rows) == [named \in MCIds |-> IF named = id THEN rows ELSE <<>>]
NoRows == [named \in MCIds |-> <<>>]
Book(questions, options, coding, tests, sheets) ==
    [questions |-> questions, options |-> options, coding |-> coding, tests |-> tests,
     sheets |-> sheets]
Starter(id, starter) == Of(id, <<starter>>)

CodingBooks == {Book(<<Ask("q1", "CODING", p, n)>>, NoRows, Starter("q1", TRUE), Of("q1", ts), Sheets) :
                    p \in {1, 3}, n \in {0, 2}, ts \in TestLists}
McqBooks == {Book(<<Ask("q1", "MCQ", 1, n)>>, Of("q1", os), NoRows, NoRows, {"options"}) :
                 n \in {-1, 0, 2}, os \in OptionLists}
\* Two questions, and what goes wrong between the sheets.
TwoTests == <<Test(Case(1), FALSE, "1", "x", 1, TRUE, TRUE), Test(Case(2), TRUE, "2", "x", 1, FALSE, TRUE)>>
TwoOptions == <<Option(1, TRUE, TRUE), Option(2, TRUE, FALSE)>>
Two(second, type) == <<Ask("q1", "CODING", 2, 0), Ask(second, type, 1, 0)>>
OddBooks ==
    {Book(Two(second, type), options, coding, Of("q1", TwoTests), sheets) :
        second \in {"q2", "q1", ""}, type \in {"MCQ", "OTHER"},
        options \in {Of("q2", TwoOptions), Of("q1", TwoOptions),
                     [Of("q2", TwoOptions) EXCEPT ![""] = TwoOptions]},
        coding \in {Starter("q1", TRUE), Starter("q1", FALSE), NoRows, Starter("q3", TRUE)},
        sheets \in {Sheets, {"coding", "tests"}}}
MCWorkbooks == CodingBooks \cup McqBooks \cup OddBooks

Csv(type, points, options, correct, starter, sample, unseen) ==
    [type |-> type, statement |-> TRUE, points |-> points, options |-> options,
     correct |-> correct, starter |-> starter, sample |-> sample, unseen |-> unseen]
CsvRows == {Csv("CODING", p, {}, 0, st, s, u) :
                p \in {1, 3}, st \in BOOLEAN, s \in {<<"1", "x">>, <<"", "">>},
                u \in {<<"2", "x">>, <<"2", "TODO">>, <<"2", "">>}}
           \cup {Csv("MCQ", 1, {1, 2}, c, FALSE, <<"", "">>, <<"", "">>) : c \in {1, 4}}
           \cup {Csv("OTHER", 1, {}, 1, FALSE, <<"", "">>, <<"", "">>)}
MCCsvFiles == {<<r>> : r \in CsvRows}
              \cup {<<Csv("CODING", 3, {}, 0, TRUE, <<"1", "x">>, <<"2", "x">>), r>> : r \in CsvRows}

Payload(source, layout, tests, points, marked, reference) ==
    [source |-> source, layout |-> layout, tests |-> tests, samples |-> 1, points |-> points, marked |-> marked,
     reference |-> reference, statement |-> TRUE, address |-> FALSE, manifest |-> TRUE,
     languages |-> {"PYTHON"}, codes |-> {"PYTHON"}]
PlainPayloads ==
    {Payload(source, "listed", ts, points, marked, FALSE) :
        source \in {"hackerrank", "zip"}, ts \in TestLists, points \in {1, 3}, marked \in BOOLEAN}
    \cup {Payload(source, "listed", ts, 3, TRUE, TRUE) : source \in {"hackerrank", "zip"}, ts \in TestLists}

\* The tests apart or in files, points that are missing, and what may be absent.
Triple == Append(TwoTests, Test(Case(3), FALSE, "", "x", 1, FALSE, TRUE))
OddPayloads ==
    {Payload(source, "apart", TwoTests, points, FALSE, FALSE) :
        source \in {"leetcode", "zip"}, points \in {0, 1, 2}}
    \cup {Payload("zip", "files", ts, 3, marked, FALSE) : ts \in {TwoTests, Triple}, marked \in BOOLEAN}
    \cup {[Payload(source, "listed", TwoTests, 2, TRUE, FALSE) EXCEPT
              !.statement = statement, !.address = address, !.manifest = manifest,
              !.languages = languages, !.codes = codes] :
        source \in {"hackerrank", "leetcode", "zip"}, statement, address, manifest \in BOOLEAN,
        languages \in {{}, {"CPP"}, {"PYTHON", "CPP"}}, codes \in SUBSET {"PYTHON", "CPP"}}
MCPayloads == PlainPayloads \cup OddPayloads
=============================================================================
