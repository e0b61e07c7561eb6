----------------------------- MODULE QuestionIntake -----------------------------
(***************************************************************************)
(* How a question enters the bank: workbook, CSV file, payload of another  *)
(* platform or the editor of the pages, and what the editor does to it     *)
(* until it is published.  A question passes the same pipeline (Normal,    *)
(* Errors, Warnings) on most of these ways, and is judged again by two     *)
(* more pieces of code: the health view and the validation that publishes. *)
(*                                                                         *)
(* Texts are what those pieces of code tell apart: an input is a value     *)
(* after trimming, "" when it is blank; an output is "" or "TODO" (any of  *)
(* the placeholders) or a text; a statement and the starter codes of the   *)
(* enabled languages are there or not.  What the text says about taking no *)
(* input is left out: it decides only when every output is blank, which is *)
(* an error everywhere.  Every test has a name, so that no question is a   *)
(* legacy one to the validation.  A test is named by a word and a number,  *)
(* and an option by the place of its letter in the alphabet.               *)
(***************************************************************************)
EXTENDS Integers, SequencesExt

CONSTANTS
    QuestionIds,  \* what the rows of a workbook may name a question, "" when they do not
    Workbooks,    \* workbooks that may be uploaded: rows of questions, and the rows of each on
                  \* the other sheets
    CsvFiles,     \* CSV files: sequences of rows
    Payloads,     \* contents of other platforms
    Languages,    \* programming languages
    HackerRankConfigured, \* whether there is a token for HackerRank
    Inputs,       \* inputs of a test, "" when blank
    Outputs,      \* outputs of a test, "" when blank, "TODO" for any of the placeholders
    Marks,        \* points that are typed into the editor
    MaxQuestions, \* bound on the questions of the bank
    MaxTests,     \* bound on the tests of a question in the editor
    MaxEdits      \* bound on the changes made in the editor

(* Tests and options, as they are read or typed; questions of them; rows of the sheets, of a *)
(* CSV file and of a platform.                                                               *)
Names == {"TC", "Sample", "Hidden"} \X Nat
Tests == [id : Names, hidden : BOOLEAN, input : Inputs, output : Outputs, points : Int,
          example : BOOLEAN, verified : BOOLEAN]
Options == [key : Nat, text : BOOLEAN, correct : BOOLEAN]
Supported == {"MCQ", "CODING"}
Types == Supported \cup {"OTHER"}
Entries == [type : Types, statement : BOOLEAN, starters : BOOLEAN, points : Int, negative : Int,
            options : Seq(Options), tests : Seq(Tests)]
Sheets == {"options", "coding", "tests"}
AskedType == [id : QuestionIds, type : Types, statement : BOOLEAN, points : Int, negative : Int]
WorkbookType ==
    [questions : Seq(AskedType),
     options : [QuestionIds -> Seq(Options)], coding : [QuestionIds -> Seq(BOOLEAN)],
     tests : [QuestionIds -> Seq(Tests)], sheets : SUBSET Sheets]
CsvRowType ==
    [type : Types, statement : BOOLEAN, points : Int, options : SUBSET Nat, correct : Nat,
     starter : BOOLEAN, sample : Inputs \X Outputs, unseen : Inputs \X Outputs]
Platforms == {"hackerrank", "leetcode", "zip"}
PayloadType ==
    [source : Platforms, layout : {"listed", "apart", "files"}, tests : Seq(Tests), samples : Nat,
     points : Int, marked : BOOLEAN, reference : BOOLEAN, statement : BOOLEAN, address : BOOLEAN,
     manifest : BOOLEAN, languages : SUBSET Languages, codes : SUBSET Languages]

ASSUME FilesAssumption == /\ Workbooks \subseteq WorkbookType
                          /\ CsvFiles \subseteq Seq(CsvRowType)
                          /\ Payloads \subseteq PayloadType
ASSUME TextsAssumption == {"", "1", "2"} \subseteq Inputs /\ {"", "TODO", "x"} \subseteq Outputs
ASSUME MarksAssumption == /\ HackerRankConfigured \in BOOLEAN
                          /\ Marks \subseteq Nat \ {0}
                          /\ {MaxQuestions, MaxTests, MaxEdits} \subseteq Nat

VARIABLES
    bank,   \* the questions stored, in the order of their creation
    modal,  \* the import under way: what the preview showed, and what became of it
    page,   \* the editor: the question it holds and what the health view said of it
    edits   \* changes made in the editor so far
intakeVars == <<bank, modal, page, edits>>

Case(n) == <<"TC", n>>

-----------------------------------------------------------------------------
(* Questions. *)
Test(id, hidden, input, output, points, example, verified) ==
    [id |-> id, hidden |-> hidden, input |-> input, output |-> output, points |-> points,
     example |-> example, verified |-> verified]
Option(key, text, correct) == [key |-> key, text |-> text, correct |-> correct]
Question(type, statement, starters, points, negative, options, tests) ==
    [type |-> type, statement |-> statement, starters |-> starters, points |-> points,
     negative |-> negative, options |-> options, tests |-> tests]

When(condition, what) == IF condition THEN {what} ELSE {}
Total(tests) ==
    LET sum[k \in 0..Len(tests)] == IF k = 0 THEN 0 ELSE sum[k - 1] + tests[k].points
    IN sum[Len(tests)]
Some(seq, P(_)) == \E i \in DOMAIN seq : P(seq[i])
Twice(seq, Of(_)) == \E i, j \in DOMAIN seq : i < j /\ Of(seq[i]) = Of(seq[j])

NoInput(tests) == /\ \A i \in DOMAIN tests : tests[i].input = ""
                  /\ Some(tests, LAMBDA t : t.output # "")
RepeatsInput(tests) == \E i, j \in DOMAIN tests :
    i < j /\ tests[i].input = tests[j].input /\ ~(NoInput(tests) /\ tests[i].input = "")

-----------------------------------------------------------------------------
(* The pipeline shared by the imports and the form. *)
Clean(t) == [t EXCEPT !.points = IF @ < 1 THEN 1 ELSE @,
                      !.example = @ /\ ~t.hidden,
                      !.verified = @ /\ t.output \notin {"", "TODO"}]

\* Mutant: what does not divide evenly is lost.
SpreadEvenly(tests, total) ==
    IF total < Len(tests) \/ Total(tests) = total THEN tests
    ELSE [i \in DOMAIN tests |-> [tests[i] EXCEPT !.points = total \div Len(tests)]]

\* The points of the question, shared among its tests when they do not add up to them.
Spread(tests, total) ==
    IF total < Len(tests) \/ Total(tests) = total THEN tests
    ELSE [i \in DOMAIN tests |-> [tests[i] EXCEPT !.points =
             total \div Len(tests) + (IF i <= total % Len(tests) THEN 1 ELSE 0)]]

Sample(t) == ~t.hidden /\ t.output # ""
Shows(t) == Sample(t) /\ t.example

\* Mutant: the first test becomes the example, hidden or not.
MarkFirst(tests) == IF tests = <<>> \/ Some(tests, Shows) THEN tests
                    ELSE [tests EXCEPT ![1].example = TRUE]

FirstSample(tests, i) == Sample(tests[i]) /\ \A j \in 1..(i - 1) : ~Sample(tests[j])
MarkExample(tests) ==
    IF Some(tests, Shows) THEN tests
    ELSE [i \in DOMAIN tests |-> [tests[i] EXCEPT !.example = @ \/ FirstSample(tests, i)]]
Pair(t) == <<t.input, t.output>>
ExamplesOf(tests) == {Pair(tests[i]) : i \in {j \in DOMAIN tests : Shows(tests[j])}}

NormalTests(q) ==
    MarkExample(Spread([i \in DOMAIN q.tests |-> Clean(q.tests[i])], q.points))
NormalOptions(q) == IF Len(q.options) < 2 THEN <<>> ELSE q.options
Normal(q) == [q EXCEPT !.options = IF q.type = "MCQ" THEN NormalOptions(q) ELSE <<>>,
                       !.tests = IF q.type = "CODING" THEN NormalTests(q) ELSE <<>>]

Right(options) == {i \in DOMAIN options : options[i].correct}
CorrectOf(options) == {options[i].key : i \in Right(options)}

McqErrors(q) == IF Len(q.options) < 2 THEN {} ELSE
    When(Some(q.options, LAMBDA o : ~o.text), "empty option")
    \cup When(Twice(q.options, LAMBDA o : o.key), "repeated key")
    \cup When(Right(q.options) = {}, "no correct option")
    \cup When(\E i, j \in Right(q.options) : i < j, "several correct options")
CodingErrors(q) ==
    When(~q.starters, "no starter code")
    \cup When(Twice(q.tests, LAMBDA t : t.id), "repeated case")
    \cup When(Some(q.tests, LAMBDA t : t.hidden /\ t.example), "hidden example")
    \cup When(Some(q.tests, LAMBDA t : t.output = ""), "empty output")
    \cup When(q.points < Len(q.tests), "too few points")
Errors(q) ==
    When(~q.statement, "no statement") \cup When(q.points < 1, "no points")
    \cup When(q.negative < 0, "negative penalty")
    \cup When(q.type \notin Supported, "unsupported type")
    \cup (IF q.type = "MCQ" THEN McqErrors(q) ELSE {})
    \cup (IF q.type = "CODING" THEN CodingErrors(q) ELSE {})
Warnings(q) ==
    IF q.type = "MCQ" THEN When(Len(q.options) < 2, "few options") ELSE
    When(Some(q.tests, LAMBDA t : t.output = "TODO"), "placeholder")
    \cup When(RepeatsInput(q.tests), "repeated input")
    \cup When(~Some(q.tests, LAMBDA t : ~t.hidden), "no sample")
    \cup When(~Some(q.tests, LAMBDA t : t.hidden), "no hidden test")

-----------------------------------------------------------------------------
(* What is stored.  The row of a test has no column for being an example. *)
Row(t) == [id |-> t.id, hidden |-> t.hidden, input |-> t.input, output |-> t.output,
           points |-> t.points, verified |-> t.verified]
Rows(tests) == [i \in DOMAIN tests |-> Row(tests[i])]
Stored(q, examples, correct, reference) ==
    [type |-> q.type, status |-> "DRAFT", statement |-> q.statement, starters |-> q.starters,
     points |-> q.points, negative |-> q.negative, options |-> q.options, correct |-> correct,
     tests |-> Rows(q.tests), examples |-> examples, reference |-> reference]
AsShown(q) == Stored(q, ExamplesOf(q.tests), CorrectOf(q.options), FALSE)

(* The importer checks every question again before it creates the first. *)
Refused(batch) == batch = <<>> \/ Some(batch, LAMBDA q : Errors(q) # {})
Imported(batch) == [i \in DOMAIN batch |-> AsShown(Normal(batch[i]))]

(* The form: a draft may lack a correct option, and the points of the tests *)
(* are those that were typed.                                               *)
FormRefused(q) == q.negative > q.points \/ Errors(q) \ {"no correct option"} # {}
Typed(q) == [Normal(q) EXCEPT
    !.options = IF @ = <<>> THEN q.options ELSE @,
    !.tests = [i \in DOMAIN @ |-> [@[i] EXCEPT !.points = q.tests[i].points]]]
Created(q, reference) ==
    Stored(Typed(q), ExamplesOf(Normal(q).tests), CorrectOf(Typed(q).options), reference)

-----------------------------------------------------------------------------
(* The two judgements on a stored question. *)
Verified(d) == \A i \in DOMAIN d.tests : d.tests[i].verified

\* A question takes no input when no test of it has one.
TakesNoInput(d) == NoInput(d.tests)
ExampleCounts(d, e) == e[2] # "" /\ (TakesNoInput(d) \/ e[1] # "")

(* The eleven checks of data in the health view. *)
Described(d) == d.type = "CODING" /\ d.statement
ExamplesCheck(d) == d.examples # {} /\ \A e \in d.examples : ExampleCounts(d, e)
LanguagesCheck(d) == d.starters
TestsCheck(d) ==
    /\ \A hidden \in BOOLEAN : Some(d.tests, LAMBDA t : t.hidden = hidden)
    /\ ~Some(d.tests, LAMBDA t : t.output = "" \/ (t.hidden /\ t.points < 1))
\* The pages never verify a reference solution.
VerificationCheck(d) == ~d.reference /\ d.tests # <<>> /\ Verified(d)
OutputsCheck(d) == d.tests # <<>> /\ ~Some(d.tests, LAMBDA t : t.output = "")
ScoringCheck(d) == d.tests # <<>> /\ ~Some(d.tests, LAMBDA t : t.points < 1)
PointsCheck(d) == Total(d.tests) = d.points

\* Mutant: the view does not compare the inputs of the tests.
ReadyWithRepeats(d) ==
    /\ Described(d) /\ ExamplesCheck(d) /\ LanguagesCheck(d) /\ TestsCheck(d)
    /\ VerificationCheck(d) /\ OutputsCheck(d) /\ ScoringCheck(d) /\ PointsCheck(d)

DataReady(d) ==
    /\ Described(d) /\ ExamplesCheck(d) /\ LanguagesCheck(d) /\ TestsCheck(d)
    /\ VerificationCheck(d) /\ OutputsCheck(d) /\ ScoringCheck(d) /\ PointsCheck(d)
    /\ ~RepeatsInput(d.tests)

McqSound(d) ==
    /\ Len(d.options) >= 2
    /\ ~Some(d.options, LAMBDA o : ~o.text) /\ ~Twice(d.options, LAMBDA o : o.key)
    /\ Some(d.options, LAMBDA o : d.correct = {o.key})
CodingSound(d) ==
    /\ d.tests # <<>> /\ Total(d.tests) = d.points
    /\ ~Some(d.tests, LAMBDA t : t.output = "") /\ ~RepeatsInput(d.tests)
    /\ Verified(d) /\ ~d.reference
Publishable(d) ==
    /\ d.statement /\ d.points >= 1 /\ d.negative <= d.points
    /\ IF d.type = "MCQ" THEN McqSound(d) ELSE CodingSound(d)

-----------------------------------------------------------------------------
(* The workbook: four sheets of rows that name the question they belong to. *)
KeptRows(wb) ==
    LET rows == wb.questions
    IN {i \in DOMAIN rows : /\ rows[i].id # "" /\ rows[i].type \in Supported
                            /\ \A j \in 1..(i - 1) : rows[j].id # rows[i].id}
RowErrors(wb) ==
    LET rows == wb.questions
    IN When(Some(rows, LAMBDA r : r.id = ""), "no id")
       \cup When(\E i, j \in DOMAIN rows : i < j /\ rows[i].id = rows[j].id /\ rows[i].id # "", "repeated id")
       \cup When(Some(rows, LAMBDA r : r.type \notin Supported), "unsupported type")
       \cup When(rows = <<>>, "no questions")

Has(wb, type) == \E i \in KeptRows(wb) : wb.questions[i].type = type
\* The rows of another sheet belong to a question of the type that the sheet is for.
Belong(wb, id, type) ==
    \E i \in KeptRows(wb) : wb.questions[i].id = id /\ wb.questions[i].type = type
\* A row that names no question is skipped.
SheetErrors(wb, sheet, rows, type) ==
    When(Has(wb, type) /\ sheet \notin wb.sheets, "sheet not found")
    \cup When(\E id \in QuestionIds \ {""} : rows[id] # <<>> /\ ~Belong(wb, id, type), "stray row")
OptionErrors(wb) == SheetErrors(wb, "options", wb.options, "MCQ")
CodingRowErrors(wb) == SheetErrors(wb, "coding", wb.coding, "CODING")
TestRowErrors(wb) == SheetErrors(wb, "tests", wb.tests, "CODING")

OptionsOf(wb, id) == wb.options[id]
TestsOf(wb, id) == [i \in DOMAIN wb.tests[id] |-> [wb.tests[id][i] EXCEPT !.verified = TRUE]]
\* A question without a row in the coding sheet has a language and no code to start from.
StartersOf(wb, id) == wb.coding[id] # <<>> /\ \A i \in DOMAIN wb.coding[id] : wb.coding[id][i]
Assembled(wb, r) ==
    Question(r.type, r.statement, r.type = "MCQ" \/ StartersOf(wb, r.id), r.points, r.negative,
             IF r.type = "MCQ" THEN OptionsOf(wb, r.id) ELSE <<>>,
             IF r.type = "CODING" THEN TestsOf(wb, r.id) ELSE <<>>)
AssemblyErrors(q) == When(q.type = "MCQ" /\ Len(q.options) < 2, "few options")

Parsed(wb) == [i \in KeptRows(wb) |-> Assembled(wb, wb.questions[i])]
ParseErrors(wb) ==
    RowErrors(wb) \cup OptionErrors(wb) \cup CodingRowErrors(wb) \cup TestRowErrors(wb)
    \cup UNION {Errors(Parsed(wb)[i]) \cup AssemblyErrors(Parsed(wb)[i]) : i \in KeptRows(wb)}

(* A CSV file: every row is one question, with at most a sample and a hidden test. *)
CsvTest(id, hidden, pair) ==
    Test(id, hidden, pair[1], pair[2], 5, FALSE, pair[2] \notin {"", "TODO"})
CsvTests(r) ==
    LET given(word, hidden, pair) ==
            IF pair = <<"", "">> THEN <<>> ELSE <<CsvTest(<<word, 1>>, hidden, pair)>>
    IN given("Sample", FALSE, r.sample) \o given("Hidden", TRUE, r.unseen)
CsvErrors(r) ==
    When(~r.statement, "no statement") \cup When(r.points < 1, "no points")
    \cup When(r.type = "MCQ" /\ Cardinality(r.options) < 2, "few options")
    \cup When(r.type = "MCQ" /\ r.correct \notin r.options, "no correct option")
    \cup When(r.type = "CODING" /\ r.points < Len(CsvTests(r)), "too few points")
\* The confirmation looks for the options elsewhere than the preview puts them: none arrive.
FromCsv(r) ==
    LET tests == IF r.type = "CODING" THEN CsvTests(r) ELSE <<>>
    IN Question(r.type, r.statement, r.type # "CODING" \/ r.starter, r.points, 0, <<>>,
                Spread(tests, r.points))
\* The questions of the rows without errors, in their order.
CsvQuestions(rows) ==
    LET upTo[i \in 0..Len(rows)] ==
            IF i = 0 THEN <<>>
            ELSE IF CsvErrors(rows[i]) = {} THEN Append(upTo[i - 1], FromCsv(rows[i])) ELSE upTo[i - 1]
    IN upTo[Len(rows)]

(* The payload of another platform. *)
\* Only languages with a starter code are enabled, unless there is no code at all.
Enabled(p) ==
    LET asked == IF p.languages = {} THEN Languages ELSE p.languages
    IN IF p.codes = {} THEN asked
       ELSE IF asked \cap p.codes # {} THEN asked \cap p.codes ELSE p.codes
PointsOf(p) == IF p.points = 0 THEN 10 ELSE p.points

\* A list of all tests, or a list of samples and then one of hidden tests.
Listed(p) == IF p.layout # "apart" THEN p.tests
             ELSE [i \in DOMAIN p.tests |-> [p.tests[i] EXCEPT !.hidden = i > p.samples]]
\* The files of a package: two samples, and the rest is hidden.
FileTests(p) == [i \in DOMAIN p.tests |-> [p.tests[i] EXCEPT !.points = 5, !.hidden = i > 2]]

Says(p) == p.marked /\ p.layout # "files"
PlatformTest(p, t) == [t EXCEPT
    !.example = FALSE, !.verified = IF Says(p) THEN @ ELSE t.output \notin {"", "TODO"}]
PlatformTests(p, raw) == Spread([i \in DOMAIN raw |-> PlatformTest(p, raw[i])], PointsOf(p))
Payloaded(p, raw) == Question("CODING", p.statement, Enabled(p) \subseteq p.codes, PointsOf(p), 0,
                              <<>>, PlatformTests(p, raw))

FromHackerRank(p) == Payloaded(p, Listed(p))
FromLeetCode(p) == Payloaded(p, Listed(p))
FromZip(p) == Payloaded(p, IF p.layout = "files" THEN FileTests(p) ELSE Listed(p))
FromPlatform(p) == IF p.source = "hackerrank" THEN FromHackerRank(p)
                   ELSE IF p.source = "leetcode" THEN FromLeetCode(p) ELSE FromZip(p)

HackerRankRefused(p) == p.source = "hackerrank" /\ ~p.statement /\ ~HackerRankConfigured
LeetCodeRefused(p) == p.source = "leetcode" /\ ~p.statement /\ p.address
ZipRefused(p) == p.source = "zip" /\ ~p.manifest
PlatformRefused(p) ==
    \/ PointsOf(p) < Len(p.tests)
    \/ HackerRankRefused(p) \/ LeetCodeRefused(p) \/ ZipRefused(p)

-----------------------------------------------------------------------------
(* The import: a preview that stores nothing, and its confirmation. *)
\* Bound: questions come into an empty bank only.  None of the code looks at the other questions.
Empty == bank = <<>>
Closed == [source |-> "none", stage |-> "closed", valid |-> FALSE, warned |-> FALSE,
           reference |-> FALSE, shown |-> <<>>, made |-> <<>>]
Previewed(source, valid, warned, reference, shown) ==
    [source |-> source, stage |-> "previewed", valid |-> valid, warned |-> warned,
     reference |-> reference, shown |-> shown, made |-> <<>>]

\* What the preview of a workbook with errors shows is left out: it can only be closed.
PreviewWorkbook(wb) ==
    /\ modal.stage = "closed" /\ page.mode = "closed" /\ Empty
    /\ LET parsed == Parsed(wb)
           valid == ParseErrors(wb) = {} /\ KeptRows(wb) # {}
       IN modal' = Previewed("xlsx", valid, Some(parsed, LAMBDA q : Warnings(q) # {}), FALSE,
                             IF valid THEN [i \in DOMAIN parsed |-> Normal(parsed[i])] ELSE <<>>)
    /\ UNCHANGED <<bank, page, edits>>

\* The modal offers the rows without errors.
PreviewCsv(rows) ==
    /\ modal.stage = "closed" /\ page.mode = "closed" /\ Empty
    /\ modal' = Previewed("csv", CsvQuestions(rows) # <<>>, FALSE, FALSE, CsvQuestions(rows))
    /\ UNCHANGED <<bank, page, edits>>

PreviewPlatform(p) ==
    /\ modal.stage = "closed" /\ page.mode = "closed" /\ Empty /\ ~PlatformRefused(p)
    /\ modal' = Previewed(p.source, TRUE, FALSE, p.reference, <<FromPlatform(p)>>)
    /\ UNCHANGED <<bank, page, edits>>

Concludes(stage, made) == /\ modal' = [modal EXCEPT !.stage = stage, !.made = made]
                     /\ bank' = bank \o made
                     /\ UNCHANGED <<page, edits>>

ConfirmImport ==
    /\ modal.stage = "previewed" /\ modal.valid /\ modal.source \in {"xlsx", "csv"}
    /\ IF Refused(modal.shown) THEN Concludes("refused", <<>>)
       ELSE Concludes("imported", Imported(modal.shown))

\* What comes from HackerRank is to be verified by hand.  A language of a platform without a
\* starter code gets one by default, as it has no entry; the editor's languages always have one.
ConfirmPlatform ==
    /\ modal.stage = "previewed" /\ modal.source \in Platforms
    /\ LET shown == modal.shown[1]
           q == [shown EXCEPT !.statement = TRUE, !.starters = TRUE, !.tests = [i \in DOMAIN @ |->
                    [@[i] EXCEPT !.verified = shown.tests[i].verified /\ modal.source # "hackerrank"]]]
       IN IF FormRefused(q) THEN Concludes("refused", <<>>)
          ELSE Concludes("imported", <<Created(q, modal.reference)>>)

CloseModal == /\ modal.stage # "closed"
              /\ modal' = Closed
              /\ UNCHANGED <<bank, page, edits>>

-----------------------------------------------------------------------------
(* The editor. *)
NoForm == Question("MCQ", FALSE, TRUE, 0, 0, <<>>, <<>>)
Away == [mode |-> "closed", at |-> 0, form |-> NoForm, ready |-> TRUE]
\* Two of the four options that the page begins with.
Blank(type) ==
    IF type = "MCQ"
    THEN Question("MCQ", FALSE, TRUE, 10, 0, <<Option(1, FALSE, TRUE), Option(2, FALSE, FALSE)>>, <<>>)
    ELSE Question("CODING", FALSE, TRUE, 10, 0, <<>>,
                  <<Test(Case(1), FALSE, "1", "x", 5, TRUE, TRUE), Test(Case(2), TRUE, "2", "x", 5, FALSE, TRUE)>>)

\* What can be read of a stored question: no row says which test was an example.
Unmarked(d) ==
    Question(d.type, d.statement, d.starters, d.points, d.negative,
             [i \in DOMAIN d.options |-> [d.options[i] EXCEPT !.correct =
                 @ \/ d.options[i].key \in d.correct]],
             [i \in DOMAIN d.tests |-> Test(d.tests[i].id, d.tests[i].hidden, d.tests[i].input,
                                            d.tests[i].output, d.tests[i].points, FALSE, TRUE)])

\* What the page makes of it: without tests of its own, those of a new question stay.
Loaded(d) == [Unmarked(d) EXCEPT !.tests =
                 IF d.type = "CODING" /\ @ = <<>> THEN Blank("CODING").tests ELSE @]

\* The examples and the correct option that the page sends; it declares every test verified.
Examples(form) == {Pair(form.tests[i]) : i \in {j \in DOMAIN form.tests : form.tests[j].example}}
CorrectOption(form) ==
    LET right == Right(form.options)
    IN IF form.type # "MCQ" THEN {} ELSE IF right = {} THEN {1}
       ELSE {form.options[i].key : i \in {j \in right : \A k \in right : j <= k}}

NewQuestion(type) ==
    /\ page.mode = "closed" /\ modal.stage = "closed" /\ Empty
    /\ page' = [mode |-> "new", at |-> 0, form |-> Blank(type), ready |-> TRUE]
    /\ UNCHANGED <<bank, modal, edits>>

Open(i) ==
    /\ page.mode = "closed" /\ modal.stage = "closed"
    /\ page' = [mode |-> "edit", at |-> i, form |-> Loaded(bank[i]),
                ready |-> bank[i].type = "MCQ" \/ DataReady(bank[i])]
    /\ UNCHANGED <<bank, modal, edits>>
Leave == /\ page.mode # "closed"
         /\ page' = Away
         /\ UNCHANGED <<bank, modal, edits>>

Locked == page.mode = "edit" /\ bank[page.at].status # "DRAFT"
Change(form) ==
    /\ page.mode # "closed" /\ ~Locked /\ edits < MaxEdits /\ form # page.form
    /\ page' = [page EXCEPT !.form = form]
    /\ edits' = edits + 1
    /\ UNCHANGED <<bank, modal>>

\* Mutant: a test that is hidden stays an example.
HideTest(k) == Change([page.form EXCEPT !.tests[k].hidden = ~@])

\* A test that is hidden stops being an example.
ChangeTest(k) ==
    LET t == page.form.tests[k]
        changed == {[t EXCEPT !.hidden = TRUE, !.example = FALSE], [t EXCEPT !.hidden = FALSE]}
                   \cup (IF t.hidden THEN {} ELSE {[t EXCEPT !.example = ~@]})
                   \cup {[t EXCEPT !.input = v] : v \in Inputs}
                   \cup {[t EXCEPT !.output = v] : v \in Outputs}
                   \cup {[t EXCEPT !.points = v] : v \in Marks}
    IN \E c \in changed : Change([page.form EXCEPT !.tests[k] = c])
AddTest ==
    /\ page.form.type = "CODING" /\ Len(page.form.tests) < MaxTests
    /\ LET n == Len(page.form.tests) + 1
           hidden == n > 1
       IN Change([page.form EXCEPT !.tests =
                     Append(@, Test(Case(n), hidden, "", "", 5, ~hidden, TRUE))])
RemoveTest(k) ==
    /\ Len(page.form.tests) > 1
    /\ Change([page.form EXCEPT !.tests = RemoveAt(@, k)])

ChangeOption(k) ==
    \/ Change([page.form EXCEPT !.options[k].text = ~@])
    \/ Change([page.form EXCEPT !.options = [i \in DOMAIN @ |-> [@[i] EXCEPT !.correct = (i = k)]]])
AddOption ==
    /\ page.form.type = "MCQ" /\ Len(page.form.options) < MaxTests
    /\ Change([page.form EXCEPT !.options =
                  Append(@, Option(Len(@) + 1, FALSE, FALSE))])
\* The options are lettered again; when the correct one goes, the first becomes correct.
RemoveOption(k) ==
    /\ Len(page.form.options) > 2
    /\ LET left == RemoveAt(page.form.options, k)
           lost == page.form.options[k].correct
       IN Change([page.form EXCEPT !.options = [i \in DOMAIN left |->
                     Option(i, left[i].text, left[i].correct \/ (lost /\ i = 1))]])
ChangeTexts ==
    \/ Change([page.form EXCEPT !.statement = ~@])
    \/ page.form.type = "CODING" /\ Change([page.form EXCEPT !.starters = ~@])
    \/ \E v \in Marks : Change([page.form EXCEPT !.points = v])
    \/ \E v \in Marks \cup {0} : Change([page.form EXCEPT !.negative = v])

-----------------------------------------------------------------------------
(* Saving and publishing. *)
Filled(form) == [form EXCEPT !.statement = TRUE]
Creates(form) == /\ ~FormRefused(Filled(form))
                 /\ Len(bank) < MaxQuestions
                 /\ bank' = Append(bank, Created(Filled(form), FALSE))
Updated(d, form) == Stored(form, Examples(form), CorrectOption(form), d.reference)
MayUpdate(form) == form.negative <= form.points

\* A new question is opened again once it is saved.
SaveNew ==
    /\ page.mode = "new" /\ Creates(page.form)
    /\ page' = Away
    /\ UNCHANGED <<modal, edits>>
SaveDraft ==
    /\ page.mode = "edit" /\ ~Locked /\ MayUpdate(page.form)
    /\ LET saved == Updated(bank[page.at], page.form)
       IN /\ bank' = [bank EXCEPT ![page.at] = saved]
          /\ page' = [page EXCEPT !.ready = saved.type = "MCQ" \/ DataReady(saved)]
    /\ UNCHANGED <<modal, edits>>

Judged(d) == [d EXCEPT !.status = IF Publishable(d) THEN "PUBLISHED" ELSE @]
\* The page saves and then publishes; when that is refused, a new question stays new.
PublishNew ==
    /\ page.mode = "new" /\ page.ready
    /\ ~FormRefused(Filled(page.form)) /\ Len(bank) < MaxQuestions
    /\ LET made == Judged(Created(Filled(page.form), FALSE))
       IN /\ bank' = Append(bank, made)
          /\ page' = IF made.status = "PUBLISHED" THEN Away ELSE page
    /\ UNCHANGED <<modal, edits>>
PublishEdited ==
    /\ page.mode = "edit" /\ ~Locked /\ page.ready /\ MayUpdate(page.form)
    /\ bank' = [bank EXCEPT ![page.at] = Judged(Updated(@, page.form))]
    /\ UNCHANGED <<modal, page, edits>>

\* The copy of a question goes through the form.
Copied(d) == [Unmarked(d) EXCEPT !.tests = [i \in DOMAIN @ |->
                 [@[i] EXCEPT !.verified = d.tests[i].verified]]]
Duplicate(i) ==
    /\ modal.stage = "closed" /\ page.mode = "closed" /\ Len(bank) < MaxQuestions
    /\ ~FormRefused(Filled(Copied(bank[i])))
    /\ bank' = Append(bank, Created(Filled(Copied(bank[i])), bank[i].reference))
    /\ UNCHANGED <<modal, page, edits>>

IntakeInit == /\ bank = <<>> /\ modal = Closed /\ page = Away /\ edits = 0

Import == \/ \E wb \in Workbooks : PreviewWorkbook(wb)
          \/ \E rows \in CsvFiles : PreviewCsv(rows)
          \/ \E p \in Payloads : PreviewPlatform(p)
          \/ ConfirmImport \/ ConfirmPlatform \/ CloseModal
Edit == \/ \E k \in DOMAIN page.form.tests : ChangeTest(k) \/ RemoveTest(k)
        \/ \E k \in DOMAIN page.form.options : ChangeOption(k) \/ RemoveOption(k)
        \/ AddTest \/ AddOption \/ ChangeTexts
IntakeNext == \/ Import \/ Edit
              \/ \E type \in Supported : NewQuestion(type)
              \/ \E i \in DOMAIN bank : Open(i) \/ Duplicate(i)
              \/ Leave \/ SaveNew \/ SaveDraft \/ PublishNew \/ PublishEdited

IntakeSpec == IntakeInit /\ [][IntakeNext]_intakeVars

-----------------------------------------------------------------------------
StoredTests == [id : Names, hidden : BOOLEAN, input : Inputs, output : Outputs,
                points : Int, verified : BOOLEAN]
StoredQuestions ==
    [type : Types, status : {"DRAFT", "PUBLISHED"}, statement : BOOLEAN, starters : BOOLEAN,
     points : Int, negative : Int, options : Seq(Options), correct : SUBSET Nat,
     tests : Seq(StoredTests), examples : SUBSET (Inputs \X Outputs), reference : BOOLEAN]

\* Types: the editor that edits holds a question of the bank, and a platform shows one question.
IntakeTypeOK ==
    /\ bank \in Seq(StoredQuestions)
    /\ modal \in [source : Platforms \cup {"none", "xlsx", "csv"},
                  stage : {"closed", "previewed", "imported", "refused"},
                  valid : BOOLEAN, warned : BOOLEAN, reference : BOOLEAN,
                  shown : Seq(Entries), made : Seq(StoredQuestions)]
    /\ modal.source \in Platforms => Len(modal.shown) = 1
    /\ page \in [mode : {"closed", "new", "edit"}, at : Nat, form : Entries, ready : BOOLEAN]
    /\ page.mode = "edit" => page.at \in DOMAIN bank
    /\ edits \in Nat

-----------------------------------------------------------------------------
(* Properties. *)

\* What the preview of a workbook accepts, the import accepts, and it stores just what was shown:
\* the questions it is sent back have already been through the pipeline and go through it again.
PreviewHonoured ==
    modal.source = "xlsx" /\ modal.stage \in {"imported", "refused"} =>
        /\ modal.stage = "imported"
        /\ modal.made = [i \in DOMAIN modal.shown |-> AsShown(modal.shown[i])]

\* A workbook imported without a warning can be published as it is, unless a wrong answer costs
\* more than the question is worth: the pipeline leaves nothing to the validation that publishes.
AcceptedPublishes ==
    modal.source = "xlsx" /\ modal.stage = "imported" /\ ~modal.warned =>
        \A i \in DOMAIN modal.made :
            modal.made[i].negative <= modal.made[i].points => Publishable(modal.made[i])

\* Whatever way a question came, each example shown to students is the input and output of one
\* of its sample tests, never of a hidden one alone.
ExamplesArePublic ==
    \A i \in DOMAIN bank : \A e \in bank[i].examples :
        \E s \in DOMAIN bank[i].tests : ~bank[i].tests[s].hidden /\ e = Pair(bank[i].tests[s])

\* A question that the health view calls ready is one that can be published, unless the import
\* gave it a penalty above its points, which the view does not look at.
ReadyPublishes ==
    \A i \in DOMAIN bank :
        DataReady(bank[i]) /\ bank[i].negative <= bank[i].points => Publishable(bank[i])
=============================================================================
