---------------------------- MODULE CodeEvaluation -----------------------------
(***************************************************************************)
(* The code submissions of one attempt to one question: the request that   *)
(* creates them (CodeSubmissionService.create_submission), the Celery task *)
(* that evaluates them (evaluate_code_submission_task, acks_late, at most  *)
(* Retries retries), and the finalization that credits one of them.        *)
(*                                                                         *)
(* create_submission takes no lock: what it reads, the status of the       *)
(* attempt, the quota and the idempotency key, and what it writes are two  *)
(* steps.  An evaluation is two transactions, Begin and Finish, with the   *)
(* sandbox between them: the test cases of a coding question one after the *)
(* other, or one query in a disposable MySQL database.  The limit per      *)
(* minute, a counter in the cache that can only refuse more requests, and  *)
(* what the sandbox compares outputs and rows by are left out.             *)
(***************************************************************************)
EXTENDS Integers, FiniteSets

CONSTANTS
    Clients,     \* requests that may be handled at a time
    Keys,        \* idempotency keys: one per submission type and source code
    SubmitKeys,  \* those of the type SUBMIT; the others are RUN
    MaxJobs,     \* bound: CodeSubmission rows the model has room for
    Workers,     \* Celery workers
    Retries,     \* max_retries of the task
    Sql,         \* whether the question is an SQL question, else a coding question
    Points,      \* the points of the question
    CaseCount, PublicCount,  \* its test cases, and those that are not hidden
    Worth,       \* the points of the test cases of a set together
    Faults,      \* bound: exceptions, lost workers and redeliveries
    BrokerOutcomes  \* whether .delay may fail (FALSE) or succeed (TRUE)

Jobs == 1..MaxJobs
NoKey == "no key"
NoJob == 0

ASSUME KeyAssumption == SubmitKeys \subseteq Keys /\ NoKey \notin Keys
ASSUME ClientAssumption == IsFiniteSet(Clients)
ASSUME NumberAssumption == MaxJobs \in Nat /\ Retries \in Nat /\ Faults \in Nat
ASSUME QuestionAssumption ==
    /\ Sql \in BOOLEAN /\ Points \in Nat
    /\ CaseCount \in Nat \ {0} /\ PublicCount \in 0..CaseCount
    /\ Worth \in [SUBSET (1..CaseCount) -> Nat]
ASSUME BrokerAssumption == BrokerOutcomes \subseteq BOOLEAN

VARIABLES
    open,       \* TestAttempt.status = IN_PROGRESS
    asking,     \* the key of a request that has read and not written yet
    made,       \* CodeSubmission rows in the order of created_at
    key, status, score,  \* idempotency_key, status, score_awarded
    messages,   \* task messages the broker may deliver
    worker,     \* the message a worker holds, not acknowledged
    answerOf,   \* the job whose source is AttemptAnswer.code_response
    finalized, credited, creditedScore,  \* the coding QuestionResult
    faults,     \* how many faults there were
    duplicated  \* history: was a message delivered while it was worked on?

requestVars == <<open, asking, made, key>>
jobVars == <<status, score, answerOf>>
taskVars == <<messages, worker>>
resultVars == <<finalized, credited, creditedScore>>
faultVars == <<faults, duplicated>>
vars == <<requestVars, jobVars, taskVars, resultVars, faultVars>>

Message == [job : Jobs, retry : 0..Retries]
NoMessage == [job |-> NoJob, retry |-> 0]

Waiting == {"QUEUED", "PROCESSING"}
Ended == {"COMPLETED", "FAILED"}

TypeOK ==
    /\ open \in BOOLEAN /\ finalized \in BOOLEAN
    /\ asking \in [Clients -> Keys \cup {NoKey}]
    /\ made \in 0..MaxJobs
    /\ key \in [Jobs -> Keys \cup {NoKey}]
    /\ status \in [Jobs -> {"NONE"} \cup Waiting \cup Ended]
    /\ \A j \in Jobs : status[j] = "NONE" <=> j > made
    /\ score \in [Jobs -> Nat]
    /\ messages \subseteq [job : 1..made, retry : 0..Retries]
    /\ worker \in [Workers -> [job : 1..made, retry : 0..Retries] \cup {NoMessage}]
    /\ answerOf \in 0..made /\ credited \in 0..made
    /\ creditedScore \in Nat /\ faults \in Nat /\ duplicated \in BOOLEAN

Init ==
    /\ open = TRUE
    /\ asking = [c \in Clients |-> NoKey]
    /\ made = 0
    /\ key = [j \in Jobs |-> NoKey]
    /\ status = [j \in Jobs |-> "NONE"]
    /\ score = [j \in Jobs |-> 0]
    /\ messages = {}
    /\ worker = [w \in Workers |-> NoMessage]
    /\ answerOf = NoJob
    /\ finalized = FALSE /\ credited = NoJob /\ creditedScore = 0
    /\ faults = 0 /\ duplicated = FALSE

Existing == 1..made
IsSubmit(j) == key[j] \in SubmitKeys
WithStatus(s) == {j \in Existing : status[j] = s}
Live == WithStatus("QUEUED") \cup WithStatus("PROCESSING")
Asking == {c \in Clients : asking[c] # NoKey}

-------------------------------------------------------------------------------
(* create_submission *)

\* Mutant: the backlog is not looked at.
WithinQuota_NoBacklog == WithStatus("PROCESSING") = {}

WithinQuota ==
    /\ Cardinality(WithStatus("PROCESSING")) < 1
    /\ Cardinality(WithStatus("QUEUED")) < 2

\* Steps 1 to 8: a key that exists returns its submission and changes nothing.
Ask(c, k) ==
    /\ open /\ asking[c] = NoKey
    /\ WithinQuota
    /\ \A j \in Existing : key[j] # k
    /\ asking' = [asking EXCEPT ![c] = k]
    /\ UNCHANGED <<open, made, key, jobVars, taskVars, resultVars, faultVars>>

\* Step 9 and 10.  The row is committed before .delay, which may fail.
Create(c, sent) ==
    /\ asking[c] # NoKey /\ made + 1 \in Jobs
    /\ made' = made + 1
    /\ key' = [key EXCEPT ![made + 1] = asking[c]]
    /\ status' = [status EXCEPT ![made + 1] = "QUEUED"]
    /\ messages' = IF sent THEN messages \cup {[job |-> made + 1, retry |-> 0]}
                           ELSE messages
    /\ asking' = [asking EXCEPT ![c] = NoKey]
    /\ UNCHANGED <<open, score, answerOf, worker, resultVars, faultVars>>

-------------------------------------------------------------------------------
(* evaluate_code_submission_task *)

\* Mutant: a submission that has ended is evaluated again.
MayEvaluate_Again(j) == TRUE

MayEvaluate(j) == status[j] \in Waiting

\* The message is delivered; a submission that has ended is left alone and the
\* message acknowledged, any other is PROCESSING.
Begin(w, m) ==
    /\ worker[w] = NoMessage /\ m \in messages
    /\ messages' = messages \ {m}
    /\ \/ /\ MayEvaluate(m.job)
          /\ status' = [status EXCEPT ![m.job] = "PROCESSING"]
          /\ worker' = [worker EXCEPT ![w] = m]
       \/ ~MayEvaluate(m.job) /\ UNCHANGED <<status, worker>>
    /\ UNCHANGED <<requestVars, score, answerOf, resultVars, faultVars>>

(* What the sandbox makes of a submission.  A run of the test cases says what *)
(* became of each, up to the first that stops it.                            *)
Stops == {"UNAVAILABLE", "NOT_COMPILED"}
CaseOutcomes == {"PASSED", "NOT_PASSED"} \cup Stops

\* Every test case of the question, or for a RUN the public ones, or else a sample of its own.
CasesOf(j) == IF IsSubmit(j) THEN CaseCount ELSE IF PublicCount = 0 THEN 1 ELSE PublicCount

Runs(j) ==
    {run \in UNION {[1..n -> CaseOutcomes] : n \in 1..CasesOf(j)} :
        \A i \in DOMAIN run : i + 1 \in DOMAIN run <=> run[i] \notin Stops /\ i < CasesOf(j)}

OutcomeOf(run) == IF \E i \in DOMAIN run : run[i] = "UNAVAILABLE" THEN "FAILED" ELSE "COMPLETED"

\* calculate_score: all the points if every case passed, else those of the cases that did.
\* A negative mark is floored at 0, so it never shows.
ScoreOf(run) ==
    IF \E i \in DOMAIN run : run[i] = "NOT_COMPILED" THEN 0
    ELSE IF \A i \in DOMAIN run : run[i] = "PASSED" THEN Points
    ELSE Worth[{i \in DOMAIN run : run[i] = "PASSED"}]

\* execute_in_sandbox, by the step at which it ends: the validator, the admin connection, the
\* reference query, the restricted connection, the query, its rows, and the comparison.
SqlVerdict ==
    [malformed |-> "WRONG_ANSWER", refused |-> "UNSAFE_QUERY", unparsed |-> "SYNTAX_ERROR",
     down |-> "SYSTEM_ERROR", reference |-> "SYSTEM_ERROR", restricted |-> "SYSTEM_ERROR",
     interrupted |-> "TIME_LIMIT_EXCEEDED", denied |-> "UNSAFE_QUERY", error |-> "SYNTAX_ERROR",
     failed |-> "RUNTIME_ERROR", overrun |-> "OUTPUT_LIMIT_EXCEEDED",
     differs |-> "WRONG_ANSWER", equal |-> "ACCEPTED"]

\* The second transaction does not look at the status again.  A sandbox that is
\* unavailable makes the submission FAILED (verdict SYSTEM_ERROR), without a
\* retry; a SUBMIT of either outcome becomes the stored answer.
Finish(w, outcome, points) ==
    LET j == worker[w].job IN
    /\ worker[w] # NoMessage
    /\ status' = [status EXCEPT ![j] = outcome]
    /\ score' = [score EXCEPT ![j] = IF IsSubmit(j) THEN points ELSE 0]
    /\ answerOf' = IF IsSubmit(j) THEN j ELSE answerOf
    /\ worker' = [worker EXCEPT ![w] = NoMessage]
    /\ UNCHANGED <<requestVars, messages, resultVars, faultVars>>

EvaluateCode(w) ==
    /\ worker[w] # NoMessage /\ ~Sql
    /\ \E run \in Runs(worker[w].job) : Finish(w, OutcomeOf(run), ScoreOf(run))

\* evaluate_sql_submission
EvaluateSql(w) ==
    /\ worker[w] # NoMessage /\ Sql
    /\ \E step \in DOMAIN SqlVerdict :
          Finish(w, IF SqlVerdict[step] = "SYSTEM_ERROR" THEN "FAILED" ELSE "COMPLETED",
                    IF SqlVerdict[step] = "ACCEPTED" THEN Points ELSE 0)

Fault == faults < Faults /\ faults' = faults + 1

\* Mutants: no limit; one retry less; the message is put back as well.
RetryOf_NoLimit(m) == {[m EXCEPT !.retry = @ + 1]}
RetryOf_Fewer(m) == IF m.retry + 1 < Retries THEN {[m EXCEPT !.retry = @ + 1]} ELSE {}
RetryOf_Twice(m) == {m} \cup RetryOf_NoLimit(m)

\* self.retry, which gives up after Retries times.
RetryOf(m) == IF m.retry < Retries THEN {[m EXCEPT !.retry = @ + 1]} ELSE {}

\* An exception in the task; the submission stays PROCESSING.
Raise(w) ==
    /\ worker[w] # NoMessage /\ Fault
    /\ messages' = messages \cup RetryOf(worker[w])
    /\ worker' = [worker EXCEPT ![w] = NoMessage]
    /\ UNCHANGED <<requestVars, jobVars, resultVars, duplicated>>

\* acks_late: the message of a worker that goes down with its connection to the
\* broker is delivered again.
LoseWorker(w) ==
    /\ worker[w] # NoMessage /\ Fault
    /\ messages' = messages \cup {worker[w]}
    /\ worker' = [worker EXCEPT ![w] = NoMessage]
    /\ UNCHANGED <<requestVars, jobVars, resultVars, duplicated>>

\* The broker takes a worker for lost that is only slow.
Redeliver(w) ==
    /\ worker[w] # NoMessage /\ Fault
    /\ duplicated' = TRUE
    /\ messages' = messages \cup {worker[w]}
    /\ UNCHANGED <<requestVars, jobVars, worker, resultVars>>

-------------------------------------------------------------------------------
(* The attempt and its result *)

Close ==
    /\ open
    /\ open' = FALSE
    /\ UNCHANGED <<asking, made, key, jobVars, taskVars, resultVars, faultVars>>

Submits == {j \in Existing : IsSubmit(j)}

\* coding_submissions_map: the latest SUBMIT replaces the ones before it.
Latest(j) == \A i \in Submits : i <= j

\* Mutant: the latest SUBMIT counts whatever its status.
Counts_Any(j) == TRUE

Counts(j) == status[j] = "COMPLETED"

Finalize ==
    /\ ~open /\ ~finalized
    /\ finalized' = TRUE
    /\ \/ \E j \in Submits :
             /\ Latest(j) /\ Counts(j)
             /\ credited' = j /\ creditedScore' = score[j]
       \/ /\ \A j \in Submits : Latest(j) => ~Counts(j)
          /\ UNCHANGED <<credited, creditedScore>>
    /\ UNCHANGED <<requestVars, jobVars, taskVars, faultVars>>

WorkerStep(w) ==
    \/ \E m \in messages : Begin(w, m)
    \/ EvaluateCode(w) \/ EvaluateSql(w)

Next ==
    \/ \E c \in Clients : \/ \E k \in Keys : Ask(c, k)
                          \/ \E sent \in BrokerOutcomes : Create(c, sent)
    \/ \E w \in Workers : WorkerStep(w) \/ Raise(w) \/ LoseWorker(w) \/ Redeliver(w)
    \/ Close \/ Finalize

Spec == Init /\ [][Next]_vars

\* A worker that has a message works it off; nothing obliges the student.
Fairness == \A w \in Workers : WF_vars(WorkerStep(w))

FairSpec == Spec /\ Fairness

-------------------------------------------------------------------------------
(* Properties *)

\* Requests that read the quota together may all pass it, but no more than that:
\* the submissions that wait or run, and the requests about to add one, are
\* never more than one plus the requests that are handled at a time.
Backlog == Cardinality(Live) + Cardinality(Asking) <= 1 + Cardinality(Clients)

\* A submission is never judged twice, whatever exceptions, retries and lost
\* workers there are, until a message is delivered while it is worked on.
VerdictStands ==
    [][\A j \in Jobs : status[j] \in Ended /\ ~duplicated =>
          status'[j] = status[j] /\ score'[j] = score[j]]_vars

\* Even a message that is delivered twice does not reopen a submission.
EndedStays == [][\A j \in Jobs : status[j] \in Ended => status'[j] \in Ended]_vars

\* Holders of a submission: its messages, and the workers on it.
Held(j) == (\E m \in messages : m.job = j) \/ \E w \in Workers : worker[w].job = j

\* As long as there were no more faults than the task has retries, a submission
\* being processed is held by somebody, so it will be judged.
ProcessingHeld ==
    faults <= Retries => \A j \in Existing : status[j] = "PROCESSING" => Held(j)

\* A finalized question is credited with a SUBMIT that was judged, at the score
\* it has, until a message is delivered while it is worked on.
CreditJudged ==
    credited # NoJob /\ ~duplicated =>
        IsSubmit(credited) /\ status[credited] = "COMPLETED" /\ creditedScore = score[credited]

\* A submission whose message was sent is judged in the end, unless there are
\* more faults than the task has retries.
JobsEnd ==
    \A j \in Jobs :
        (j \in Existing /\ Held(j)) ~> (status[j] \in Ended \/ faults > Retries)

================================================================================
