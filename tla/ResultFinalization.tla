-------------------------- MODULE ResultFinalization --------------------------
(***************************************************************************)
(* What follows the end of an attempt: the messages that are sent for it,  *)
(* ResultFinalizationService.finalize_attempt with the coins, the          *)
(* permanent summary and the retention record it writes, and the           *)
(* participation certificate.                                              *)
(*                                                                         *)
(* One assessment.  A student's attempts are numbered in the order they    *)
(* are created.  finalize_attempt locks the attempt and is one             *)
(* transaction, hence one action; certificates are made without a lock, in *)
(* the steps CertificateTask, CreateCertificate and Render.  Every         *)
(* question is worth Points, and a wrong choice costs Penalty.             *)
(***************************************************************************)
EXTENDS Integers, FiniteSets

CONSTANTS
    Students,
    MaxAttempts,     \* attempt_limit of the assessment
    Questions,
    Replies,         \* what an answer may be worth when it is looked at
    Verdicts,        \* what code may be worth once it is evaluated
    Points, Penalty, \* points and negative_points of a question
    Retries,         \* max_retries of both tasks
    Faults,          \* bound: exceptions, lost processes and storage errors
    Makers,          \* processes that make certificates
    BrokerOutcomes   \* whether .delay may fail (FALSE) or succeed (TRUE)

ASSUME NumberAssumption ==
    /\ MaxAttempts \in Nat /\ Points \in Nat /\ Penalty \in Nat
    /\ Retries \in Nat /\ Faults \in Nat
ASSUME QuestionAssumption == IsFiniteSet(Questions)
ASSUME ReplyAssumption ==
    /\ Replies \subseteq {"pending", "wrong", "part", "right"}
    /\ Verdicts \subseteq {"wrong", "part", "right"}
ASSUME BrokerAssumption == BrokerOutcomes \subseteq BOOLEAN

VARIABLES
    begun,        \* how many attempts a student has begun
    status, disqualified,  \* of an attempt
    submitted,    \* history: was the attempt ever SUBMITTED?
    reply,        \* the answers and submissions of an attempt
    dispatches,   \* on_commit callbacks that have not run
    messages,     \* task messages the broker may deliver
    result,       \* AssessmentResult with its QuestionResults
    coins,        \* StudentCoinLedger
    summary,      \* HistoricalResultSummary, one per student
    bound,        \* attempts with a RetentionRecord
    certificate,  \* Certificate, one per student
    maker,        \* what a process that makes a certificate is about to do
    forgotten,    \* history: attempts nobody will finalize unless asked
    faults        \* how many faults there were

attemptVars == <<begun, status, disqualified, submitted>>
taskVars == <<dispatches, messages, forgotten, faults>>
resultVars == <<result, coins, summary, bound>>
certificateVars == <<certificate, maker>>
vars == <<attemptVars, reply, taskVars, resultVars, certificateVars>>

Attempts == Students \X (1..MaxAttempts)
StudentOf(a) == a[1]
Kinds == {"result", "certificate"}
Message == [kind : Kinds, attempt : Attempts, retry : 0..Retries]
Statuses == {"NONE", "IN_PROGRESS", "SUBMITTED", "EXPIRED", "CANCELLED"}
Terminal == {"SUBMITTED", "EXPIRED", "CANCELLED"}
Marks == {"skipped", "incorrect", "partial", "correct"}

NoResult == [marks |-> [q \in Questions |-> "skipped"], score |-> 0,
             final |-> FALSE]
NoSummary == [number |-> 0, score |-> 0, completion |-> "NONE"]
NoCertificate == [number |-> 0, status |-> "NONE", pdf |-> FALSE]
Idle == [step |-> "idle", number |-> 0]

TypeOK ==
    /\ begun \in [Students -> 0..MaxAttempts]
    /\ status \in [Attempts -> Statuses]
    /\ disqualified \in [Attempts -> BOOLEAN] /\ submitted \in [Attempts -> BOOLEAN]
    /\ reply \in [Attempts -> [Questions -> {"blank"} \cup Replies \cup Verdicts]]
    /\ dispatches \subseteq Kinds \X Attempts /\ messages \subseteq Message
    /\ result \in [Attempts -> [marks : [Questions -> Marks], score : Nat,
                                final : BOOLEAN]]
    /\ coins \subseteq Attempts \X Questions
    /\ summary \in [Students -> [number : 0..MaxAttempts, score : Nat, completion : Statuses]]
    /\ bound \subseteq Attempts /\ forgotten \subseteq Attempts
    /\ certificate \in [Students -> [number : 0..MaxAttempts, pdf : BOOLEAN,
                                     status : {"NONE", "PENDING", "ISSUED", "FAILED"}]]
    /\ maker \in [Makers -> [step : {"idle"}, number : {0}]
                        \cup [step : {"create"}, attempt : Attempts]
                        \cup [step : {"render"}, student : Students]]
    /\ faults \in Nat

Init ==
    /\ begun = [s \in Students |-> 0]
    /\ status = [a \in Attempts |-> "NONE"]
    /\ disqualified = [a \in Attempts |-> FALSE]
    /\ submitted = [a \in Attempts |-> FALSE]
    /\ reply = [a \in Attempts |-> [q \in Questions |-> "blank"]]
    /\ dispatches = {} /\ messages = {}
    /\ result = [a \in Attempts |-> NoResult]
    /\ coins = {}
    /\ summary = [s \in Students |-> NoSummary]
    /\ bound = {} /\ forgotten = {}
    /\ certificate = [s \in Students |-> NoCertificate]
    /\ maker = [m \in Makers |-> Idle]
    /\ faults = 0

-------------------------------------------------------------------------------
(* The attempt *)

\* AttemptLifecycle has the conditions; here the one before has ended.
Begin(s) ==
    /\ begun[s] < MaxAttempts
    /\ begun[s] > 0 => status[<<s, begun[s]>>] \in Terminal
    /\ begun' = [begun EXCEPT ![s] = @ + 1]
    /\ status' = [status EXCEPT ![<<s, begun[s] + 1>>] = "IN_PROGRESS"]
    /\ UNCHANGED <<disqualified, submitted, reply, taskVars, resultVars, certificateVars>>

\* An answer is saved, or code is submitted that has no verdict yet.
Reply(a, q, r) ==
    /\ status[a] = "IN_PROGRESS"
    /\ reply' = [reply EXCEPT ![a][q] = r]
    /\ UNCHANGED <<attemptVars, taskVars, resultVars, certificateVars>>

\* The evaluation of code ends, before or after the end of the attempt.
Judge(a, q, r) ==
    /\ reply[a][q] = "pending"
    /\ reply' = [reply EXCEPT ![a][q] = r]
    /\ UNCHANGED <<attemptVars, taskVars, resultVars, certificateVars>>

\* submit_attempt, of which the callbacks run after the commit.
Submit(a) ==
    /\ status[a] = "IN_PROGRESS"
    /\ status' = [status EXCEPT ![a] = "SUBMITTED"]
    /\ submitted' = [submitted EXCEPT ![a] = TRUE]
    /\ dispatches' = dispatches \cup {<<k, a>> : k \in Kinds}
    /\ UNCHANGED <<begun, disqualified, reply, messages, forgotten, faults,
                   resultVars, certificateVars>>

\* An expiry, or a termination by the student or by the countdown: no message.
\* A row that is written from a stale copy is AttemptLifecycle's subject.
CloseSilently(a, outcome) ==
    /\ status[a] = "IN_PROGRESS" /\ outcome \in {"EXPIRED", "CANCELLED"}
    /\ status' = [status EXCEPT ![a] = outcome]
    /\ disqualified' = [disqualified EXCEPT ![a] = outcome = "CANCELLED"]
    /\ forgotten' = forgotten \cup {a}
    /\ UNCHANGED <<begun, submitted, reply, dispatches, messages, faults,
                   resultVars, certificateVars>>

-------------------------------------------------------------------------------
(* finalize_attempt *)

\* Mutant: code without a verdict keeps its state as a mark.
MarkOf_Raw(r) == CASE r = "right" -> "correct" [] r = "part" -> "partial"
                   [] r = "wrong" -> "incorrect" [] OTHER -> r

\* Code without a verdict counts as skipped.
MarkOf(r) == CASE r = "right" -> "correct" [] r = "part" -> "partial"
               [] r = "wrong" -> "incorrect" [] OTHER -> "skipped"

NumberOf(marks, m) == Cardinality({q \in Questions : marks[q] = m})

\* Half of the points stands for a partial score; the sum is never negative.
Score(marks) ==
    LET total == Points * NumberOf(marks, "correct")
                 + (Points \div 2) * NumberOf(marks, "partial")
                 - Penalty * NumberOf(marks, "incorrect")
    IN  IF total < 0 THEN 0 ELSE total

ResultOf(a) ==
    LET marks == [q \in Questions |-> MarkOf(reply[a][q])]
    IN  [marks |-> marks, score |-> Score(marks), final |-> TRUE]

\* Mutant: a finalized result is computed again.
AlreadyFinal_Never(a) == FALSE

AlreadyFinal(a) == result[a].final

\* Mutant: the record keeps the best score the student had.
Record_Best(a, end) ==
    LET old == summary[StudentOf(a)].score IN
    [number |-> a[2], completion |-> end,
     score |-> IF old > ResultOf(a).score THEN old ELSE ResultOf(a).score]

\* HistoricalResultSummary.update_or_create, by student and assessment.
Record(a, end) == [number |-> a[2], score |-> ResultOf(a).score, completion |-> end]

\* award_coins_for_finalized_attempt: one row per attempt and question.
CoinsOf(a) == {<<a, q>> : q \in {p \in Questions : ResultOf(a).marks[p] = "correct"}}

\* create_retention_record_for_finalized_attempt; a failure is logged only.
BindRetention(a) ==
    \/ bound' = bound \cup {a} /\ UNCHANGED faults
    \/ faults < Faults /\ faults' = faults + 1 /\ UNCHANGED bound

\* The writes of finalize_attempt; end is the status it reads.
Finalize(a, end) ==
    /\ end \in Terminal
    /\ \/ AlreadyFinal(a) /\ UNCHANGED <<resultVars, faults>>
       \/ /\ ~AlreadyFinal(a)
          /\ result' = [result EXCEPT ![a] = ResultOf(a)]
          /\ coins' = coins \cup CoinsOf(a)
          /\ summary' = [summary EXCEPT ![StudentOf(a)] = Record(a, end)]
          /\ BindRetention(a)

\* GET of the student's result: finalized on demand if there is no row.
View(a) ==
    /\ ~result[a].final
    /\ Finalize(a, status[a])
    /\ forgotten' = forgotten \ {a}
    /\ UNCHANGED <<attemptVars, reply, dispatches, messages, certificateVars>>

\* finalize_assessment_result_task
ResultTask(m) ==
    /\ m.kind = "result"
    /\ messages' = messages \ {m}
    /\ Finalize(m.attempt, status[m.attempt])
    /\ UNCHANGED <<attemptVars, reply, dispatches, forgotten, certificateVars>>

\* Mutant: the message of a task that failed is not sent again.
Again_Once(m) == {}

Again(m) == IF m.retry < Retries THEN {[m EXCEPT !.retry = @ + 1]} ELSE {}

\* Either task raises, or loses its process before it is through.
TaskFails(m) ==
    /\ m \in messages /\ faults < Faults
    /\ faults' = faults + 1
    /\ messages' = (messages \ {m}) \cup Again(m)
    /\ forgotten' = IF m.kind = "result" /\ m.retry = Retries
                    THEN forgotten \cup {m.attempt} ELSE forgotten
    /\ UNCHANGED <<attemptVars, reply, dispatches, resultVars, certificateVars>>

\* The worker is lost: without acks_late its message is not delivered again.
TaskLost(m) ==
    /\ m \in messages /\ faults < Faults
    /\ faults' = faults + 1
    /\ messages' = messages \ {m}
    /\ forgotten' = IF m.kind = "result" THEN forgotten \cup {m.attempt} ELSE forgotten
    /\ UNCHANGED <<attemptVars, reply, dispatches, resultVars, certificateVars>>

-------------------------------------------------------------------------------
(* Dispatch *)

\* The callback for the result: with the broker down it finalizes at once.
DispatchResult(a, sent) ==
    /\ <<"result", a>> \in dispatches
    /\ dispatches' = dispatches \ {<<"result", a>>}
    /\ \/ /\ sent
          /\ messages' = messages \cup {[kind |-> "result", attempt |-> a, retry |-> 0]}
          /\ UNCHANGED <<resultVars, faults, forgotten>>
       \/ /\ ~sent
          /\ Finalize(a, status[a])
          /\ UNCHANGED <<messages, forgotten>>
       \/ /\ ~sent /\ faults < Faults /\ faults' = faults + 1
          /\ forgotten' = forgotten \cup {a}
          /\ UNCHANGED <<messages, resultVars>>
    /\ UNCHANGED <<attemptVars, reply, certificateVars>>

\* The process goes down between the commit and its callbacks, or between them.
LoseDispatch(a) ==
    /\ \E k \in Kinds : <<k, a>> \in dispatches
    /\ faults < Faults /\ faults' = faults + 1
    /\ dispatches' = dispatches \ {<<k, a>> : k \in Kinds}
    /\ forgotten' = IF <<"result", a>> \in dispatches THEN forgotten \cup {a} ELSE forgotten
    /\ UNCHANGED <<attemptVars, reply, messages, resultVars, certificateVars>>

\* The last strike, or the proctor's termination, with the message it sends; a
\* strike may come after the attempt has ended.  If the broker is down the
\* strike finalizes in its own transaction and the proctor's handler does not.
Cancel(a, strike, sent) ==
    /\ \/ strike /\ status[a] \in Terminal \cup {"IN_PROGRESS"} /\ ~disqualified[a]
       \/ ~strike /\ status[a] = "IN_PROGRESS"
    /\ status' = [status EXCEPT ![a] = "CANCELLED"]
    /\ disqualified' = [disqualified EXCEPT ![a] = strike]
    /\ \/ /\ sent
          /\ messages' = messages \cup {[kind |-> "result", attempt |-> a, retry |-> 0]}
          /\ UNCHANGED <<resultVars, forgotten, faults>>
       \/ /\ ~sent /\ strike
          /\ Finalize(a, "CANCELLED")
          /\ UNCHANGED <<messages, forgotten>>
       \/ /\ ~sent /\ ~strike
          /\ forgotten' = forgotten \cup {a}
          /\ UNCHANGED <<messages, resultVars, faults>>
    /\ UNCHANGED <<begun, submitted, reply, dispatches, certificateVars>>

-------------------------------------------------------------------------------
(* The certificate *)

Qualifies(a) == status[a] = "SUBMITTED" /\ ~disqualified[a]

\* Mutant: the newest attempt comes first.
FirstQualifying_Newest(s, n) ==
    Qualifies(<<s, n>>) /\ \A k \in 1..MaxAttempts : Qualifies(<<s, k>>) => k <= n

FirstQualifying(s, n) ==
    Qualifies(<<s, n>>) /\ \A k \in 1..MaxAttempts : Qualifies(<<s, k>>) => n <= k

\* generate_or_get_certificate up to its last read.
GenerateOrGet(p, a) ==
    LET s == StudentOf(a) IN
    /\ maker[p] = Idle
    /\ \/ /\ certificate[s].status = "PENDING"
          /\ maker' = [maker EXCEPT ![p] = [step |-> "render", student |-> s]]
       \/ certificate[s].status \in {"ISSUED", "FAILED"} /\ UNCHANGED maker
       \/ /\ certificate[s] = NoCertificate /\ Qualifies(a)
          /\ \E n \in 1..MaxAttempts :
                 /\ FirstQualifying(s, n)
                 /\ maker' = [maker EXCEPT ![p] = [step |-> "create", attempt |-> <<s, n>>]]
       \/ certificate[s] = NoCertificate /\ ~Qualifies(a) /\ UNCHANGED maker

\* generate_certificate_task
CertificateTask(p, m) ==
    /\ m.kind = "certificate"
    /\ messages' = messages \ {m}
    /\ GenerateOrGet(p, m.attempt)
    /\ UNCHANGED <<attemptVars, reply, dispatches, forgotten, faults, resultVars, certificate>>

\* The callback for the certificate, which also falls back to doing it inline.
DispatchCertificate(p, a, sent) ==
    /\ <<"certificate", a>> \in dispatches
    /\ <<"result", a>> \notin dispatches
    /\ dispatches' = dispatches \ {<<"certificate", a>>}
    /\ \/ /\ sent /\ UNCHANGED maker
          /\ messages' = messages \cup {[kind |-> "certificate", attempt |-> a, retry |-> 0]}
       \/ ~sent /\ GenerateOrGet(p, a) /\ UNCHANGED messages
    /\ UNCHANGED <<attemptVars, reply, forgotten, faults, resultVars, certificate>>

\* Mutant: a certificate that exists is given the attempt at hand.
Created_Overwrite(a) == [number |-> a[2], status |-> "PENDING", pdf |-> FALSE]

\* get_or_create, with the unique key of exam and student.
Created(a) ==
    IF certificate[StudentOf(a)] = NoCertificate
    THEN [number |-> a[2], status |-> "PENDING", pdf |-> FALSE]
    ELSE certificate[StudentOf(a)]

CreateCertificate(p) ==
    /\ maker[p].step = "create"
    /\ LET s == StudentOf(maker[p].attempt) IN
       /\ certificate' = [certificate EXCEPT ![s] = Created(maker[p].attempt)]
       /\ maker' = [maker EXCEPT ![p] =
                       IF certificate'[s].status = "PENDING"
                       THEN [step |-> "render", student |-> s] ELSE Idle]
    /\ UNCHANGED <<attemptVars, reply, taskVars, resultVars>>

\* generate_pdf, on a copy: it writes ISSUED with the file, or FAILED.
Render(p) ==
    /\ maker[p].step = "render"
    /\ \/ /\ certificate' = [certificate EXCEPT ![maker[p].student].status = "ISSUED",
                                                ![maker[p].student].pdf = TRUE]
          /\ UNCHANGED faults
       \/ /\ faults < Faults /\ faults' = faults + 1
          /\ certificate' = [certificate EXCEPT ![maker[p].student].status = "FAILED"]
    /\ maker' = [maker EXCEPT ![p] = Idle]
    /\ UNCHANGED <<attemptVars, reply, dispatches, messages, forgotten, resultVars>>

Regenerate(p, s) ==
    /\ maker[p] = Idle /\ certificate[s] # NoCertificate
    /\ maker' = [maker EXCEPT ![p] = [step |-> "render", student |-> s]]
    /\ UNCHANGED <<attemptVars, reply, taskVars, resultVars, certificate>>

\* The administrator's retry, whatever the status; no code revokes.
RetryGeneration(p, s) == Regenerate(p, s)

\* A download of what is not issued generates it first.
DownloadCertificate(p, s) ==
    /\ certificate[s].status # "ISSUED" \/ ~certificate[s].pdf
    /\ Regenerate(p, s)

-------------------------------------------------------------------------------

StudentStep(s) ==
    \/ Begin(s)
    \/ \E n \in 1..MaxAttempts :
           \/ Submit(<<s, n>>) \/ View(<<s, n>>)
           \/ \E outcome \in {"EXPIRED", "CANCELLED"} : CloseSilently(<<s, n>>, outcome)
           \/ \E q \in Questions, r \in Replies : Reply(<<s, n>>, q, r)
           \/ \E q \in Questions, r \in Verdicts : Judge(<<s, n>>, q, r)

Deliver(a) == \E m \in messages : m.attempt = a /\ ResultTask(m)
Dispatch(a) == \E sent \in BrokerOutcomes : DispatchResult(a, sent)

MakerStep(p) ==
    \/ CreateCertificate(p) \/ Render(p)
    \/ \E m \in messages : CertificateTask(p, m)
    \/ \E a \in Attempts, sent \in BrokerOutcomes : DispatchCertificate(p, a, sent)
    \/ \E s \in Students : DownloadCertificate(p, s) \/ RetryGeneration(p, s)

Next ==
    \/ \E s \in Students : StudentStep(s)
    \/ \E a \in Attempts :
           \/ Deliver(a) \/ Dispatch(a) \/ LoseDispatch(a)
           \/ \E strike \in BOOLEAN, sent \in BrokerOutcomes : Cancel(a, strike, sent)
    \/ \E m \in messages : TaskFails(m) \/ TaskLost(m)
    \/ \E p \in Makers : MakerStep(p)

Spec == Init /\ [][Next]_vars

\* Callbacks run and messages are delivered; nobody is obliged to look.
Fairness == \A a \in Attempts : WF_vars(Deliver(a)) /\ WF_vars(Dispatch(a))

FairSpec == Spec /\ Fairness

-------------------------------------------------------------------------------
(* Properties *)

\* A finalized result is immutable: whatever is delivered or asked again, judged
\* or cancelled later, its marks and score stay and no coin is added or taken.
FinalStays ==
    [][\A a \in Attempts : result[a].final =>
          /\ result'[a].marks = result[a].marks /\ result'[a].score = result[a].score
          /\ result'[a].final
          /\ \A q \in Questions : <<a, q>> \in coins' <=> <<a, q>> \in coins]_vars

\* A student with a finalized result has a permanent record, the record is that
\* of one of his finalized attempts with the score of its result, and what is to
\* be purged one day has its record already.
TranscriptTruthful ==
    /\ \A a \in Attempts : result[a].final => summary[StudentOf(a)].number > 0
    /\ \A s \in Students : summary[s].number > 0 =>
           /\ result[<<s, summary[s].number>>].final
           /\ summary[s].score = result[<<s, summary[s].number>>].score
           /\ summary[s].completion \in Terminal
    /\ \A a \in bound : result[a].final

\* The certificate belongs to an attempt that was submitted, before which the
\* student submitted none that is still in good standing.
CertificateFirst ==
    \A s \in Students : certificate[s].number > 0 =>
        /\ submitted[<<s, certificate[s].number>>]
        /\ \A n \in 1..(certificate[s].number - 1) : ~Qualifies(<<s, n>>)

\* Who holds the attempt that its student must not wait for: a callback or a
\* message brings the result of every attempt that ended, except of those that
\* ended silently or whose message met more faults than it has retries.
ResultsArrive ==
    \A a \in Attempts : status[a] \in Terminal ~> (result[a].final \/ a \in forgotten)

================================================================================
