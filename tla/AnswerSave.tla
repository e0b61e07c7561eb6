------------------------------ MODULE AnswerSave -------------------------------
(***************************************************************************)
(* How the answers of one attempt are saved: the student's page            *)
(* (StudentTestRoomPage) with its one debounce timer and its revision      *)
(* counters, the requests on their way, AttemptService.save_answer, the    *)
(* evaluation of a SUBMIT, which stores the submitted source as the answer *)
(* whatever the attempt's status and the row's revision are, and the       *)
(* finalization that reads the answers of a closed attempt.                *)
(*                                                                         *)
(* save_answer locks the attempt and the answer only while it reads them:  *)
(* the transaction ends before the revision is compared and the row is     *)
(* written, so a request is two steps, Read and then Write or Stale.       *)
(***************************************************************************)
EXTENDS Integers

CONSTANTS
    Questions,    \* the snapshot questions of the attempt
    Coding,       \* those whose source can be submitted: coding and SQL
    Contents,     \* what the student may put in an answer; "" clears it
    Requests,     \* bound: requests under way at a time
    Workers,      \* bound: evaluations under way at a time
    MaxRevision   \* bound: revisions the page counts up to

Blank == ""
Nothing == "none"

ASSUME ContentAssumption == Contents \subseteq STRING
ASSUME CodingAssumption == Coding \subseteq Questions
ASSUME BoundAssumption == MaxRevision \in Nat
ASSUME NothingAssumption == Nothing \notin Questions

VARIABLES
    open,       \* TestAttempt.status = IN_PROGRESS
    answer,     \* the response field of AttemptAnswer; is_answered iff not blank
    revision,   \* AttemptAnswer.revision
    writer,     \* history: the client revision of the last save that was stored
    finalized,  \* AssessmentResult.status = FINALIZED
    scored,     \* the answers the finalization read
    submitted,  \* the SUBMITs that passed create_submission's status check
    judged,     \* those of them whose evaluation has ended
    work,       \* the SUBMIT that a worker evaluates
    screen,     \* the page's answers
    timer,      \* the question whose debounced autosave is scheduled
    draft,      \* the answer it will send: the edit's, not the screen's
    clientRev,  \* revisionsRef.current
    executing,  \* executingQuestionId: the button waits for a SUBMIT
    polled,     \* the SUBMITs with a poll of this page under way
    detail,     \* the reply to loadAttemptState on its way, or NoDetail
    request,    \* the requests under way
    overlapped, \* history: was a request read, a source stored, or the attempt
                \* closed, between the two steps of another request?
    strayed     \* history: did the page drop an edit for another question, have
                \* two requests under way, lose one, or load its state while
                \* something was scheduled, under way or changed?

answerVars == <<answer, revision, writer>>
resultVars == <<finalized, scored>>
submitVars == <<submitted, judged, work>>
serverVars == <<open, answerVars, resultVars, submitVars>>
timerVars == <<timer, draft>>
pollVars == <<executing, polled>>
pageVars == <<screen, timerVars, clientRev, pollVars, detail>>
historyVars == <<overlapped, strayed>>
vars == <<serverVars, pageVars, request, historyVars>>

AllContents == Contents \cup {Blank}
Higher(m, n) == IF m >= n THEN m ELSE n

\* SENT to the server, READ by it and not written, SAVED on the way back.  The
\* payload (in the reply rev is server_revision), the copy of the row the
\* handler holds, and whether the page that sent it is still there.
RequestType ==
    [phase : {"SENT", "READ", "SAVED"}, question : Questions,
     content : AllContents, rev : Nat, seen : Nat, answered : BOOLEAN,
     awaited : BOOLEAN]
Idle == [phase |-> "IDLE"]

Source(q, c) == [question |-> q, content |-> c]
SubmissionType == [question : Coding, content : AllContents \ {Blank}]
DetailType == [answer : [Questions -> AllContents], revision : [Questions -> Nat]]
NoDetail == [answer |-> <<>>]

In(p) == {r \in Requests : request[r].phase = p}
Evaluating == {w \in Workers : work[w] # Idle}

TypeOK ==
    /\ open \in BOOLEAN /\ finalized \in BOOLEAN
    /\ answer \in [Questions -> AllContents]
    /\ scored \in [Questions -> AllContents]
    /\ screen \in [Questions -> AllContents]
    /\ revision \in [Questions -> Nat] /\ writer \in [Questions -> Nat]
    /\ clientRev \in [Questions -> Nat]
    /\ timer \in Questions \cup {Nothing} /\ draft \in AllContents
    /\ submitted \subseteq SubmissionType /\ judged \subseteq submitted
    /\ work \in [Workers -> submitted \cup {Idle}]
    /\ executing \in BOOLEAN /\ polled \subseteq submitted
    /\ detail \in DetailType \cup {NoDetail}
    /\ request \in [Requests -> RequestType \cup {Idle}]
    /\ overlapped \in BOOLEAN /\ strayed \in BOOLEAN

\* start_attempt creates an empty answer with revision 1 for every question.
Init ==
    /\ open = TRUE /\ finalized = FALSE
    /\ answer = [q \in Questions |-> Blank]
    /\ scored = [q \in Questions |-> Blank]
    /\ screen = [q \in Questions |-> Blank]
    /\ revision = [q \in Questions |-> 1]
    /\ writer = [q \in Questions |-> 1]
    /\ clientRev = [q \in Questions |-> 1]
    /\ submitted = {} /\ judged = {} /\ work = [w \in Workers |-> Idle]
    /\ executing = FALSE /\ polled = {}
    /\ timer = Nothing /\ draft = Blank /\ detail = NoDetail
    /\ request = [r \in Requests |-> Idle]
    /\ overlapped = FALSE /\ strayed = FALSE

-------------------------------------------------------------------------------
(* The page *)

\* triggerAutosave: the one timer is restarted, whichever question it was for.
Edit(q, c) ==
    /\ open /\ screen[q] # c
    /\ screen' = [screen EXCEPT ![q] = c]
    /\ timer' = q /\ draft' = c
    /\ strayed' = (strayed \/ timer \notin {q, Nothing})
    /\ UNCHANGED <<serverVars, clientRev, pollVars, detail, request, overlapped>>

\* Mutant: the counter is not advanced.
NextRev_Same(q) == clientRev[q]

NextRev(q) == clientRev[q] + 1

\* The timer fires: the page counts the revision up and posts the draft.
Send(r) ==
    /\ timer # Nothing /\ request[r] = Idle
    /\ NextRev(timer) <= MaxRevision
    /\ clientRev' = [clientRev EXCEPT ![timer] = NextRev(timer)]
    /\ request' = [request EXCEPT ![r] =
                     [phase |-> "SENT", question |-> timer,
                      content |-> draft, rev |-> NextRev(timer),
                      seen |-> 0, answered |-> FALSE, awaited |-> TRUE]]
    /\ timer' = Nothing
    /\ strayed' = (strayed \/ \E o \in Requests : request[o] # Idle)
    /\ UNCHANGED <<serverVars, screen, draft, pollVars, detail, overlapped>>

\* The reply SAVED sets the counter to server_revision.
Adopt(r) ==
    /\ r \in In("SAVED")
    /\ clientRev' = [clientRev EXCEPT ![request[r].question] = request[r].rev]
    /\ request' = [request EXCEPT ![r] = Idle]
    /\ UNCHANGED <<serverVars, screen, timerVars, pollVars, detail, historyVars>>

\* applyAuthoritativeCancellation drops the scheduled autosave.
DropTimer ==
    /\ ~open /\ timer # Nothing
    /\ timer' = Nothing
    /\ UNCHANGED <<serverVars, screen, draft, clientRev, pollVars, detail, request,
                   historyVars>>

\* loadAttemptState in the page that is open, when its clock has run down: the
\* server answers, ...
Load ==
    /\ detail = NoDetail
    /\ detail' = [answer |-> answer, revision |-> revision]
    /\ UNCHANGED <<serverVars, screen, timerVars, clientRev, pollVars, request, historyVars>>

Unsettled == timer # Nothing \/ \E r \in Requests : request[r] # Idle

\* ... and its answer replaces the page's answers and counters.  What is
\* scheduled stays so, and so do the requests under way.
Apply ==
    /\ detail # NoDetail
    /\ screen' = detail.answer /\ clientRev' = detail.revision /\ detail' = NoDetail
    /\ strayed' = (strayed \/ Unsettled
                     \/ detail # [answer |-> answer, revision |-> revision])
    /\ UNCHANGED <<serverVars, timerVars, pollVars, request, overlapped>>

\* The page is opened again: it takes what the server has, the timer and the
\* polls are gone, and replies to the old page reach nobody.
Reload ==
    /\ screen' = answer /\ clientRev' = revision
    /\ timer' = Nothing /\ executing' = FALSE /\ polled' = {} /\ detail' = NoDetail
    /\ request' = [r \in Requests |->
                     IF r \in In("SENT") \cup In("READ")
                     THEN [request[r] EXCEPT !.awaited = FALSE] ELSE Idle]
    /\ strayed' = (strayed \/ In("SENT") \cup In("READ") # {})
    /\ UNCHANGED <<serverVars, draft, overlapped>>

-------------------------------------------------------------------------------
(* Submitting code: handleSubmitCode, create_submission, evaluate_submission *)

\* The button waits for the result of the SUBMIT before, or for its polls to give
\* up.  The same source again is the submission that exists.
Submit(q) ==
    /\ open /\ screen[q] # Blank
    /\ ~executing /\ executing' = TRUE
    /\ LET s == Source(q, screen[q]) IN
        /\ submitted' = submitted \cup {s}
        /\ polled' = polled \cup {s}
    /\ UNCHANGED <<open, answerVars, resultVars, judged, work, screen, timerVars,
                   clientRev, detail, request, historyVars>>

\* A worker takes a SUBMIT that has not been judged, whoever else may have it.
Begin(w, s) ==
    /\ s \in submitted \ judged /\ work[w] = Idle
    /\ work' = [work EXCEPT ![w] = s]
    /\ UNCHANGED <<open, answerVars, resultVars, submitted, judged, pageVars, request,
                   historyVars>>

\* The end of an evaluation: the source becomes the answer.  Neither the
\* attempt's status nor the revision is looked at.
Evaluate(w) ==
    /\ work[w] # Idle
    /\ work' = [work EXCEPT ![w] = Idle]
    /\ judged' = judged \cup {work[w]}
    /\ answer' = [answer EXCEPT ![work[w].question] = work[w].content]
    /\ revision' = [revision EXCEPT ![work[w].question] = @ + 1]
    /\ overlapped' = (overlapped \/ In("READ") # {})
    /\ UNCHANGED <<open, writer, resultVars, submitted, pageVars, request, strayed>>

\* A worker is lost, or fails before it has stored anything.
LoseWorker(w) ==
    /\ work[w] # Idle
    /\ work' = [work EXCEPT ![w] = Idle]
    /\ UNCHANGED <<open, answerVars, resultVars, submitted, judged, pageVars, request,
                   historyVars>>

\* The page polls every second, whether the poll before is answered or not, so
\* another one may be under way when it stops.
EndPoll(s) ==
    /\ s \in polled
    /\ executing' = FALSE
    /\ polled' \in {polled, polled \ {s}}

\* A poll that finds the verdict puts the submitted source back on the screen.
ShowResult(s) ==
    /\ s \in judged /\ EndPoll(s)
    /\ screen' = [screen EXCEPT ![s.question] = s.content]
    /\ UNCHANGED <<serverVars, timerVars, clientRev, detail, request, historyVars>>

\* The fifteenth poll, or one that fails.
GiveUp(s) ==
    /\ EndPoll(s)
    /\ UNCHANGED <<serverVars, screen, timerVars, clientRev, detail, request, historyVars>>

-------------------------------------------------------------------------------
(* The network and AttemptService.save_answer *)

\* A failed request, an error reply and STALE_REVISION are alike to the page: it
\* shows Saved and keeps its counter.
Fail(r) ==
    /\ request' = [request EXCEPT ![r] = Idle]
    /\ UNCHANGED <<serverVars, pageVars, overlapped>>

Lose(r) == r \in In("SENT") /\ Fail(r) /\ strayed' = TRUE

\* Mutant: the status is not looked at again under the lock.
MayRead_NoRecheck(r) == r \in In("SENT")

\* The status is checked under the lock; in any other status the request fails.
MayRead(r) == r \in In("SENT") /\ open

Read(r) ==
    /\ MayRead(r)
    /\ overlapped' = (overlapped \/ In("READ") # {})
    /\ request' = [request EXCEPT
                     ![r].phase = "READ",
                     ![r].seen = revision[request[r].question],
                     ![r].answered = answer[request[r].question] # Blank]
    /\ UNCHANGED <<serverVars, pageVars, strayed>>

Refuse(r) == r \in In("SENT") /\ ~open /\ Fail(r) /\ UNCHANGED strayed

\* Mutant: the comparison is off by one.
IsStale_OffByOne(r) == request[r].rev + 1 < request[r].seen /\ request[r].answered

IsStale(r) == request[r].rev <= request[r].seen /\ request[r].answered

Stale(r) == r \in In("READ") /\ IsStale(r) /\ Fail(r) /\ UNCHANGED strayed

NewRevision(r) == Higher(request[r].rev, request[r].seen + 1)

\* answer.save() writes the whole copy.
Write(r) ==
    /\ r \in In("READ") /\ ~IsStale(r)
    /\ LET q == request[r].question IN
        /\ answer' = [answer EXCEPT ![q] = request[r].content]
        /\ revision' = [revision EXCEPT ![q] = NewRevision(r)]
        /\ writer' = [writer EXCEPT ![q] = request[r].rev]
    /\ request' = [request EXCEPT ![r] =
                     IF @.awaited
                     THEN [@ EXCEPT !.phase = "SAVED", !.rev = NewRevision(r),
                                    !.seen = 0, !.answered = FALSE]
                     ELSE Idle]
    /\ UNCHANGED <<open, resultVars, submitVars, pageVars, historyVars>>

-------------------------------------------------------------------------------
(* The rest of the system *)

\* Submission, expiry or cancellation of the attempt, under the row lock.
Close ==
    /\ open
    /\ open' = FALSE
    /\ overlapped' = (overlapped \/ In("READ") # {})
    /\ UNCHANGED <<answerVars, resultVars, submitVars, pageVars, request, strayed>>

\* finalize_attempt: idempotent once FINALIZED.  A coding question is scored by
\* its latest SUBMIT, an SQL question too once that is judged, others by these.
Finalize ==
    /\ ~open /\ ~finalized
    /\ finalized' = TRUE /\ scored' = answer
    /\ UNCHANGED <<open, answerVars, submitVars, pageVars, request, historyVars>>

Next ==
    \/ \E q \in Questions, c \in Contents : Edit(q, c)
    \/ \E r \in Requests :
          \/ Send(r) \/ Adopt(r) \/ Lose(r)
          \/ Read(r) \/ Refuse(r) \/ Stale(r) \/ Write(r)
    \/ \E q \in Coding : Submit(q)
    \/ \E w \in Workers :
          \/ \E s \in submitted : Begin(w, s)
          \/ Evaluate(w) \/ LoseWorker(w)
    \/ \E s \in submitted : ShowResult(s) \/ GiveUp(s)
    \/ DropTimer \/ Load \/ Apply \/ Reload
    \/ Close \/ Finalize

Spec == Init /\ [][Next]_vars

-------------------------------------------------------------------------------
(* Properties *)

\* However requests, evaluations and the verdict on the attempt interleave, a
\* closed attempt's answers change only through saves that were read before it
\* closed and through SUBMITs that were accepted before it closed; once those are
\* judged no evaluation begins, so the answers are final when what is under way
\* then is through.
ClosedDrains ==
    [][~open =>
         /\ In("READ")' \subseteq In("READ")
         /\ submitted' = submitted
         /\ submitted = judged => Evaluating' \subseteq Evaluating
         /\ answer' # answer => \/ In("READ")' # In("READ")
                                \/ Evaluating' # Evaluating]_vars

\* Until two requests overlap, in whatever order they arrive, an answer is never
\* replaced by one the page had sent under a lower or equal revision, unless it
\* was blank; the one thing that may bring an older answer back is the end of
\* the evaluation of a SUBMIT of that question.
NewestKept ==
    [][\A q \in Questions :
          answer[q] # Blank /\ answer'[q] # answer[q] /\ ~overlapped =>
              \/ writer'[q] > writer[q]
              \/ \E w \in Evaluating \ Evaluating' :
                    work[w] = Source(q, answer'[q])]_vars

\* Until two requests, or a request and the close or an evaluation, overlap, the
\* answers of a finalized attempt stay those the finalization read, but for
\* SUBMITs judged too late: then the answer is a source that was submitted.
ScoreMatchesAnswers ==
    finalized /\ ~overlapped =>
        \A q \in Questions :
            \/ scored[q] = answer[q]
            \/ Source(q, answer[q]) \in judged

Quiet == ~Unsettled

\* While the attempt is open, a page with nothing scheduled and nothing under
\* way shows what the server has (its label then reads Saved), if the student
\* never left a question before its autosave was sent, no save was lost and the
\* page never had two of them under way.  Where the two differ, one of them is
\* the source of a SUBMIT that has been judged.
SettledSaved ==
    ~strayed /\ open /\ Quiet =>
        \A q \in Questions :
            \/ answer[q] = screen[q]
            \/ {Source(q, answer[q]), Source(q, screen[q])} \cap judged # {}

================================================================================
