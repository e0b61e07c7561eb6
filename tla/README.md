# Verification project for ExamIIO (CODEGUARD)

TLA+ models of the parts of ExamIIO whose correctness depends on the order of
events or on rules that several pieces of code state separately: the life of a
test attempt and its countdowns, the saving of answers, the evaluation of code,
results and certificates, the purge of old data, the publication of an
assessment, the intake of questions, sessions and passwords, and accounts. TLC
checks them on small instances, TLAPS proves their main properties for every
value of the constants. All paths below are relative to the repository; `apps/`
stands for `src/backend/apps/`.

## 1. The system

ExamIIO is an examination platform: a Django/DRF application with Channels
WebSockets, Celery workers on a Redis broker, a MySQL database (sqlite in the
tests) and a React frontend. Requests are not wrapped in a transaction as a
whole (`ATOMIC_REQUESTS` is not set); the services open transactions themselves,
and Django's MySQL backend runs them at READ COMMITTED, so a transaction sees
what others commit between two of its reads unless it has locked the row.
Mutual exclusion is `select_for_update`, mostly on `TestAttempt`; many writes are
`save()` of a copy that was read without a lock. What is to happen later is a
delayed Celery message or is done by the next request that looks. The retention
tasks are written to run daily, but the repository schedules none of them; the
models assume that they are started. `TestAttempt.clean` lists legal
transitions, but `save` never calls it.

### Components

| component | state | operations | hard behaviours | what makes it correct |
|---|---|---|---|---|
| attempt lifecycle (`apps/assessments/services.py`, `models.py`, `views.py`) | `TestAttempt` rows: status, start, expiry, disqualified, pending termination | start, resume, reattempt, expire, submit, terminate, pause accounting | expiry on an unlocked copy; rolled back side effects; several attempts | one verdict per attempt; a disqualified attempt never runs again; the deadline is the duration plus the pauses; attempts stay within the limit plus one grant |
| proctoring (`apps/proctoring/services.py`, `views.py`, `tasks.py`) | `ProctoringSession`, `ProctoringEvent`, the pending termination | telemetry, heartbeat, frames, strikes, security cancellation, 120 s countdown | two sources of strikes, one of them without a transaction; messages that cannot be revoked; a broker that is down | the third strike stops a running attempt unless its task is lost on the way; a countdown is armed, not cut short, final once it ran out, and decided |
| live intervention (`apps/invigilation/services.py`) | `ProctorIntervention`, `ProctorReattemptAuthorization` | pause, resume, cancel countdown, terminate, authorize a reattempt | races with the student's requests and with the task | a grant is used once; a pause neither adds nor loses time |
| disconnect countdown (`apps/assessments/consumers.py`, `apps/proctoring/tasks.py:101`) | cache entry `ws_disconnect_<attempt>`, delayed messages | connect, refuse, disconnect, 10 s task | closes handled late, closes of refused connections, several sockets, check-then-lock | the last close is 10 s old; a connected student is not terminated |
| answers (`apps/assessments/services.py:1521`, `src/frontend/src/pages/student/StudentTestRoomPage.tsx`) | `AttemptAnswer` with a revision; the page's answers, timer and counters | debounced autosave, `save_answer`, submit and poll, the end of an evaluation, loads, close, finalization | write outside the lock; lost, late and reordered replies; a second writer that looks at no status and no revision | no older answer replaces a newer one but by a judged SUBMIT; what the page calls saved is saved; results agree with answers |
| code evaluation and sandboxes (`apps/evaluator/`) | `CodeSubmission`, Celery messages, test cases | create, evaluate case by case, retry, credit | check-then-act quota; redelivery, lost workers, exhausted retries | judged once; never left to nobody; credited at the score it has |
| results, coins, history, certificates (`apps/results/`) | `AssessmentResult`, `QuestionResult`, `StudentCoinLedger`, `HistoricalResultSummary`, `Certificate` | dispatch, finalize, read on demand, certify, render | dispatch on commit, retries, second attempts, unlocked makers | a final result stays; the permanent record is one of them; the certificate is of the first attempt that qualifies |
| retention (`apps/retention/`) | `RetentionRecord`, `LegalHold`, `ExportJob`, `FileCleanupQueue`, tombstones | hold, release, purge, scrub, clean, mint, archive | row locks taken one by one, a hold placed while a purge runs, storage that fails | held data is not purged; a tombstone and an archive say what is so; no deadlock |
| authoring (`apps/assessments/services.py:20-1050`, `apps/questions/services.py:1040-1330`) | `Assessment`, `AssessmentQuestion`, `AssessmentAssignment`, `AssessmentSnapshot`, `QuestionVersion` | edit, link, target, publish, archive, delete | stale copies written back, a publication that reads twice | a published assessment has a snapshot within its total and admits its audience |
| question intake (`apps/questions/`, `src/frontend/src/pages/admin/QuestionEditorPage.tsx`) | `Question`, `TestCase`, `MCQOption`, the preview of an import, the editor's form | preview, confirm, open, edit, save, publish, health | the same rules in five pieces of code; round trips that lose a field | what the preview accepts is imported as shown and publishes; examples are public |
| sessions (`apps/accounts/views.py`, `session_policy.py`, `middleware.py`) | Django sessions, password flags of user and profile | sign in and out, idle time-out, WebSocket handshake, change, reset, disable | a request that stores the session row it once loaded | no session without the password; an idle session is served nothing over HTTP |
| accounts (`apps/accounts/services.py`, `views.py`) | students, administrators, sections, the sequence of numbers, the audit log | create, move, delete, import a file | checks outside the transaction, a process that dies between two rows | a valid row is created; the audit log accounts for every account |
| inference policies, console, core and settings, deployment | tables, or none of their own | read, render | none | - |

The parts interact through the rows they share: proctoring, intervention and
the consumer all write `TestAttempt`; the finalization reads what the answers
and the submissions left there; its retention record is what the purge begins
with; a reset of a password ends sessions. Celery messages connect a handler
with its later self. `PROJECT.json` lists each component with its status, and
under `hazards` the places that are hard to test with the properties that watch
them.

## 2. Modules

| module | models | source |
|---|---|---|
| `AttemptLifecycle` | the attempts of one student at one assessment, with every handler of the first three components that changes them | `apps/assessments`, `apps/proctoring`, `apps/invigilation` services |
| `AttemptSeat` | the abstract promise of the attempt service: numbering, one conclusion per attempt, at most one grant | (specification) |
| `DisconnectCountdown` | sockets and refused handshakes, the shared cache entry, the 10 s task | `consumers.py`, `tasks.py` |
| `AnswerSave` | the page with its timer, polls and loads, requests under way, `save_answer` in two steps, SUBMITs and the evaluations that store their source, close, finalization | `services.py`, `evaluator/services.py`, `StudentTestRoomPage.tsx` |
| `CodeEvaluation` | `create_submission` in two steps, Celery messages, evaluation in two transactions with its test cases, the SQL sandbox, credit | `apps/evaluator` |
| `ResultFinalization` | dispatch, the two tasks with their retries, `finalize_attempt`, coins, the permanent summary, certificates | `apps/results` |
| `Retention` | transactions that take row locks one after the other: purge, holds, cleanup queue, tombstones, archives; the tasks with their retries | `apps/retention` |
| `Authoring` | requests that read, check and write back a copy: bank, draft, audience, publication | `apps/assessments`, `apps/questions` services |
| `QuestionIntake` | the pipeline of a question on each of its ways into the bank, the editor, the health view, the publication check | `apps/questions`, the editor and import dialogs |
| `Sessions` | requests that load a session row and store it when they answer; WebSocket handshakes; change and reset of a password | `apps/accounts` |
| `Accounts` | requests that check, then write; the import of a file row by row; the audit log | `apps/accounts`, `BulkImportModal.tsx` |
| `MC...` | instances for TLC: model values, symmetry, restricted next-state relations, and statements of documents the code does not keep | - |
| `..._proofs` | theorems | - |

### How code becomes actions

* A handler that holds the row lock from its first read to its commit is one
  action. `submit_attempt` is `Submit`, `_execute_expiration_locked` is
  `ExecuteExpiration`, `finalize_attempt` is `Finalize`; `PROJECT.json` (`map`)
  names the lines.
* A handler that reads before and writes after a lock, or without one, is two
  actions or more. `check_and_expire_attempt_if_needed` is `ReadLapsed` and
  `WriteExpired`; `save_answer` is `Read` and `Write` (or `Stale`);
  `create_submission` is `Ask` and `Create`; an evaluation is `Begin` and
  `Finish`; `check_websocket_disconnect_task` is `CheckToken` and `Terminate`;
  `process_proctoring_frame_task`, which has no transaction, is `RecordStrike`
  (the event is stored), `JudgeStrikes` (the events are counted, the session is
  saved) and `Condemn` (the attempt is saved), and `LoseFrame` between any two;
  in `Authoring` a request carries the copy it loaded, in `Sessions` the session
  row, in `Accounts` what its checks found.
* Where the order of locks is the point, each lock is a step: a worker of
  `Retention` takes the rows that `LocksOf` lists for its transaction one by one, reads under
  the last and writes in a step of its own.
* An error path inside `transaction.atomic` rolls everything back and is no
  step at all. This is why `Submit` has no branch for an overdue termination
  (`apps/assessments/services.py:1651-1660` executes it and then raises) and
  why `StartAttempt` expires a lapsed attempt only if it then creates one.
* A Celery message is an element of a set, with the time it is due where that
  matters; a task consumes it and does whatever the row then allows.  A
  `self.retry` sends it again, with one retry less.  `apply_async` that fails is
  the outcome FALSE of `BrokerOutcomes`. A callback
  of `on_commit` is a message that the process still has to send.
* Time is a bounded counter. `is_expired` compares strictly and the deadline of
  a termination does not, as in the code.
* Pure functions (the pipeline and the validation of questions, the spread of
  points over tests, scores) are operators and applied as a whole. The intake
  runs them over enumerated files rather than over free inputs.
* Contents of answers and source code are members of small sets; scores are
  numbers; a password is the number of its hash; a roll number is its normal
  form with a flag for punctuation; reasons and audit entries are left out,
  except in `DisconnectCountdown` where `reason` is kept and in `Accounts` where
  the entries for accounts made and deleted are.

### History variables

Some modules have variables the program does not have, so that a property can
speak of the past or of the case in which a guarantee ends:
`AttemptLifecycle.unsent` (attempts whose countdown's message the broker
refused) and `dropped` (attempts on which a frame task broke off with the last
strike stored), `AnswerSave.writer` (the client revision of the last save that
was stored), `overlapped` (did two requests, or a request and the close or an
evaluation, overlap at the server? did a client connect while another connection
was open?), `strayed` (did the page lose a save, have two under way, drop an
edit for another question, or load its state in the middle of one?), `CodeEvaluation.duplicated`
(was a message delivered while it was worked on?),
`ResultFinalization.submitted` and `forgotten` (was the attempt ever SUBMITTED?
will nobody finalize it unless asked?), `Retention.reopened` (attempts put off after their
scrub), the field `summed` of `Authoring.snapshot` (the list that was added up),
`Sessions.used` and `knows` (when a session last did something, and which
passwords its holder gave or chose), `Accounts.taken` (what others took since a
preview). No action's guard reads them.

## 3. Runs

All bounds are in the `.cfg` files. Deadlock is not checked: every model may
stop, when the clock, the revisions or the rows are used up, or simply because
the examination is over. That transactions do not wait for each other in a
circle is an invariant of its own (`NoLockCycle`). The type invariants are
proved; no run spends a property on them.

**lifecycle** (`MCLifecycle.cfg`, 1 638 676 states). The whole `Next` of
`AttemptLifecycle`: limit 1, room for three attempts, a clock of three instants,
threshold 3, one stale request, two frame tasks that may be lost between any two
of their commits. `DisqualifiedStaysOut`, `StrikesDisqualify` (with a strike each
source of events may miss, and the attempts whose frame task was lost as its
exception), `GrantAccounting`, `FirstVerdictStands` with its two exceptions, and
`SeatPromise`, the refinement of `AttemptSeat`. Three instants are enough for a
deadline of one attempt to pass, for a grant to become available and for the
assessment to end; the third row is what a second use of the grant would need;
with two frame tasks one may count the strike the other stored. Pauses and a
broker that refuses are left to the next run.

**countdown** (`MCCountdown.cfg`, 368 449 states). The timers on a clock of
seven instants: countdown of 2, duration 3, end of the assessment at 5, pauses
up to 2, a broker that may refuse a message, with the handlers that may end a
countdown or an attempt. `CountdownArmed`, `CountdownHonoured`, `OverdueStands`,
`TimeBudget`, and under fairness `PendingResolves`. A countdown may be cancelled
and armed again while the old message is under way or after its own was refused,
a pause may begin before the clamp and end after it. `CountdownArmed` says when
there is a message at all; `OverdueStands` needs none: whoever comes to the
attempt after its deadline ends it.

**disconnect** (`MCDisconnect.cfg`, 44 173 states). Three connections, each
accepted or refused, grace 2, cache timeout 4, a clock of nine. `FullGrace` for
every interleaving, `CondemnedOffline` until connections overlap; a refused
handshake that meets an open connection is such an overlap, and one whose close
is still to be handled. Three connections allow two closes with their two tasks
and a reconnection between them.

**answer** (`MCAnswer.cfg`, 3.4 million states). Two requests, two contents, a
coding question and another one, revisions up to 3, reloads, losses.
`ClosedDrains` always; `NewestKept` and `ScoreMatchesAnswers` until requests
overlap at the server; `SettledSaved` until the page strays. The first three name
the evaluation of a SUBMIT as what changes an answer in spite of revision and
status. Past both an overlap and a stray only `ClosedDrains` is left, so
`SidesSpec` explores one side at a time and not their product: the server's side
(`ServerStep`: the coding question, two evaluations, close and finalization) and
the page's (`PageStep`: both questions, which share one timer, one evaluation,
loads in place, polls that outlast each other, an open attempt). Two evaluations
are what two SUBMITs judged in the other order need. Clearing an answer again is
left out of the contents and covered by the proofs, as is what the two sides
leave out.

**code** (`MCCode.cfg`, 2.95 million states). Two requests at a time, three
submissions with keys of both types, two workers, one retry, two faults, a
broker that may fail, two test cases of which one is public. `Backlog` always;
`VerdictStands` and `CreditJudged` until a message is duplicated;
`ProcessingHeld` up to as many faults as retries. Two test cases make the
difference between all, some and none, and between what RUN and SUBMIT judge.

**code_ends** (`MCCodeEnds.cfg`, 40 092 states, no symmetry). `JobsEnd` under
`FairSpec` with the SQL sandbox, two workers, two retries and two faults.

**results** (`MCResults.cfg`, 627 005 states). One student with two attempts, one question, two
kinds of task with one retry, one fault, one maker of certificates beside the
task, a broker that may fail, late strikes and readers. `FinalStays`,
`TranscriptTruthful`, `CertificateFirst`, and `ResultsArrive` under `FairSpec`.
The second attempt overwrites the permanent record and may be finalized before
the first; one fault is what a retry answers, and two what it does not.

**retention** (`MCRetention.cfg`, 4.82 million states). One attempt with
one evidence file, one hold on the attempt, its student or its assessment, one
export of the attempt or of the whole account, two workers, one fault, one retry
of each of the two tasks that retry. `HeldUntouched`, `TombstoneTruthful`, `ArchiveHonest`, `NoLockCycle`. Two
workers are what a circle, or a hold placed while a purge runs, needs.

**authoring** (`MCAuthoring.cfg`, 3.17 million states). Two questions, one
student, two administrators. `SnapshotWithinTotal`, `AudienceAdmitted`,
`PublishedHasSnapshot`: one request publishes while the other writes back any
copy it loaded before.

**questions** (`MCQuestions.cfg`, 944 033 states). 314 workbooks, 54 CSV
files and 588 payloads, two questions, up to three tests each, two edits.
`PreviewHonoured`, `AcceptedPublishes`, `ExamplesArePublic`, `ReadyPublishes`.
The files are the combinations of what the rules tell apart: hidden or not,
example or not, blank or placeholder outputs, repeated inputs and names, points
that do not divide, sheets that lack, options without text.

**sessions** (`MCSessions.cfg`, 5.39 million states). One user, two requests at a
time, time-out 2, two sessions, three passwords, a clock of four instants.
`KnownPassword`, `IdleEnds`. A session that did nothing for the
time-out is served nothing over HTTP; its WebSocket handshakes are accepted, and
give it no time (`Handshake`). That a session in use may end early is the other
side of the same stale copy, a finding and not a property. The password an administrator
chose, one the user chose and one of a reset make the three. That a password an
administrator chose leaves one of the two flags set (`AskedToChange`) is proved
and not run: what matters to the user, that the profile's flag is the one left,
does not hold and is a finding.

**accounts** (`MCAccounts.cfg`, 3.79 million states). Two requests, two roll
numbers, one typed address, one section, six files of up to three rows, four
accounts. `ImportExplained`, `AuditTrailSound`. The administrator from before
the sequence has number 4, so that the sequence, which starts at 3, meets it.

### Statements of the repository the code does not keep

No run fails. Where the code does something else than a document, a comment or
a docstring says, the model does what the code does, and `findings` in
`PROJECT.json` quotes the statement with both lines. Fifteen of the statements
are also written as properties in MC modules, named there and used by no run; a
configuration that names one makes TLC show the behaviour (the first two with
`AttemptLimit = 2` and, for the expiry to be followed by a start, `EndTime = 4`
and `MaxTime = 3`):

| property | statement | what happens |
|---|---|---|
| `DisqualifiedNotRetaken` (`RetakeSpec`) | disqualified attempts cannot be retaken (`apps/assessments/services.py:1429`) | a stale expiry writes EXPIRED over CANCELLED, after which the next attempt begins without a grant |
| `OneRunning` (`RetakeSpec`) | an active attempt is resumed (`:1418`) | a late strike cancels a submitted attempt while the second runs; the grant for it runs beside the second |
| `ExpiresOnEffectiveTime` | effective time excludes pauses (`docs/phase10-architecture.md:400`) | a poll during a pause expires the attempt |
| `ThirdStrikeDisqualifies` (`RetakeSpec`) | a third violation disqualifies (`apps/proctoring/services.py:443`) | the frame task's worker is lost between the event and the attempt, which runs on with three strikes |
| `NobodyCondemned` (`StableSpec`) | the countdown begins when a student disconnects (`apps/proctoring/tasks.py:104`) | a refused handshake for the attempt starts it while the student's connection stands |
| `ReconnectHonoured` | a reconnection cancels the countdown (`apps/proctoring/tasks.py:104`) | the close of the old socket, handled after the reconnection, starts a countdown nobody cancels |
| `SavedIsSaved` (`ReliableSpec`, `SidesSpec`) | the page's label reads Saved | a late reply turns the counter back, or the end of an evaluation takes the row's revision past it; the next save is stale, the label still reads Saved |
| `NeverStuck` | failures are retried or fail closed (`docs/phase6-security-threat-model.md:33`) | after the last retry the submission stays PROCESSING |
| `PartialAfterScrub` | archives after the scrub are partial (`docs/phase9-architecture.md:198`) | an attempt that is CLEANING_FILES is put off and its rows, which are gone, are archived as full |
| `FullHoldsDetails` | an archive of this type is the full telemetry (`apps/retention/models.py:60`) | an archive of the whole account keeps the default type and holds nothing |
| `NeverReverted` | a published assessment does not become a draft again (`apps/assessments/models.py:171`) | an update that passed the check before the publication writes DRAFT over it |
| `SnapshotComplete` | points sum up to the total at publication (`models.py:59`) | a question is removed between the two reads of the publication |
| `PublishedIsSound` | a published version passed the validation (`apps/questions/services.py:1191`) | an edit lands between validation and lock |
| `IdleOpensNothing` | idle expiration is enforced across accounts (`apps/accounts/session_policy.py:13`) | a WebSocket handshake with an idle session is accepted |
| `BusyStays` | last activity is updated on requests (`apps/accounts/middleware.py:75`) | a late answer stores an older time, and the session of somebody at work ends |

Of the other findings the ones that touch the guarantees most:

* A stale expiry also replaces a proctor's termination
  (`apps/assessments/services.py:97`), and a third strike on a SUBMITTED attempt
  makes it CANCELLED (`apps/proctoring/services.py:268`): the two exceptions of
  `FirstVerdictStands`.
* With `attempt_limit` 2 a reattempt is a third attempt
  (`apps/assessments/services.py:1309`); `GrantAccounting` states what does hold,
  the limit plus one.
* One pause may exceed the cap of 15 minutes, which is compared only when a pause
  begins (`apps/invigilation/services.py:322`).
* Two queued submissions may run together, two identical requests may both create
  one, and an unreachable sandbox is a verdict and not retried
  (`apps/evaluator/services.py:347`, `:371`, `:643`).
* The finalization does not wait for the latest SUBMIT and never returns to it
  (`apps/results/services.py:420`); a second attempt overwrites the permanent
  record (`:564`); a certificate may be made for an attempt that was disqualified
  meanwhile (`certificate_service.py:116`).
* The evaluation of a SUBMIT stores its source over a newer answer, on a closed
  attempt and after the result was computed (`apps/evaluator/services.py:667`),
  takes the revision past the page's counter (`apps/assessments/services.py:1572`)
  and puts the older source back on the screen (`StudentTestRoomPage.tsx:1063`).
* `acquire_snapshot` locks the job before the record, against the documented order
  (`apps/retention/services/dsar.py:248`); `NoLockCycle` holds all the same.
* An attempt put off by a hold is not purged after its release
  (`apps/retention/services/legal_holds.py:112`).
* Opening a question in the editor and saving it erases its examples
  (`QuestionEditorPage.tsx:158`); a CSV question loses its options at the
  confirmation (`apps/questions/views.py:716`).
* A change of password that overlaps with a reset keeps its session
  (`apps/accounts/views.py:185`); a reset may leave the temporary password enough
  for the assessments (`:183`).
* The import of students drops name and section (`BulkImportModal.tsx:84`) and is
  not atomic (`apps/accounts/views.py:634`).

The same models show behaviours no document speaks about. In results: after a
late strike the result, the coins, the certificate and the summary stay as they
were; an attempt that expires or is terminated explicitly is never dispatched,
so it has no result until somebody asks for it and no retention record until
then. In retention: SNAPSHOT_PENDING is never committed, so the lease, the
heartbeat and the recovery of archive jobs never find one, and a worker lost
while it generates an archive blocks the purge for good; an evidence file with
an unsafe path, or one whose retries are used up, keeps the attempt without a
tombstone. In authoring: a stale copy
may also replace ARCHIVED, and a second publication after a revert keeps the
first snapshot. In accounts: an update that names an inactive section saves the
address and then answers 400.

### Fairness

* `WF(Tick)` in `AttemptLifecycle`: time passes.
* `WF(TerminationTask(m))` for each message: Celery delivers a scheduled message
  once it is due. A message the broker refused is never delivered;
  `PendingResolves` promises nothing for a countdown whose own was (`unsent`).
* `WF(WorkerStep(w))` in `CodeEvaluation`: a worker takes messages and finishes
  evaluations; the sandbox has a timeout of its own.
* `WF(Dispatch(a))` and `WF(Deliver(a))` in `ResultFinalization`: a process that
  committed runs its callbacks, and accepted messages are delivered. An attempt
  whose dispatch fails or whose message is lost is `forgotten`, and
  `ResultsArrive` promises nothing for it.

Faults are not fair, and bounded. Nothing obliges the student, the page, a
proctor, a poll, an administrator or a reader to act.

### Mutants

Every property of a passing run has, in the module it is about, a mutated
definition (a dropped guard, an off-by-one, a missing reset) under which TLC
finds the property violated. Most are named `<Definition>_<Change>`; all are
marked by a comment. They are not used by any specification.

## 4. Proofs

| module | theorems | inductive invariant |
|---|---|---|
| `AttemptLifecycle_proofs` | `Typing`, `Verdicts`, `Strikes`, `Timer`, `Grant`, `FirstVerdict`, `SeatKept`, `Countdown`, `CountdownIsHonoured`, `OverdueIsFinal` | `TypeOK`; `VerdictInv` |
| `DisconnectCountdown_proofs` | `Typing`, `GraceGiven`, `OfflineOnly` | `TokenInv`, `LoneInv` |
| `AnswerSave_proofs` | `Typing`, `Drains`, `Newest`, `ScoreStands`, `Settled` | `InTurn` until requests overlap, `Tracked` until the page strays |
| `CodeEvaluation_proofs` | `Typing`, `StaysEnded`, `JudgedOnce`, `KeepsHolder`, `CreditStands`, `BacklogBounded` | `OneHolder` until a message is duplicated; `HeldInv` |
| `ResultFinalization_proofs` | `Typing`, `FinalResults`, `Transcript`, `FirstCertificate` | `TranscriptTruthful`; `CertificateInv` |
| `Retention_proofs` | `Typing`, `Tombstones`, `Archives`, `HeldAttempts`, `LocksInOrder` | `IInv` = `TypeOK`, `WorkInv`, `LockInv`, `StageInv`, `DataInv`; `AllOwned` |
| `Authoring_proofs` (of `Authoring`) | `Typing`, `Snapshot`, `Published`, `Access` | `PublishInv` |
| `Authoring_proofs` (of `QuestionIntake`) | `IntakeTyping`, `Honoured`, `Accepted`, `SamplesOnly`, `HealthAgrees`; about the pipeline alone `SpreadAddsUp`, `NormalTwice`, `NormalErrors`, `NormalPublishable` | `IntakeInv` = `ModalKept`, `BankKept`, `PageKept` |
| `AccountsApp_proofs` (of `Sessions`) | `Sessions_TypeOK`, `Sessions_KnownPassword`, `Sessions_AskedToChange`, `Sessions_IdleEnds` | `Past` |
| `AccountsApp_proofs` (of `Accounts`) | `AccountsTyping`, `TrailTellsAll`, `ImportsExplained`; `NumberFound` | `AccountsTypeOK` with `LeftShown`; `AuditInv`; `ImportInv` |

They hold for every number of attempts, sockets, questions, requests, jobs,
workers, files and users, for every delay and for any files, texts and marks, from the named assumptions of each
module, with a broker that accepts or refuses any message.

* `Verdicts`, `Strikes`: `DisqualifiedStaysOut` is not inductive alone, since a
  fresh row could carry an old mark; `Fresh` says that the marks of rows not yet
  made are clear, and `StrikesDisqualify` is carried along since the same strikes
  decide both. `JudgedRight` says what a frame task knows between its commits: the
  attempt it is about to condemn has all its strikes, so the only way to run on
  with them is a task that broke off (`dropped`).
* `Timer`: a lemma about clamped sums (`ClampedSum`) shows that clamping after
  every pause and clamping once give the same deadline.
* `FirstVerdict` and `SeatKept` go through one frame lemma, `StatusFrame`: each
  step leaves the statuses alone, concludes one attempt, begins one, or is one
  of the two exceptions.
* `Countdown`: a row that is not made yet is not pending, so the message that a
  `FocusLoss` sends is the one its deadline names; a countdown without a message
  is one whose own was refused, since arming again takes the mark (`unsent`) off.
* `OverdueIsFinal` needs no message: every handler that could undo a termination
  or conclude the attempt otherwise looks at the deadline first (`Overdue`).
* `GraceGiven`: the entry holds only the newest token, whose message is due a
  grace period after the entry was written; older messages find another token.
* `OfflineOnly`: until connections overlap one of them at a time is under way, a
  refused one included, and while the entry holds a token none is in use
  (`LoneInv`).
* `Drains`: a save and an evaluation that begin look at the status, directly or
  through the SUBMIT that passed it, so a closed attempt only loses what is under
  way.
* `Newest`, `ScoreStands`: until requests overlap, the copy that the one request
  between its two steps holds is the row itself (`CopyIsRow`), and the client
  revision that wrote an answer is at most the stored revision. An evaluation
  leaves the revision higher and the writer alone, and what it stores is a judged
  SUBMIT, which both properties name.
* `Settled`: until the page strays, there is at most one request under way
  (`OneRequest`), and what it carries is above the stored revision, unless an
  evaluation stored its source meanwhile (`Carries`); a question without one has
  its counter at the stored revision or a judged source for its answer (`Follows`).
* `JudgedOnce`, `CreditStands`: a submission that waits or runs has at most one
  holder, a message or a worker, and one that has ended has none.
* `KeepsHolder`: a message is never retried more often than there were faults,
  so up to `Retries` faults no retry is the last one.
* `BacklogBounded`: the quota admits a request only at a backlog of at most one,
  so the last request to pass it was followed by at most the others.
* `FirstCertificate`: the attempts before the running one have ended, so an
  earlier attempt that does not qualify never will; a maker that is about to
  create holds an attempt that was the first when it looked.
* `HeldAttempts`, `Tombstones`, `Archives`: what a worker read under its locks is
  still so when it writes (`StageInv`), because whoever could change it needs one
  of the locks it holds (`LockInv`). A task that comes again begins anew and holds
  nothing (`RetryKeeps`).
* `LocksInOrder`: rows have a rank, every transaction takes its rows in that
  order and holds no others (`AllOwned`); two workers that wait for each other
  would each hold a row of lower rank than the other's.
* `Snapshot`, `Published`, `Access`: while the lock is held nothing is added to
  the list that was added up or to the audience (`LockHeld`), and a copy of a
  published row exists only after the snapshot (`Copies`).
* `Sessions_KnownPassword`, `Sessions_IdleEnds`: the password and the activity of
  every row, and of every request that may store one, come from something the
  holder of that session did (`Past`), so storing an old copy over a newer row
  can make a session end early but never late. A WebSocket handshake stores no
  row, so what it lets in gains no time.
* `Honoured`: a workbook's questions go through the pipeline twice, at the
  preview and at the import. `ModalKept` says that what the preview shows of a
  valid workbook has no errors and is a fixed point of the pipeline; `NormalTwice`
  and `NormalErrors` establish it. Idempotence rests on the sum: points are spread
  only when they do not add up, and after the spread they do (`SpreadAddsUp`).
* `Accepted`: `NormalPublishable`, carried from the preview to the import by the
  same invariant. The penalty above the points is a hypothesis because the
  pipeline does not look at it and `validate_for_publish` does.
* `SamplesOnly`: an example of a stored question is a pair of texts, so it can
  only be tied to a test through the tests stored with it. The bank holds only
  questions in which that is possible (`Shareable`), and the editor only ones in
  which no hidden test is an example (`Forms`); `PublicExamples` shows that what
  a creation does to points and verifications does not part the two.
* `HealthAgrees` needs from the past only that a stored question is worth at
  least one point, which the view does not check.
* `TrailTellsAll`: `AuditTrailSound` is not inductive. `GivenBelow` says that the
  sequence is above every number that was given, `LogsFirst` that an account
  whose deletion was logged in its transaction has its entry, and the numbers
  from before the sequence are skipped by the search of `NumberFound`, which ends
  since there are finitely many administrators (a counting argument).
* `ImportsExplained`: as long as a page shows its rows, a number or an address of
  theirs that is in use was taken by others since or given to a row of the same
  file (`Explained`), and two rows of a file never share a number, nor an address
  unless the system made it (`RowsDiffer`); so a row that fails has one of the
  reasons the property lists.

Sums and lists are recursive functions in these modules. What they compute is
proved by least counterexample (`Least`), from the well-foundedness of the
natural numbers, instead of induction, which no installed prover can apply.

Only model-checked: `PendingResolves`, `JobsEnd` and `ResultsArrive`, since
liveness under fairness is out of the prover's reach, and the statements of
documents that fail.

## 5. What is not modelled

* Everywhere: permissions, the validation of formats, notifications, broadcasts,
  logging, layout. Two students or two assessments: the modules follow one, whose
  rows no other's requests touch, except where a set of them is a constant.
* Attempts: the order of questions, risk score, warnings, cooldowns, evidence,
  room scans, rosters, the idempotency keys of interventions (a repeated request
  returns the old row and changes nothing).
* Answers: RUN executions, which store no answer (`CodeEvaluation` has them); the
  WebSocket's SAVE_ANSWER, which calls the same service without the page's timer.
* Code: the comparison of outputs is a choice of outcomes (for SQL it is exact for
  unordered rows and within a tolerance for ordered ones, and nothing here tells
  these apart); the limit of requests per minute, a cache counter that can only
  refuse; the adapters of the engines; the disposable database and user a crash
  leaves behind. A Celery pool process that is killed alone, whose message Celery
  acknowledges (`task_reject_on_worker_lost` is not set), leaves the submission
  PROCESSING like an exhausted retry; `LoseWorker` is the loss of the worker with
  its connection.
* Results: the layout of PDF and CSV; the read-only views; REVOKED, a status of a
  certificate that no code sets. A retention record that cannot be made is only
  logged and the finalization goes on (`BindRetention`, which may fail).
* Retention: the sweep of risk scores, edits of the policy, the rate limit of
  exports; the recovery of archive jobs, whose state is never committed; the
  second `RetentionService` in `apps/results/services.py:1185`, used by tests only.
* Authoring: sections, order and negative points of the links, the preview of the
  audience, what is refused once attempts exist. Versions above 1, since both ways
  to ask for one refuse; `commit_imported_rows`, which no view calls.
* Questions: ingestion from images, which no view calls; the view that runs a
  sandbox; the forms of SQL and free-text questions; titles, difficulty, tags; a
  wording of the statement that says there is no input; the two import dialogs
  that no page mounts are modelled by the views they would call. Imports go into
  an empty bank: a bound.
* Sessions: the timer of the client. Two writes of one request that are next to
  each other are one step, except where a step is named for the window between
  them.
* Accounts: profile fields, official names, checks of file formats, the creation
  command and the migration, the purge of the audit log, the reattribution of an
  administrator's assessments, the check for exports under way. The two accounts
  from before the sequence are left as they are, the code of a deleted section is
  not used again, and a page has one confirmation under way: bounds. Of the sections
  nothing is claimed: they decide which rows and forms are refused.
* The inference policies (tables), the console (views and groups around services
  that are modelled), core, settings and deployment.

## 6. Plan

Done, in this order: the lifecycle with its seat refinement, the disconnect
countdown, the answers, code evaluation, results and certificates, retention,
authoring, the intake of questions, sessions, accounts; the proofs of every
safety property the runs check.

Left, by importance:

1. The strikes in detail: warnings, cooldowns, the risk score and the room scan
   around `CountStrike`, and the disconnect task refined against
   `ConnectionLost`.
2. The composition of `CodeEvaluation` and `ResultFinalization`, which replaces
   the choice of `Verdicts` there by the submissions themselves.
3. For the proofs: what the documents promise and the code does not keep, under
   the hypotheses that make it true (an expiry that is not stale, a retry that
   is not the last, no attempt put off after its scrub).

New questions are to be asked by the runs there are wherever a bound allows, as
`countdown` does for the pauses, so that the list of runs stays short.
