--------------------------- MODULE AttemptLifecycle ---------------------------
(***************************************************************************)
(* The attempts of one student at one published assessment, as the rows    *)
(* of TestAttempt, ProctoringSession, ProctorIntervention (pauses) and     *)
(* ProctorReattemptAuthorization record them.                              *)
(*                                                                         *)
(* Every handler that takes select_for_update on the attempt, or on the    *)
(* assignment for the handlers that create attempts, is one action: the    *)
(* row lock serialises them and the transaction commits at the end.  A     *)
(* handler whose error path raises inside transaction.atomic has no effect *)
(* there, so that path is absent from the action.  The one state change    *)
(* made on an unlocked copy of the row, check_and_expire_attempt_if_needed *)
(* called from a poll, an autosave or a code submission, is two actions:   *)
(* ReadLapsed and WriteExpired.  The frame task takes no lock and opens no *)
(* transaction: it is an action for each thing it commits, and the worker  *)
(* may be lost between any two.                                            *)
(***************************************************************************)
EXTENDS Integers

CONSTANTS
    AttemptLimit,   \* Assessment.attempt_limit
    MaxAttempts,    \* bound: attempt rows the model has room for
    Opens,          \* Assessment.start_datetime
    EndTime,        \* Assessment.end_datetime
    Duration,       \* Assessment.duration_minutes
    TermDelay,      \* the 120 s of a pending termination
    PrepDelay,      \* the 60 s before a reattempt may start
    MaxPause,       \* DEFAULT_MAX_CUMULATIVE_PAUSE_SECONDS
    Threshold,      \* max(3, Assessment.max_confirmed_violations)
    MaxTime,        \* bound: the clock stops here
    Workers,        \* requests that may hold an unlocked copy of a row
    Frames,         \* frame tasks that may be in the middle of record_event
    BrokerOutcomes  \* whether apply_async may fail (FALSE) or succeed (TRUE)

NoTime == -1
Attempts == 1..MaxAttempts
Idle == 0

ASSUME LimitAssumption ==
    /\ AttemptLimit \in Nat \ {0}
    /\ MaxAttempts \in Nat
    /\ AttemptLimit < MaxAttempts
ASSUME ClockAssumption ==
    /\ Opens \in Nat /\ EndTime \in Nat /\ MaxTime \in Nat
    /\ Duration \in Nat \ {0} /\ TermDelay \in Nat \ {0} /\ PrepDelay \in Nat \ {0}
    /\ MaxPause \in Nat
ASSUME ThresholdAssumption == Threshold \in Nat /\ Threshold >= 3
ASSUME BrokerAssumption == BrokerOutcomes \subseteq BOOLEAN

VARIABLES
    now,            \* timezone.now()
    published,      \* Assessment.status = PUBLISHED (FALSE: archived)
    assigned,       \* AssessmentAssignment.status = ASSIGNED (FALSE: REVOKED)
    made,           \* how many attempt rows exist: the highest attempt_number
    status, startedAt, expiresAt, disqualified,
    pending,        \* TestAttempt.termination_pending
    deadline,       \* TestAttempt.termination_deadline
    tasks,          \* expire_window_termination_task messages with their ETA
    session,        \* ProctoringSession.status; ACTIVE and DEGRADED are LIVE
    unsent,         \* history: attempts whose countdown apply_async failed
    strikes,        \* confirmed strong violations, counted up to Threshold
    frame,          \* attempt whose event a frame task has stored, or Idle
    judged,         \* frame tasks that counted Threshold events and have not
                    \* yet saved the attempt
    dropped,        \* history: attempts a frame task broke off on with
                    \* Threshold events stored
    pausedAt,       \* issued_at of the PAUSE_STARTED without PAUSE_ENDED
    pauseUsed,      \* get_cumulative_pause_seconds
    grant,          \* ProctorReattemptAuthorization.status, NONE if no row
    original, reattempt, availableAt,
    held            \* attempt whose lapsed copy a request holds, or Idle

adminVars == <<published, assigned>>
birthVars == <<made, startedAt>>
queueVars == <<deadline, tasks, unsent>>
termVars  == <<pending, queueVars>>
strikeVars == <<strikes, frame, judged, dropped>>
pauseVars == <<pausedAt, pauseUsed>>
grantVars == <<grant, original, reattempt, availableAt>>
vars == <<now, adminVars, birthVars, status, expiresAt,
          disqualified, termVars, session, strikeVars, pauseVars,
          grantVars, held>>

Statuses == {"NONE", "IN_PROGRESS", "SUBMITTED", "EXPIRED", "CANCELLED"}
Terminal == {"SUBMITTED", "EXPIRED", "CANCELLED"}
Sessions == {"NONE", "LIVE", "TERMINATED"}
Grants   == {"NONE", "AUTHORIZED", "CONSUMED"}

Existing == 1..made
InProgress(a) == status[a] = "IN_PROGRESS"
Earlier(s, t) == IF s <= t THEN s ELSE t

\* A session row that exists ends up TERMINATED; no row is created.
Closed(s) == IF s = "NONE" THEN "NONE" ELSE "TERMINATED"
\* get_or_create_session.
Opened(s) == IF s = "NONE" THEN "LIVE" ELSE s

TypeOK ==
    /\ now \in 0..MaxTime
    /\ published \in BOOLEAN /\ assigned \in BOOLEAN
    /\ made \in 0..MaxAttempts
    /\ status \in [Attempts -> Statuses]
    /\ \A a \in Attempts : status[a] = "NONE" <=> a > made
    /\ startedAt \in [Attempts -> Int] /\ expiresAt \in [Attempts -> Int]
    /\ disqualified \in [Attempts -> BOOLEAN]
    /\ pending \in [Attempts -> BOOLEAN]
    /\ deadline \in [Attempts -> Int]
    /\ tasks \subseteq [attempt : Attempts, eta : Int]
    /\ session \in [Attempts -> Sessions]
    /\ unsent \subseteq Attempts
    /\ strikes \in [Attempts -> 0..Threshold]
    /\ frame \in [Frames -> 0..made]
    /\ judged \subseteq Frames /\ dropped \subseteq Attempts
    /\ pausedAt \in [Attempts -> Int] /\ pauseUsed \in [Attempts -> Nat]
    /\ grant \in Grants /\ availableAt \in Int
    /\ original \in 0..MaxAttempts /\ reattempt \in 0..MaxAttempts
    /\ held \in [Workers -> 0..made]

Init ==
    /\ now = 0 /\ published = TRUE /\ assigned = TRUE /\ made = 0
    /\ status = [a \in Attempts |-> "NONE"]
    /\ startedAt = [a \in Attempts |-> NoTime]
    /\ expiresAt = [a \in Attempts |-> NoTime]
    /\ disqualified = [a \in Attempts |-> FALSE]
    /\ pending = [a \in Attempts |-> FALSE]
    /\ deadline = [a \in Attempts |-> NoTime]
    /\ tasks = {} /\ unsent = {}
    /\ session = [a \in Attempts |-> "NONE"]
    /\ strikes = [a \in Attempts |-> 0]
    /\ frame = [w \in Frames |-> Idle] /\ judged = {} /\ dropped = {}
    /\ pausedAt = [a \in Attempts |-> NoTime]
    /\ pauseUsed = [a \in Attempts |-> 0]
    /\ grant = "NONE" /\ original = 0 /\ reattempt = 0 /\ availableAt = NoTime
    /\ held = [w \in Workers |-> Idle]

-------------------------------------------------------------------------------
(* Starting: AttemptService.start_attempt *)

\* AttemptTimerService.compute_expiry.
ComputeExpiry(start) == Earlier(start + Duration, EndTime)

\* AttemptTimerService.is_expired with grace_seconds = 0.
Lapsed(a) == now > expiresAt[a]

Admitted == published /\ assigned /\ Opens <= now /\ now < EndTime

\* Mutant: the number is taken from the count before the new row.
CreateAttempt_SameNumber(before) ==
    /\ made + 1 \in Attempts
    /\ made' = made
    /\ status' = [before EXCEPT ![made + 1] = "IN_PROGRESS"]
    /\ startedAt' = [startedAt EXCEPT ![made + 1] = now]
    /\ expiresAt' = [expiresAt EXCEPT ![made + 1] = ComputeExpiry(now)]

\* The row created by both paths; `before` is the status of the older rows.
CreateAttempt(before) ==
    /\ made + 1 \in Attempts
    /\ made' = made + 1
    /\ status' = [before EXCEPT ![made + 1] = "IN_PROGRESS"]
    /\ startedAt' = [startedAt EXCEPT ![made + 1] = now]
    /\ expiresAt' = [expiresAt EXCEPT ![made + 1] = ComputeExpiry(now)]

\* The normal path: a lapsed attempt is expired on the way, one still running
\* would be resumed, a cancelled one bars a new one, and the limit counts rows.
MayStart ==
    /\ grant = "NONE"
    /\ \A a \in Existing : InProgress(a) => Lapsed(a)
    /\ \A a \in Existing : status[a] # "CANCELLED"
    /\ made < AttemptLimit

StartAttempt ==
    /\ Admitted
    /\ MayStart
    /\ CreateAttempt([a \in Attempts |->
                        IF InProgress(a) THEN "EXPIRED" ELSE status[a]])
    /\ UNCHANGED <<now, adminVars, disqualified, termVars, session, strikeVars,
                   pauseVars, grantVars, held>>

\* Mutant: a consumed authorization is accepted again.
MayReattempt_Replay == grant # "NONE" /\ now >= availableAt

\* The reattempt path: the authorization is consumed by the attempt it creates.
MayReattempt == grant = "AUTHORIZED" /\ now >= availableAt

StartReattempt ==
    /\ Admitted
    /\ MayReattempt
    /\ CreateAttempt(status)
    /\ grant' = "CONSUMED" /\ reattempt' = made + 1
    /\ UNCHANGED <<now, adminVars, disqualified, termVars, session, strikeVars,
                   pauseVars, original, availableAt, held>>

-------------------------------------------------------------------------------
(* The timer: check_and_expire_attempt_if_needed on an unlocked copy *)

ReadLapsed(w, a) ==
    /\ held[w] = Idle /\ InProgress(a) /\ Lapsed(a)
    /\ held' = [held EXCEPT ![w] = a]
    /\ UNCHANGED <<now, adminVars, birthVars, status, expiresAt, disqualified,
                   termVars, session, strikeVars, pauseVars, grantVars>>

\* attempt.save(update_fields=['status', ...]): the row is not read again.
WriteExpired(w) ==
    /\ held[w] # Idle
    /\ status' = [status EXCEPT ![held[w]] = "EXPIRED"]
    /\ held' = [held EXCEPT ![w] = Idle]
    /\ UNCHANGED <<now, adminVars, birthVars, expiresAt, disqualified,
                   termVars, session, strikeVars, pauseVars, grantVars>>

-------------------------------------------------------------------------------
(* The student: submit_attempt, terminate_attempt_explicitly *)

\* Mutant: the deadline is compared strictly.
Overdue_Strict(a) == InProgress(a) /\ pending[a] /\ now > deadline[a]

\* The deadline of a pending termination has passed.
Overdue(a) == InProgress(a) /\ pending[a] /\ now >= deadline[a]

\* Mutant: only a repeated submission is recognised.
MaySubmit_NoTerminalCheck(a) ==
    a \in Existing /\ status[a] # "SUBMITTED" /\ ~Overdue(a)

\* An overdue termination makes submit_attempt raise, which rolls back the
\* cancellation made on the way: no step.  expires_at is not consulted.
MaySubmit(a) == InProgress(a) /\ ~Overdue(a) /\ ~disqualified[a]

Submit(a) ==
    /\ MaySubmit(a)
    /\ status' = [status EXCEPT ![a] = "SUBMITTED"]
    /\ UNCHANGED <<now, adminVars, birthVars, expiresAt, disqualified,
                   termVars, session, strikeVars, pauseVars, grantVars, held>>

\* termination_pending is left as it is.
ExplicitTerminate(a) ==
    /\ InProgress(a)
    /\ status' = [status EXCEPT ![a] = "CANCELLED"]
    /\ disqualified' = [disqualified EXCEPT ![a] = TRUE]
    /\ session' = [session EXCEPT ![a] = Closed(@)]
    /\ UNCHANGED <<now, adminVars, birthVars, expiresAt, termVars, strikeVars,
                   pauseVars, grantVars, held>>

-------------------------------------------------------------------------------
(* The pending termination: AttemptTerminationPolicyService *)

\* _execute_expiration_locked; `after` is the session the handler leaves.
ExecuteExpiration(a, after) ==
    /\ status' = [status EXCEPT ![a] = "CANCELLED"]
    /\ disqualified' = [disqualified EXCEPT ![a] = TRUE]
    /\ pending' = [pending EXCEPT ![a] = FALSE]
    /\ session' = [session EXCEPT ![a] = after]

\* Mutant: the countdown is armed without a task.
TriggerTermination_NoTask(a, sent) ==
    /\ InProgress(a) /\ ~pending[a]
    /\ pending' = [pending EXCEPT ![a] = TRUE]
    /\ deadline' = [deadline EXCEPT ![a] = now + TermDelay]
    /\ tasks' = tasks
    /\ unsent' = unsent \ {a}

\* trigger_termination_pending for an attempt that is not pending yet.  If
\* apply_async fails the error is logged and the countdown has no task.
TriggerTermination(a, sent) ==
    /\ InProgress(a) /\ ~pending[a]
    /\ pending' = [pending EXCEPT ![a] = TRUE]
    /\ deadline' = [deadline EXCEPT ![a] = now + TermDelay]
    /\ tasks' = IF sent THEN tasks \cup {[attempt |-> a, eta |-> now + TermDelay]}
                        ELSE tasks
    /\ unsent' = IF sent THEN unsent \ {a} ELSE unsent \cup {a}

\* The event view on WINDOW_BLUR or a hidden page: session, trigger, and the
\* overdue check that ends the view.
FocusLoss(a, sent) ==
    /\ TriggerTermination(a, sent)
    /\ session' = [session EXCEPT ![a] = Opened(@)]
    /\ UNCHANGED <<now, adminVars, birthVars, status, expiresAt, disqualified,
                   strikeVars, pauseVars, grantVars, held>>

\* Any other telemetry and the heartbeat: the session row, then the check.
Telemetry(a) ==
    /\ a \in Existing
    /\ \/ /\ Overdue(a)
          /\ ExecuteExpiration(a, "TERMINATED")
          /\ UNCHANGED <<queueVars>>
       \/ /\ ~Overdue(a) /\ session[a] = "NONE"
          /\ session' = [session EXCEPT ![a] = "LIVE"]
          /\ UNCHANGED <<status, disqualified, termVars>>
    /\ UNCHANGED <<now, adminVars, birthVars, expiresAt, strikeVars, pauseVars,
                   grantVars, held>>

\* check_and_expire_termination from a poll, an autosave or the roster.
PollTermination(a) ==
    /\ Overdue(a)
    /\ ExecuteExpiration(a, Closed(session[a]))
    /\ UNCHANGED <<now, adminVars, birthVars, expiresAt, queueVars,
                   strikeVars, pauseVars, grantVars, held>>

\* Mutant: the message is trusted, the deadline of the row not looked at.
TerminationTask_Trusting(t) ==
    /\ t \in tasks /\ t.eta <= now
    /\ tasks' = tasks \ {t}
    /\ \/ /\ InProgress(t.attempt) /\ pending[t.attempt]
          /\ ExecuteExpiration(t.attempt, Closed(session[t.attempt]))
       \/ /\ ~(InProgress(t.attempt) /\ pending[t.attempt])
          /\ UNCHANGED <<status, disqualified, pending, session>>
    /\ UNCHANGED <<now, adminVars, birthVars, expiresAt, deadline, unsent,
                   strikeVars, pauseVars, grantVars, held>>

\* expire_window_termination_task: the message is consumed whatever it finds.
TerminationTask(t) ==
    /\ t \in tasks /\ t.eta <= now
    /\ tasks' = tasks \ {t}
    /\ \/ /\ Overdue(t.attempt)
          /\ ExecuteExpiration(t.attempt, Closed(session[t.attempt]))
       \/ /\ ~Overdue(t.attempt)
          /\ UNCHANGED <<status, disqualified, pending, session>>
    /\ UNCHANGED <<now, adminVars, birthVars, expiresAt, deadline, unsent,
                   strikeVars, pauseVars, grantVars, held>>

\* check_websocket_disconnect_task once its token is still valid.
ConnectionLost(a) ==
    /\ InProgress(a)
    /\ ExecuteExpiration(a, Closed(session[a]))
    /\ UNCHANGED <<now, adminVars, birthVars, expiresAt, queueVars,
                   strikeVars, pauseVars, grantVars, held>>

-------------------------------------------------------------------------------
(* Proctoring: ProctoringSessionService, ProctoringRiskService,              *)
(* BrowserSecurityCancellationService                                        *)

StartProctoring(a) ==
    /\ InProgress(a)
    /\ session' = [session EXCEPT ![a] = "LIVE"]
    /\ UNCHANGED <<now, adminVars, birthVars, status, expiresAt, disqualified,
                   termVars, strikeVars, pauseVars, grantVars, held>>

\* degrade_session from a frame task whose inference failed.
DegradeSession(a) ==
    /\ session[a] = "TERMINATED"
    /\ session' = [session EXCEPT ![a] = "LIVE"]
    /\ UNCHANGED <<now, adminVars, birthVars, status, expiresAt, disqualified,
                   termVars, strikeVars, pauseVars, grantVars, held>>

\* One more confirmed strong event reaches the threshold, counted by a reader
\* who misses `missed` of the events already there.
LastStrike(a, missed) == strikes[a] - missed + 1 >= Threshold

\* How many events a count may miss.
Misses == 0..Threshold

CountStrike(a) == strikes' = [strikes EXCEPT ![a] = Earlier(@ + 1, Threshold)]

\* _disqualify_candidate: whatever the status was, it becomes CANCELLED.
Disqualify(a) ==
    /\ status' = [status EXCEPT ![a] = "CANCELLED"]
    /\ disqualified' = [disqualified EXCEPT ![a] = TRUE]
    /\ session' = [session EXCEPT ![a] = "TERMINATED"]

\* record_event for a strong AI signal of a frame task, the INSERT of the event.
\* The task looked at the session when it began; it may be TERMINATED by now.
RecordStrike(w, a) ==
    /\ frame[w] = Idle /\ session[a] # "NONE"
    /\ frame' = [frame EXCEPT ![w] = a]
    /\ CountStrike(a)
    /\ UNCHANGED <<now, adminVars, birthVars, status, expiresAt, disqualified,
                   termVars, session, judged, dropped, pauseVars, grantVars, held>>

\* Mutant: the threshold has to be exceeded.
Reached_OffByOne(a) == strikes[a] > Threshold

\* The count of the stored events has reached the threshold.
Reached(a) == strikes[a] = Threshold

\* The count of the stored events, the warning it may call for, and the first
\* write of _disqualify_candidate, which terminates the session.
JudgeStrikes(w) ==
    LET a == frame[w] IN
    /\ a # Idle /\ w \notin judged
    /\ \/ /\ Reached(a)
          /\ judged' = judged \cup {w}
          /\ session' = [session EXCEPT ![a] = "TERMINATED"]
          /\ UNCHANGED frame
       \/ /\ ~Reached(a)
          /\ frame' = [frame EXCEPT ![w] = Idle]
          /\ UNCHANGED <<judged, session>>
    /\ UNCHANGED <<now, adminVars, birthVars, status, expiresAt, disqualified,
                   termVars, strikes, dropped, pauseVars, grantVars, held>>

\* The second write of _disqualify_candidate: whatever the status was, it
\* becomes CANCELLED.
Condemn(w) ==
    /\ w \in judged
    /\ status' = [status EXCEPT ![frame[w]] = "CANCELLED"]
    /\ disqualified' = [disqualified EXCEPT ![frame[w]] = TRUE]
    /\ frame' = [frame EXCEPT ![w] = Idle]
    /\ judged' = judged \ {w}
    /\ UNCHANGED <<now, adminVars, birthVars, expiresAt, termVars, session,
                   strikes, dropped, pauseVars, grantVars, held>>

\* The worker dies, or an exception ends the task: it reports an error and is
\* not retried.  (What its handler does to the session is DegradeSession.)
LoseFrame(w) ==
    /\ frame[w] # Idle
    /\ frame' = [frame EXCEPT ![w] = Idle]
    /\ judged' = judged \ {w}
    /\ dropped' = dropped \cup {a \in {frame[w]} : strikes[a] = Threshold}
    /\ UNCHANGED <<now, adminVars, birthVars, status, expiresAt, disqualified,
                   termVars, session, strikes, pauseVars, grantVars, held>>

\* cancel_for_security_violation.  record_event runs first, so the strike is
\* counted, and may disqualify, before the check that the attempt is running.
\* Its count does not see the events that frame tasks, which take no lock,
\* commit before it does itself: it may be short by any number of them.
SecurityCancel(a, strong, missed) ==
    LET last == strong /\ LastStrike(a, missed) IN
    /\ a \in Existing /\ missed <= strikes[a]
    /\ IF strong THEN CountStrike(a) ELSE UNCHANGED strikes
    /\ \/ last /\ Disqualify(a)
       \/ /\ ~last /\ InProgress(a)
          /\ status' = [status EXCEPT ![a] = "CANCELLED"]
          /\ disqualified' = [disqualified EXCEPT ![a] = TRUE]
          /\ session' = [session EXCEPT ![a] = "TERMINATED"]
       \/ /\ ~last /\ ~InProgress(a)
          /\ session' = [session EXCEPT ![a] = Opened(@)]
          /\ UNCHANGED <<status, disqualified>>
    /\ pending' = [pending EXCEPT ![a] = @ /\ ~InProgress(a)]
    /\ UNCHANGED <<now, adminVars, birthVars, expiresAt, queueVars,
                   frame, judged, dropped, pauseVars, grantVars, held>>

-------------------------------------------------------------------------------
(* The proctor: LiveInterventionService, ProctorReattemptService *)

MayPause(a) ==
    /\ InProgress(a) /\ ~Lapsed(a) /\ now < EndTime
    /\ pausedAt[a] = NoTime
    /\ pauseUsed[a] < MaxPause

PauseAttempt(a) ==
    /\ MayPause(a)
    /\ pausedAt' = [pausedAt EXCEPT ![a] = now]
    /\ UNCHANGED <<now, adminVars, birthVars, status, expiresAt, disqualified,
                   termVars, session, strikeVars, pauseUsed, grantVars, held>>

\* max(1, int(now - started)).
PauseLength(a) == IF now - pausedAt[a] >= 1 THEN now - pausedAt[a] ELSE 1

\* Mutant: no clamp.
Extended_NoClamp(a) == expiresAt[a] + PauseLength(a)

\* apply_authorized_pause: the clamp to the end of the assessment.
Extended(a) == Earlier(expiresAt[a] + PauseLength(a), EndTime)

ResumeAttempt(a) ==
    /\ InProgress(a) /\ pausedAt[a] # NoTime
    /\ expiresAt' = [expiresAt EXCEPT ![a] = Extended(a)]
    /\ pauseUsed' = [pauseUsed EXCEPT ![a] = @ + PauseLength(a)]
    /\ pausedAt' = [pausedAt EXCEPT ![a] = NoTime]
    /\ UNCHANGED <<now, adminVars, birthVars, status, disqualified, termVars,
                   session, strikeVars, grantVars, held>>

\* Mutant: a countdown that ran out may still be called off.
CancelTermination_Late(a) ==
    /\ InProgress(a) /\ pending[a]
    /\ pending' = [pending EXCEPT ![a] = FALSE]
    /\ UNCHANGED <<now, adminVars, birthVars, status, expiresAt, disqualified,
                   queueVars, session, strikeVars, pauseVars, grantVars, held>>

\* cancel_pending_termination: too late, it executes the termination instead.
CancelTermination(a) ==
    /\ InProgress(a) /\ pending[a]
    /\ \/ Overdue(a) /\ ExecuteExpiration(a, Closed(session[a]))
       \/ /\ ~Overdue(a)
          /\ pending' = [pending EXCEPT ![a] = FALSE]
          /\ UNCHANGED <<status, disqualified, session>>
    /\ UNCHANGED <<now, adminVars, birthVars, expiresAt, queueVars,
                   strikeVars, pauseVars, grantVars, held>>

\* terminate_attempt.  The session and the pending termination stay as they are;
\* on a CANCELLED attempt it changes nothing this module records.
ProctorTerminate(a) ==
    /\ InProgress(a)
    /\ status' = [status EXCEPT ![a] = "CANCELLED"]
    /\ UNCHANGED <<now, adminVars, birthVars, expiresAt, disqualified,
                   termVars, session, strikeVars, pauseVars, grantVars, held>>

MayAuthorize(a) ==
    /\ assigned /\ status[a] = "CANCELLED"
    /\ a # reattempt
    /\ grant = "NONE"

AuthorizeReattempt(a) ==
    /\ MayAuthorize(a)
    /\ grant' = "AUTHORIZED" /\ original' = a /\ availableAt' = now + PrepDelay
    /\ UNCHANGED <<now, adminVars, birthVars, status, expiresAt, disqualified,
                   termVars, session, strikeVars, pauseVars, reattempt, held>>

-------------------------------------------------------------------------------
(* The administrator and the clock *)

ArchiveAssessment ==
    /\ published
    /\ published' = FALSE
    /\ UNCHANGED <<now, assigned, birthVars, status, expiresAt, disqualified,
                   termVars, session, strikeVars, pauseVars, grantVars, held>>

\* revoke_assignment and assign_students.
SetAssignment(on) ==
    /\ assigned # on
    /\ assigned' = on
    /\ UNCHANGED <<now, published, birthVars, status, expiresAt, disqualified,
                   termVars, session, strikeVars, pauseVars, grantVars, held>>

Tick ==
    /\ now < MaxTime
    /\ now' = now + 1
    /\ UNCHANGED <<adminVars, birthVars, status, expiresAt, disqualified,
                   termVars, session, strikeVars, pauseVars, grantVars, held>>

StudentStep(a) ==
    \/ Submit(a) \/ ExplicitTerminate(a)
    \/ Telemetry(a) \/ PollTermination(a) \/ StartProctoring(a)
    \/ \E sent \in BrokerOutcomes : FocusLoss(a, sent)
    \/ \E strong \in BOOLEAN, missed \in Misses : SecurityCancel(a, strong, missed)

ProctorStep(a) ==
    \/ PauseAttempt(a) \/ ResumeAttempt(a) \/ CancelTermination(a)
    \/ ProctorTerminate(a) \/ AuthorizeReattempt(a)

WorkerStep(a) ==
    \/ ConnectionLost(a) \/ DegradeSession(a)
    \/ \E w \in Frames : RecordStrike(w, a)

FrameStep(w) == JudgeStrikes(w) \/ Condemn(w) \/ LoseFrame(w)

Next ==
    \/ StartAttempt \/ StartReattempt
    \/ \E a \in Existing : StudentStep(a) \/ ProctorStep(a) \/ WorkerStep(a)
    \/ \E t \in tasks : TerminationTask(t)
    \/ \E w \in Workers, a \in Existing : ReadLapsed(w, a)
    \/ \E w \in Workers : WriteExpired(w)
    \/ \E w \in Frames : FrameStep(w)
    \/ ArchiveAssessment \/ \E on \in BOOLEAN : SetAssignment(on)
    \/ Tick

Spec == Init /\ [][Next]_vars

\* The broker delivers every scheduled message once its ETA has passed, and time
\* goes on.  Nothing obliges the student, the proctor or a poll to act.
Fairness ==
    /\ WF_vars(Tick)
    /\ \A a \in Attempts, e \in 0..MaxTime :
          WF_vars(TerminationTask([attempt |-> a, eta |-> e]))

FairSpec == Spec /\ Fairness

-------------------------------------------------------------------------------
(* Invariants *)

\* However many pauses an attempt had, its deadline is its duration plus the
\* whole of its closed pauses, and the end of the assessment at the latest
\* (compute_expiry, then apply_authorized_pause after every resume).
TimeBudget ==
    \A a \in Existing :
        expiresAt[a] = Earlier(startedAt[a] + Duration + pauseUsed[a], EndTime)

\* A disqualified attempt is never running and never counts as submitted,
\* whichever handlers come after the disqualification.
DisqualifiedStaysOut ==
    \A a \in Attempts : disqualified[a] => status[a] \in {"CANCELLED", "EXPIRED"}

\* An attempt with as many stored strikes as the threshold allows is not running
\* for longer than a frame task is between storing one and condemning it,
\* whichever of the two sources of events delivered the last one: the exception
\* is an attempt whose task broke off there, which nothing takes up again.  And
\* strikes are only counted on a session.
StrikesDisqualify ==
    \A a \in Attempts :
        /\ strikes[a] = Threshold /\ InProgress(a) =>
              a \in dropped \/ \E w \in Frames : frame[w] = a
        /\ strikes[a] > 0 => session[a] # "NONE"

\* The authorization pays for exactly one attempt beyond the limit, made after
\* the attempt it compensates, and no attempt follows it.
GrantAccounting ==
    /\ made <= AttemptLimit + (IF grant = "CONSUMED" THEN 1 ELSE 0)
    /\ grant = "NONE" => original = 0 /\ reattempt = 0
    /\ grant = "AUTHORIZED" => original \in Existing /\ reattempt = 0
    /\ grant = "CONSUMED" => reattempt = made /\ original \in 1..(made - 1)

\* A countdown that can still cancel its attempt has its message in the queue,
\* so an absent student or proctor does not leave it hanging, unless apply_async
\* failed for this very countdown: a failure of an earlier one does not count,
\* and cancelling, arming again and left-over messages never lose the message.
CountdownArmed ==
    \A a \in Attempts :
        InProgress(a) /\ pending[a] =>
            [attempt |-> a, eta |-> deadline[a]] \in tasks \/ a \in unsent

-------------------------------------------------------------------------------
(* Action properties *)

\* The first verdict on an attempt stands, with the two exceptions the code has:
\* a request that read the row before the verdict may write EXPIRED over it,
\* and the strike that reaches the threshold disqualifies a concluded attempt.
FirstVerdictStands ==
    [][\A a \in Attempts :
          status[a] \in Terminal /\ status'[a] # status[a] =>
              \/ status'[a] = "EXPIRED" /\ \E w \in Workers : held[w] = a
              \/ disqualified'[a] /\ strikes'[a] = Threshold]_vars

\* While a termination stays pending its deadline does not move, and a message
\* left over from a cancelled countdown does not cut the next one short.
CountdownHonoured ==
    [][\A a \in Attempts :
          InProgress(a) /\ pending[a] /\ now < deadline[a] =>
              /\ pending'[a] => deadline'[a] = deadline[a]
              /\ tasks' # tasks => status'[a] = status[a]]_vars

\* With or without its message, a countdown that ran out is final: no proctor
\* calls it off and no submission comes before it, and whichever request ends
\* the attempt leaves it CANCELLED, or EXPIRED where its time is up too.
OverdueStands ==
    [][\A a \in Attempts :
          Overdue(a) /\ (status'[a] # status[a] \/ ~pending'[a]) =>
              status'[a] \in {"CANCELLED", "EXPIRED"}]_vars

-------------------------------------------------------------------------------
(* Liveness and refinement *)

\* A pending termination is decided, one way or the other, by its deadline's
\* message at the latest, if it has one (deadlines past the end of the clock are
\* left out).
PendingResolves ==
    \A a \in Attempts :
        InProgress(a) /\ pending[a] /\ a \notin unsent /\ deadline[a] <= MaxTime
            ~> ~(InProgress(a) /\ pending[a])

Seat == INSTANCE AttemptSeat WITH
            begun <- made,
            writing <- {a \in Existing : status[a] = "IN_PROGRESS"},
            granted <- grant

\* The service keeps the promise AttemptSeat states.
SeatPromise == Seat!SeatSpec

================================================================================
