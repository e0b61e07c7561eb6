----------------------- MODULE AttemptLifecycle_proofs -----------------------
(***************************************************************************)
(* Theorems about AttemptLifecycle, for every limit, clock bound, number   *)
(* of attempts, of stale requests and of frame tasks.                      *)
(***************************************************************************)
EXTENDS AttemptLifecycle, TLAPS

-------------------------------------------------------------------------------
(* Type correctness *)

LEMMA TypeInit == Init => TypeOK
BY LimitAssumption, ClockAssumption, ThresholdAssumption
   DEF Init, TypeOK, Attempts, Statuses, Sessions, Grants, Idle, NoTime

\* The two actions that create an attempt.
LEMMA TypeStart == TypeOK /\ (StartAttempt \/ StartReattempt) => TypeOK'
<1>1. ASSUME TypeOK, NEW before \in [Attempts -> Statuses], CreateAttempt(before),
             \A a \in Attempts : before[a] = "NONE" <=> status[a] = "NONE"
      PROVE  /\ made' = made + 1 /\ made' \in 0..MaxAttempts
             /\ status' \in [Attempts -> Statuses]
             /\ \A a \in Attempts : status'[a] = "NONE" <=> a > made'
             /\ startedAt' \in [Attempts -> Int] /\ expiresAt' \in [Attempts -> Int]
  <2>1. /\ made \in Nat /\ MaxAttempts \in Nat /\ now \in Int
        /\ made + 1 \in Attempts /\ made' = made + 1
    BY <1>1, LimitAssumption DEF TypeOK, CreateAttempt
  <2>2. made' \in 0..MaxAttempts
    BY <2>1 DEF Attempts
  <2>3. ComputeExpiry(now) \in Int
    BY <2>1, ClockAssumption DEF ComputeExpiry, Earlier
  <2>4. \A a \in Attempts : a > made' <=> a > made /\ a # made + 1
    BY <2>1 DEF Attempts
  <2>5. ~(made + 1 > made')
    BY <2>1
  <2>6. /\ status' \in [Attempts -> Statuses]
        /\ \A a \in Attempts : status'[a] = "NONE" <=> a > made'
    BY <1>1, <2>1, <2>4, <2>5 DEF TypeOK, CreateAttempt, Statuses
  <2>7. startedAt' \in [Attempts -> Int] /\ expiresAt' \in [Attempts -> Int]
    BY <1>1, <2>1, <2>3 DEF TypeOK, CreateAttempt
  <2> QED
    BY <2>1, <2>2, <2>6, <2>7
<1>2. ASSUME TypeOK, NEW h \in Int, h = made + 1
      PROVE  held \in [Workers -> 0..h] /\ frame \in [Frames -> 0..h]
  BY <1>2, LimitAssumption DEF TypeOK
<1>3. CASE TypeOK /\ StartAttempt
  <2> DEFINE before == [a \in Attempts |-> IF InProgress(a) THEN "EXPIRED" ELSE status[a]]
  <2>1. before \in [Attempts -> Statuses]
    BY <1>3 DEF TypeOK, Statuses
  <2>2. \A a \in Attempts : before[a] = "NONE" <=> status[a] = "NONE"
    BY DEF InProgress
  <2>3. CreateAttempt(before)
    BY <1>3 DEF StartAttempt
  <2>4. made' = made + 1 /\ made' \in 0..MaxAttempts
    BY <1>1, <1>3, <2>1, <2>2, <2>3
  <2> QED
    BY <1>1, <1>2, <1>3, <2>1, <2>2, <2>3, <2>4
       DEF StartAttempt, TypeOK, adminVars, termVars, queueVars, strikeVars, pauseVars, grantVars
<1>4. CASE TypeOK /\ StartReattempt
  <2>1. CreateAttempt(status) /\ status \in [Attempts -> Statuses]
    BY <1>4 DEF StartReattempt, TypeOK
  <2>2. made' = made + 1 /\ made' \in 0..MaxAttempts
    BY <1>1, <1>4, <2>1
  <2> QED
    BY <1>1, <1>2, <1>4, <2>1, <2>2
       DEF StartReattempt, TypeOK, Grants, adminVars, termVars, queueVars, strikeVars, pauseVars
<1> QED
  BY <1>3, <1>4

LEMMA TypeStudent ==
    \A a \in Existing : TypeOK /\ StudentStep(a) => TypeOK'
<1> SUFFICES ASSUME NEW a \in Existing PROVE TypeOK /\ StudentStep(a) => TypeOK'
  OBVIOUS
<1> USE DEF adminVars, birthVars, termVars, queueVars, strikeVars, pauseVars, grantVars
<1>0. TypeOK => a \in Attempts /\ ~(a > made)
  BY LimitAssumption DEF TypeOK, Existing, Attempts
<1>1. TypeOK /\ Submit(a) => TypeOK'
  BY <1>0 DEF TypeOK, Submit, Statuses
<1>2. TypeOK /\ ExplicitTerminate(a) => TypeOK'
  BY <1>0 DEF TypeOK, ExplicitTerminate, Closed, Statuses, Sessions
<1>3. TypeOK /\ Telemetry(a) => TypeOK'
  BY <1>0 DEF TypeOK, Telemetry, ExecuteExpiration, Statuses, Sessions
<1>4. TypeOK /\ PollTermination(a) => TypeOK'
  BY <1>0 DEF TypeOK, PollTermination, ExecuteExpiration, Closed, Statuses, Sessions
<1>5. TypeOK /\ StartProctoring(a) => TypeOK'
  BY <1>0 DEF TypeOK, StartProctoring, Sessions
<1>6. ASSUME NEW sent \in BrokerOutcomes PROVE TypeOK /\ FocusLoss(a, sent) => TypeOK'
  <2>1. TypeOK => now + TermDelay \in Int
    BY ClockAssumption DEF TypeOK
  <2>2. TypeOK => [attempt |-> a, eta |-> now + TermDelay] \in [attempt : Attempts, eta : Int]
    BY <1>0, <2>1
  <2> QED
    BY <1>0, <2>1, <2>2 DEF TypeOK, FocusLoss, TriggerTermination, Opened, Sessions
<1>7. ASSUME NEW strong \in BOOLEAN, NEW missed \in Misses
      PROVE  TypeOK /\ SecurityCancel(a, strong, missed) => TypeOK'
  <2>1. TypeOK /\ CountStrike(a) => strikes' \in [Attempts -> 0..Threshold]
    BY <1>0, ThresholdAssumption DEF TypeOK, CountStrike, Earlier
  <2>2. TypeOK /\ SecurityCancel(a, strong, missed) => strikes' \in [Attempts -> 0..Threshold]
    BY <2>1 DEF SecurityCancel, TypeOK
  <2>3. TypeOK /\ SecurityCancel(a, strong, missed)
            => /\ pending' \in [Attempts -> BOOLEAN]
               /\ session' \in [Attempts -> Sessions]
               /\ disqualified' \in [Attempts -> BOOLEAN]
    BY <1>0 DEF TypeOK, SecurityCancel, Disqualify, Opened, Sessions
  <2>4. TypeOK /\ SecurityCancel(a, strong, missed)
            => /\ status' \in [Attempts -> Statuses]
               /\ \A b \in Attempts : status'[b] = "NONE" <=> b > made
    BY <1>0 DEF TypeOK, SecurityCancel, Disqualify, Statuses
  <2> QED
    BY <2>2, <2>3, <2>4 DEF TypeOK, SecurityCancel
<1> QED
  BY <1>1, <1>2, <1>3, <1>4, <1>5, <1>6, <1>7 DEF StudentStep

LEMMA TypeProctor ==
    \A a \in Existing : TypeOK /\ ProctorStep(a) => TypeOK'
<1> SUFFICES ASSUME NEW a \in Existing PROVE TypeOK /\ ProctorStep(a) => TypeOK'
  OBVIOUS
<1> USE DEF adminVars, birthVars, termVars, queueVars, strikeVars, pauseVars, grantVars
<1>0. TypeOK => a \in Attempts /\ a \in 0..MaxAttempts /\ ~(a > made)
  BY LimitAssumption DEF TypeOK, Existing, Attempts
<1>1. TypeOK /\ PauseAttempt(a) => TypeOK'
  <2>1. TypeOK => now \in Int
    BY DEF TypeOK
  <2> QED
    BY <1>0, <2>1 DEF TypeOK, PauseAttempt
<1>2. TypeOK /\ ResumeAttempt(a) => TypeOK'
  <2>1. TypeOK => PauseLength(a) \in Nat /\ expiresAt[a] + PauseLength(a) \in Int
    BY <1>0 DEF TypeOK, PauseLength
  <2>2. TypeOK => Extended(a) \in Int /\ pauseUsed[a] + PauseLength(a) \in Nat
    BY <1>0, <2>1, ClockAssumption DEF TypeOK, Extended, Earlier
  <2> QED
    BY <1>0, <2>2 DEF TypeOK, ResumeAttempt, NoTime
<1>3. TypeOK /\ CancelTermination(a) => TypeOK'
  BY <1>0 DEF TypeOK, CancelTermination, ExecuteExpiration, Closed, Statuses, Sessions
<1>4. TypeOK /\ ProctorTerminate(a) => TypeOK'
  BY <1>0 DEF TypeOK, ProctorTerminate, Statuses
<1>5. TypeOK /\ AuthorizeReattempt(a) => TypeOK'
  <2>1. TypeOK => now + PrepDelay \in Int
    BY ClockAssumption DEF TypeOK
  <2> QED
    BY <1>0, <2>1 DEF TypeOK, AuthorizeReattempt, Grants
<1> QED
  BY <1>1, <1>2, <1>3, <1>4, <1>5 DEF ProctorStep

LEMMA TypeWorker ==
    \A a \in Existing : TypeOK /\ WorkerStep(a) => TypeOK'
<1> SUFFICES ASSUME NEW a \in Existing PROVE TypeOK /\ WorkerStep(a) => TypeOK'
  OBVIOUS
<1> USE DEF adminVars, birthVars, termVars, queueVars, strikeVars, pauseVars, grantVars
<1>0. TypeOK => a \in Attempts /\ ~(a > made)
  BY LimitAssumption DEF TypeOK, Existing, Attempts
<1>1. TypeOK /\ ConnectionLost(a) => TypeOK'
  BY <1>0 DEF TypeOK, ConnectionLost, ExecuteExpiration, Closed, Statuses, Sessions
<1>2. ASSUME NEW w \in Frames PROVE TypeOK /\ RecordStrike(w, a) => TypeOK'
  <2>1. TypeOK /\ CountStrike(a) => strikes' \in [Attempts -> 0..Threshold]
    BY <1>0, ThresholdAssumption DEF TypeOK, CountStrike, Earlier
  <2>2. TypeOK => a \in 0..made
    BY DEF Existing
  <2> QED
    BY <2>1, <2>2 DEF TypeOK, RecordStrike
<1>3. TypeOK /\ DegradeSession(a) => TypeOK'
  BY <1>0 DEF TypeOK, DegradeSession, Sessions
<1> QED
  BY <1>1, <1>2, <1>3 DEF WorkerStep

\* What a frame task is about to do concerns a row that exists.
LEMMA FrameRow ==
    ASSUME TypeOK, NEW w \in Frames, frame[w] # Idle
    PROVE  frame[w] \in Attempts /\ frame[w] \in Existing /\ ~(frame[w] > made)
<1>1. frame[w] \in 0..made /\ frame[w] # 0 /\ made \in 0..MaxAttempts
  BY DEF TypeOK, Idle
<1> QED
  BY <1>1, LimitAssumption DEF Attempts, Existing

LEMMA TypeFrame ==
    \A w \in Frames : TypeOK /\ FrameStep(w) => TypeOK'
<1> SUFFICES ASSUME NEW w \in Frames, TypeOK, FrameStep(w) PROVE TypeOK'
  OBVIOUS
<1> USE DEF adminVars, birthVars, termVars, queueVars, pauseVars, grantVars
<1>0. Idle \in 0..made
  BY LimitAssumption DEF TypeOK, Idle
<1>1. CASE JudgeStrikes(w)
  BY <1>0, <1>1 DEF TypeOK, JudgeStrikes, Sessions
<1>2. CASE Condemn(w) /\ frame[w] # Idle
  BY <1>0, <1>2, FrameRow DEF TypeOK, Condemn, Statuses
<1>3. CASE Condemn(w) /\ frame[w] = Idle
  <2>1. frame[w] \notin Attempts
    BY <1>3, LimitAssumption DEF Idle, Attempts
  <2> QED
    BY <1>0, <1>3, <2>1 DEF TypeOK, Condemn, Statuses
<1>4. CASE LoseFrame(w)
  <2>1. frame[w] \in Attempts
    BY <1>4, FrameRow DEF LoseFrame
  <2> QED
    BY <1>0, <1>4, <2>1 DEF TypeOK, LoseFrame
<1> QED
  BY <1>1, <1>2, <1>3, <1>4 DEF FrameStep

\* What an unlocked copy does when it is written back.
LEMMA TypeStale ==
    \A w \in Workers :
        /\ \A a \in Existing : TypeOK /\ ReadLapsed(w, a) => TypeOK'
        /\ TypeOK /\ WriteExpired(w) => TypeOK'
<1> SUFFICES ASSUME NEW w \in Workers
             PROVE  /\ \A a \in Existing : TypeOK /\ ReadLapsed(w, a) => TypeOK'
                    /\ TypeOK /\ WriteExpired(w) => TypeOK'
  OBVIOUS
<1> USE DEF adminVars, birthVars, termVars, queueVars, strikeVars, pauseVars, grantVars
<1>1. ASSUME NEW a \in Existing PROVE TypeOK /\ ReadLapsed(w, a) => TypeOK'
  <2>1. TypeOK => a \in 0..made
    BY DEF TypeOK, Existing
  <2> QED
    BY <2>1 DEF TypeOK, ReadLapsed
<1>2. TypeOK /\ WriteExpired(w) => TypeOK'
  <2>1. TypeOK /\ WriteExpired(w) => held[w] \in Attempts /\ ~(held[w] > made)
    <3>1. TypeOK /\ WriteExpired(w) =>
              held[w] \in 0..made /\ held[w] # 0 /\ made \in 0..MaxAttempts
      BY DEF TypeOK, WriteExpired, Idle
    <3> QED
      BY <3>1, LimitAssumption DEF Attempts
  <2>2. TypeOK => Idle \in 0..made
    BY DEF TypeOK, Idle
  <2> QED
    BY <2>1, <2>2 DEF TypeOK, WriteExpired, Statuses
<1> QED
  BY <1>1, <1>2

LEMMA TypeStep == TypeOK /\ [Next]_vars => TypeOK'
<1> USE DEF adminVars, birthVars, termVars, queueVars, strikeVars, pauseVars, grantVars
<1>1. ASSUME NEW t \in tasks PROVE TypeOK /\ TerminationTask(t) => TypeOK'
  <2>1. TypeOK /\ Overdue(t.attempt) => t.attempt \in Attempts /\ ~(t.attempt > made)
    BY DEF TypeOK, Overdue, InProgress
  <2>2. TypeOK => tasks \ {t} \subseteq [attempt : Attempts, eta : Int]
    BY DEF TypeOK
  <2> QED
    BY <2>1, <2>2 DEF TypeOK, TerminationTask, ExecuteExpiration, Closed, Statuses, Sessions
<1>2. TypeOK /\ ArchiveAssessment => TypeOK'
  BY DEF TypeOK, ArchiveAssessment
<1>3. ASSUME NEW on \in BOOLEAN PROVE TypeOK /\ SetAssignment(on) => TypeOK'
  BY DEF TypeOK, SetAssignment
<1>4. TypeOK /\ Tick => TypeOK'
  BY ClockAssumption DEF TypeOK, Tick
<1>5. TypeOK /\ UNCHANGED vars => TypeOK'
  BY DEF TypeOK, vars
<1> QED
  BY <1>1, <1>2, <1>3, <1>4, <1>5,
     TypeStart, TypeStudent, TypeProctor, TypeWorker, TypeFrame, TypeStale DEF Next

\* Type correctness of every reachable state.
THEOREM Typing == Spec => []TypeOK
BY TypeInit, TypeStep, PTL DEF Spec

-------------------------------------------------------------------------------
(* Verdicts and strikes *)

\* The columns of a row that does not exist yet are blank.
Fresh ==
    \A a \in Attempts : status[a] = "NONE" =>
        /\ session[a] = "NONE" /\ strikes[a] = 0
        /\ pauseUsed[a] = 0 /\ ~pending[a]

\* A frame task that is about to condemn an attempt counted Threshold events.
JudgedRight ==
    \A w \in judged : frame[w] # Idle /\ strikes[frame[w]] = Threshold

\* What makes the verdict invariants inductive.
VerdictInv == Fresh /\ JudgedRight /\ DisqualifiedStaysOut /\ StrikesDisqualify

LEMMA VerdictInit == Init => VerdictInv
BY ThresholdAssumption
   DEF Init, VerdictInv, Fresh, JudgedRight, DisqualifiedStaysOut, StrikesDisqualify, InProgress

LEMMA VerdictStart ==
    TypeOK /\ VerdictInv /\ (StartAttempt \/ StartReattempt) => VerdictInv'
<1> SUFFICES ASSUME TypeOK, VerdictInv, StartAttempt \/ StartReattempt
             PROVE  VerdictInv'
  OBVIOUS
<1>1. made + 1 \in Attempts /\ status[made + 1] = "NONE"
  BY LimitAssumption DEF TypeOK, StartAttempt, StartReattempt, CreateAttempt, Attempts
<1>2. UNCHANGED <<disqualified, session, strikeVars, pauseUsed, pending>>
  BY DEF StartAttempt, StartReattempt, termVars, queueVars, strikeVars, pauseVars
<1>3. \A a \in Attempts :
          \/ a = made + 1 /\ status'[a] = "IN_PROGRESS"
          \/ a # made + 1 /\ status'[a] = status[a]
          \/ a # made + 1 /\ InProgress(a) /\ status'[a] = "EXPIRED"
  BY <1>1 DEF TypeOK, StartAttempt, StartReattempt, CreateAttempt
<1>4. Fresh'
  BY <1>2, <1>3 DEF VerdictInv, Fresh, InProgress, strikeVars
<1>5. DisqualifiedStaysOut'
  BY <1>1, <1>2, <1>3 DEF VerdictInv, DisqualifiedStaysOut, InProgress
<1>6. StrikesDisqualify'
  BY <1>1, <1>2, <1>3, ThresholdAssumption
     DEF VerdictInv, Fresh, StrikesDisqualify, InProgress, strikeVars
<1>7. JudgedRight'
  BY <1>2 DEF VerdictInv, JudgedRight, strikeVars
<1> QED
  BY <1>4, <1>5, <1>6, <1>7 DEF VerdictInv

LEMMA VerdictStudent ==
    \A a \in Existing : TypeOK /\ VerdictInv /\ StudentStep(a) => VerdictInv'
<1> SUFFICES ASSUME NEW a \in Existing, TypeOK, VerdictInv
             PROVE  StudentStep(a) => VerdictInv'
  OBVIOUS
<1> USE DEF VerdictInv, Fresh, JudgedRight, DisqualifiedStaysOut, StrikesDisqualify,
            termVars, queueVars, strikeVars, pauseVars
<1>0. a \in Attempts /\ status[a] # "NONE"
  <2>1. a \in Attempts /\ ~(a > made)
    BY LimitAssumption DEF TypeOK, Existing, Attempts
  <2> QED
    BY <2>1 DEF TypeOK
<1>1. Submit(a) => VerdictInv'
  BY <1>0 DEF TypeOK, Submit, MaySubmit, InProgress
<1>2. ExplicitTerminate(a) => VerdictInv'
  BY <1>0 DEF TypeOK, ExplicitTerminate, InProgress, Closed
<1>3. Telemetry(a) => VerdictInv'
  BY <1>0 DEF TypeOK, Telemetry, Overdue, ExecuteExpiration, InProgress
<1>4. PollTermination(a) => VerdictInv'
  BY <1>0 DEF TypeOK, PollTermination, ExecuteExpiration, InProgress, Closed
<1>5. StartProctoring(a) => VerdictInv'
  BY <1>0 DEF TypeOK, StartProctoring, InProgress
<1>6. ASSUME NEW sent \in BrokerOutcomes PROVE FocusLoss(a, sent) => VerdictInv'
  BY <1>0 DEF TypeOK, FocusLoss, TriggerTermination, Opened, InProgress
<1>7. ASSUME NEW strong \in BOOLEAN, NEW missed \in Misses
      PROVE  SecurityCancel(a, strong, missed) => VerdictInv'
  <2>1. ASSUME SecurityCancel(a, strong, missed) PROVE VerdictInv'
    <3>1. \A b \in Attempts : b # a =>
              /\ status'[b] = status[b] /\ disqualified'[b] = disqualified[b]
              /\ session'[b] = session[b] /\ strikes'[b] = strikes[b]
              /\ pauseUsed'[b] = pauseUsed[b] /\ pending'[b] = pending[b]
      BY <2>1, <1>0 DEF TypeOK, SecurityCancel, CountStrike, Disqualify
    <3>2. /\ session'[a] # "NONE" /\ status'[a] # "IN_PROGRESS"
          /\ status'[a] # "NONE"
      BY <2>1, <1>0 DEF TypeOK, SecurityCancel, Disqualify, Opened, InProgress
    <3>3. disqualified'[a] => status'[a] \in {"CANCELLED", "EXPIRED"}
      BY <2>1, <1>0 DEF TypeOK, SecurityCancel, Disqualify
    <3>4. JudgedRight'
      <4>1. strikes[a] = Threshold => strikes'[a] = Threshold
        BY <2>1, <1>0, ThresholdAssumption DEF TypeOK, SecurityCancel, CountStrike, Earlier
      <4>2. \A w \in judged : frame[w] \in Attempts
        BY FrameRow DEF TypeOK
      <4> QED
        BY <2>1, <3>1, <4>1, <4>2 DEF SecurityCancel
    <3>5. \A b \in Attempts : strikes'[b] = Threshold /\ InProgress(b)' =>
              b \in dropped' \/ \E w \in Frames : frame'[w] = b
      BY <2>1, <3>1, <3>2 DEF SecurityCancel, InProgress
    <3> QED
      BY <3>1, <3>2, <3>3, <3>4, <3>5 DEF InProgress
  <2> QED
    BY <2>1
<1> QED
  BY <1>1, <1>2, <1>3, <1>4, <1>5, <1>6, <1>7 DEF StudentStep

LEMMA VerdictProctor ==
    \A a \in Existing : TypeOK /\ VerdictInv /\ ProctorStep(a) => VerdictInv'
<1> SUFFICES ASSUME NEW a \in Existing, TypeOK, VerdictInv
             PROVE  ProctorStep(a) => VerdictInv'
  OBVIOUS
<1> USE DEF VerdictInv, Fresh, JudgedRight, DisqualifiedStaysOut, StrikesDisqualify,
            termVars, queueVars, strikeVars, pauseVars
<1>0. a \in Attempts /\ status[a] # "NONE"
  <2>1. a \in Attempts /\ ~(a > made)
    BY LimitAssumption DEF TypeOK, Existing, Attempts
  <2> QED
    BY <2>1 DEF TypeOK
<1>1. PauseAttempt(a) => VerdictInv'
  BY DEF PauseAttempt, InProgress
<1>2. ResumeAttempt(a) => VerdictInv'
  BY <1>0 DEF TypeOK, ResumeAttempt, InProgress
<1>3. CancelTermination(a) => VerdictInv'
  BY <1>0 DEF TypeOK, CancelTermination, Overdue, ExecuteExpiration, InProgress, Closed
<1>4. ProctorTerminate(a) => VerdictInv'
  BY <1>0 DEF TypeOK, ProctorTerminate, InProgress
<1>5. AuthorizeReattempt(a) => VerdictInv'
  BY DEF AuthorizeReattempt, InProgress
<1> QED
  BY <1>1, <1>2, <1>3, <1>4, <1>5 DEF ProctorStep

LEMMA VerdictWorker ==
    \A a \in Existing : TypeOK /\ VerdictInv /\ WorkerStep(a) => VerdictInv'
<1> SUFFICES ASSUME NEW a \in Existing, TypeOK, VerdictInv
             PROVE  WorkerStep(a) => VerdictInv'
  OBVIOUS
<1> USE DEF VerdictInv, Fresh, JudgedRight, DisqualifiedStaysOut, StrikesDisqualify,
            termVars, queueVars, strikeVars, pauseVars
<1>0. a \in Attempts /\ status[a] # "NONE"
  <2>1. a \in Attempts /\ ~(a > made)
    BY LimitAssumption DEF TypeOK, Existing, Attempts
  <2> QED
    BY <2>1 DEF TypeOK
<1>1. ConnectionLost(a) => VerdictInv'
  BY <1>0 DEF TypeOK, ConnectionLost, ExecuteExpiration, InProgress, Closed
<1>2. ASSUME NEW w \in Frames, RecordStrike(w, a) PROVE VerdictInv'
  <2>1. /\ \A b \in Attempts : b # a => strikes'[b] = strikes[b]
        /\ strikes[a] = Threshold => strikes'[a] = Threshold
    BY <1>0, <1>2, ThresholdAssumption DEF TypeOK, RecordStrike, CountStrike, Earlier
  <2>2. /\ frame[w] = Idle /\ frame'[w] = a /\ session[a] # "NONE"
        /\ \A v \in Frames : v # w => frame'[v] = frame[v]
        /\ UNCHANGED <<judged, dropped, status, disqualified, session, pauseUsed, pending>>
    BY <1>2 DEF TypeOK, RecordStrike
  <2>3. JudgedRight'
    <3>1. \A v \in judged : v \in Frames /\ v # w /\ frame[v] \in Attempts
      BY <2>2, FrameRow DEF TypeOK
    <3> QED
      BY <2>1, <2>2, <3>1
  <2>4. \A b \in Attempts : frame'[w] = b \/ \A v \in Frames : frame[v] = b => frame'[v] = b
    <3>1. Idle \notin Attempts
      BY LimitAssumption DEF Idle, Attempts
    <3> QED
      BY <2>2, <3>1
  <2>5. StrikesDisqualify'
    BY <2>1, <2>2, <2>4 DEF InProgress
  <2> QED
    BY <1>0, <2>1, <2>2, <2>3, <2>5
<1>3. DegradeSession(a) => VerdictInv'
  BY <1>0 DEF TypeOK, DegradeSession, InProgress
<1> QED
  BY <1>1, <1>2, <1>3 DEF WorkerStep

LEMMA VerdictFrame ==
    \A w \in Frames : TypeOK /\ VerdictInv /\ FrameStep(w) => VerdictInv'
<1> SUFFICES ASSUME NEW w \in Frames, TypeOK, VerdictInv, FrameStep(w)
             PROVE  VerdictInv'
  OBVIOUS
<1> USE DEF VerdictInv, Fresh, JudgedRight, DisqualifiedStaysOut, StrikesDisqualify,
            termVars, queueVars, pauseVars
<1> DEFINE a == frame[w]
<1>0. a # Idle /\ a \in Attempts /\ status[a] # "NONE"
  <2>1. a # Idle
    BY DEF FrameStep, JudgeStrikes, Condemn, LoseFrame
  <2> QED
    BY <2>1, FrameRow DEF TypeOK
<1>1. CASE JudgeStrikes(w)
  <2>1. /\ UNCHANGED <<status, disqualified, strikes, dropped, pauseUsed, pending>>
        /\ \A b \in Attempts : b # a => session'[b] = session[b]
        /\ session'[a] = session[a] \/ session'[a] = "TERMINATED"
    BY <1>0, <1>1 DEF TypeOK, JudgeStrikes
  <2>2. /\ \A v \in Frames : v # w => frame'[v] = frame[v]
        /\ frame'[w] = a \/ strikes[a] # Threshold
    BY <1>1 DEF TypeOK, JudgeStrikes, Reached
  <2>3. JudgedRight'
    <3>1. \/ judged' = judged
          \/ judged' = judged \cup {w} /\ frame' = frame /\ strikes[a] = Threshold
      BY <1>1 DEF JudgeStrikes, Reached
    <3>2. w \notin judged /\ judged \subseteq Frames
      BY <1>1 DEF TypeOK, JudgeStrikes
    <3> QED
      BY <1>0, <2>1, <2>2, <3>1, <3>2
  <2>4. StrikesDisqualify'
    BY <2>1, <2>2 DEF InProgress
  <2> QED
    BY <1>0, <2>1, <2>3, <2>4
<1>2. CASE Condemn(w)
  <2>1. /\ UNCHANGED <<session, strikes, dropped, pauseUsed, pending>>
        /\ status'[a] = "CANCELLED"
        /\ \A b \in Attempts : b # a =>
              status'[b] = status[b] /\ disqualified'[b] = disqualified[b]
        /\ \A v \in Frames : v # w => frame'[v] = frame[v]
        /\ judged' = judged \ {w} /\ judged \subseteq Frames
    BY <1>0, <1>2 DEF TypeOK, Condemn
  <2>2. JudgedRight'
    BY <2>1
  <2>3. StrikesDisqualify'
    BY <2>1 DEF InProgress
  <2> QED
    BY <1>0, <2>1, <2>2, <2>3
<1>3. CASE LoseFrame(w)
  <2>1. /\ UNCHANGED <<status, disqualified, session, strikes, pauseUsed, pending>>
        /\ \A v \in Frames : v # w => frame'[v] = frame[v]
        /\ judged' = judged \ {w} /\ judged \subseteq Frames
        /\ dropped \subseteq dropped' /\ (strikes[a] = Threshold => a \in dropped')
    BY <1>3 DEF TypeOK, LoseFrame
  <2>2. JudgedRight'
    BY <2>1
  <2>3. StrikesDisqualify'
    BY <2>1 DEF InProgress
  <2> QED
    BY <1>0, <2>1, <2>2, <2>3
<1> QED
  BY <1>1, <1>2, <1>3 DEF FrameStep

LEMMA VerdictStep == TypeOK /\ VerdictInv /\ [Next]_vars => VerdictInv'
<1> SUFFICES ASSUME TypeOK, VerdictInv PROVE [Next]_vars => VerdictInv'
  OBVIOUS
<1> USE DEF VerdictInv, Fresh, JudgedRight, DisqualifiedStaysOut, StrikesDisqualify,
            termVars, queueVars, strikeVars, pauseVars, InProgress
<1>1. ASSUME NEW t \in tasks PROVE TerminationTask(t) => VerdictInv'
  <2>1. t.attempt \in Attempts
    BY DEF TypeOK
  <2> QED
    BY <2>1 DEF TypeOK, TerminationTask, Overdue, ExecuteExpiration, Closed
<1>2. ASSUME NEW w \in Workers, NEW a \in Existing PROVE ReadLapsed(w, a) => VerdictInv'
  BY DEF ReadLapsed
<1>3. ASSUME NEW w \in Workers PROVE WriteExpired(w) => VerdictInv'
  <2>1. WriteExpired(w) => held[w] \in Attempts /\ status[held[w]] # "NONE"
    <3>1. WriteExpired(w) => held[w] \in 0..made /\ held[w] # 0 /\ made \in 0..MaxAttempts
      BY DEF TypeOK, WriteExpired, Idle
    <3>2. WriteExpired(w) => held[w] \in Attempts /\ ~(held[w] > made)
      BY <3>1, LimitAssumption DEF Attempts
    <3> QED
      BY <3>2 DEF TypeOK
  <2> QED
    BY <2>1 DEF TypeOK, WriteExpired
<1>4. ArchiveAssessment => VerdictInv'
  BY DEF ArchiveAssessment
<1>5. ASSUME NEW on \in BOOLEAN PROVE SetAssignment(on) => VerdictInv'
  BY DEF SetAssignment
<1>6. Tick => VerdictInv'
  BY DEF Tick
<1>7. UNCHANGED vars => VerdictInv'
  BY DEF vars
<1> QED
  BY <1>1, <1>2, <1>3, <1>4, <1>5, <1>6, <1>7,
     VerdictStart, VerdictStudent, VerdictProctor, VerdictWorker, VerdictFrame DEF Next

\* A disqualified attempt never runs again and never counts as submitted, and an
\* attempt whose stored strikes reached the threshold is about to be condemned,
\* or its frame task broke off between the INSERT and the save.
THEOREM Verdicts == Spec => [](DisqualifiedStaysOut /\ StrikesDisqualify)
<1>1. TypeOK /\ VerdictInv /\ [Next]_vars => (TypeOK /\ VerdictInv)'
  BY TypeStep, VerdictStep
<1>2. VerdictInv => DisqualifiedStaysOut /\ StrikesDisqualify
  BY DEF VerdictInv
<1> QED
  BY <1>1, <1>2, TypeInit, VerdictInit, PTL DEF Spec

\* The half of it that a run states by itself: with any number of frame tasks in
\* the middle of record_event, Threshold strikes leave an attempt running only
\* while one of them is to end it, or after one of them broke off there.
THEOREM Strikes == Spec => []StrikesDisqualify
BY Verdicts, PTL

-------------------------------------------------------------------------------
(* The timer *)

\* Only three actions touch the rows' clocks.
LEMMA TimerFrame ==
    ASSUME [Next]_vars
    PROVE  \/ StartAttempt \/ StartReattempt
           \/ \E a \in Existing : ResumeAttempt(a)
           \/ UNCHANGED <<made, startedAt, expiresAt, pauseUsed>>
<1> USE DEF birthVars, pauseVars
<1>1. ASSUME NEW a \in Existing, StudentStep(a)
      PROVE  UNCHANGED <<made, startedAt, expiresAt, pauseUsed>>
  BY <1>1 DEF StudentStep, Submit, ExplicitTerminate, Telemetry, PollTermination,
     StartProctoring, FocusLoss, SecurityCancel
<1>2. ASSUME NEW a \in Existing, ProctorStep(a)
      PROVE  ResumeAttempt(a) \/ UNCHANGED <<made, startedAt, expiresAt, pauseUsed>>
  BY <1>2 DEF ProctorStep, PauseAttempt, CancelTermination, ProctorTerminate,
     AuthorizeReattempt
<1>3. ASSUME NEW a \in Existing, WorkerStep(a)
      PROVE  UNCHANGED <<made, startedAt, expiresAt, pauseUsed>>
  BY <1>3 DEF WorkerStep, ConnectionLost, RecordStrike, DegradeSession
<1>4. ASSUME NEW t \in tasks, TerminationTask(t)
      PROVE  UNCHANGED <<made, startedAt, expiresAt, pauseUsed>>
  BY <1>4 DEF TerminationTask
<1>5. ASSUME NEW w \in Workers, WriteExpired(w) \/ \E a \in Existing : ReadLapsed(w, a)
      PROVE  UNCHANGED <<made, startedAt, expiresAt, pauseUsed>>
  BY <1>5 DEF WriteExpired, ReadLapsed
<1>6. ASSUME ArchiveAssessment \/ Tick \/ (\E on \in BOOLEAN : SetAssignment(on))
      PROVE  UNCHANGED <<made, startedAt, expiresAt, pauseUsed>>
  BY <1>6 DEF ArchiveAssessment, Tick, SetAssignment
<1>7. ASSUME NEW w \in Frames, FrameStep(w)
      PROVE  UNCHANGED <<made, startedAt, expiresAt, pauseUsed>>
  BY <1>7 DEF FrameStep, JudgeStrikes, Condemn, LoseFrame
<1> QED
  BY <1>1, <1>2, <1>3, <1>4, <1>5, <1>6, <1>7 DEF Next, vars

\* Extending by a pause and clamping, or the other way round, is the same.
LEMMA ClampedSum ==
    ASSUME NEW x \in Int, NEW e \in Int, NEW p \in Nat
    PROVE  Earlier(Earlier(x, e) + p, e) = Earlier(x + p, e)
BY DEF Earlier

LEMMA TimerStart ==
    TypeOK /\ Fresh /\ TimeBudget /\ (StartAttempt \/ StartReattempt) => TimeBudget'
<1> SUFFICES ASSUME TypeOK, Fresh, TimeBudget, StartAttempt \/ StartReattempt
             PROVE  TimeBudget'
  OBVIOUS
<1>1. /\ made \in Nat /\ now \in Int /\ made + 1 \in Attempts /\ made' = made + 1
      /\ startedAt' = [startedAt EXCEPT ![made + 1] = now]
      /\ expiresAt' = [expiresAt EXCEPT ![made + 1] = ComputeExpiry(now)]
      /\ pauseUsed' = pauseUsed
  BY LimitAssumption DEF TypeOK, StartAttempt, StartReattempt, CreateAttempt, pauseVars
<1>2. pauseUsed[made + 1] = 0
  <2>1. made + 1 > made
    BY <1>1
  <2> QED
    BY <1>1, <2>1 DEF TypeOK, Fresh
<1>3. expiresAt'[made + 1] = Earlier(startedAt'[made + 1] + Duration + pauseUsed'[made + 1], EndTime)
  BY <1>1, <1>2, ClockAssumption DEF TypeOK, ComputeExpiry
<1>4. ASSUME NEW a \in Existing', a # made + 1
      PROVE  expiresAt'[a] = Earlier(startedAt'[a] + Duration + pauseUsed'[a], EndTime)
  <2>1. a \in Existing
    BY <1>1, <1>4 DEF Existing
  <2>2. startedAt'[a] = startedAt[a] /\ expiresAt'[a] = expiresAt[a]
    BY <1>1, <1>4 DEF TypeOK
  <2> QED
    BY <1>1, <2>1, <2>2 DEF TimeBudget
<1> QED
  BY <1>3, <1>4 DEF TimeBudget

LEMMA TimerResume ==
    ASSUME TypeOK, TimeBudget, NEW a \in Existing, ResumeAttempt(a)
    PROVE  TimeBudget'
<1>1. a \in Attempts /\ made' = made /\ startedAt' = startedAt
  BY LimitAssumption DEF TypeOK, Existing, Attempts, ResumeAttempt, birthVars
<1>2. PauseLength(a) \in Nat
  BY <1>1 DEF TypeOK, PauseLength
<1>3. /\ expiresAt' = [expiresAt EXCEPT ![a] = Earlier(expiresAt[a] + PauseLength(a), EndTime)]
      /\ pauseUsed' = [pauseUsed EXCEPT ![a] = pauseUsed[a] + PauseLength(a)]
  BY DEF ResumeAttempt, Extended
<1>4. expiresAt[a] = Earlier(startedAt[a] + Duration + pauseUsed[a], EndTime)
  BY DEF TimeBudget
<1>5. startedAt[a] \in Int /\ pauseUsed[a] \in Nat /\ Duration \in Int /\ EndTime \in Int
  BY <1>1, ClockAssumption DEF TypeOK
<1>6. Earlier(expiresAt[a] + PauseLength(a), EndTime)
        = Earlier(startedAt[a] + Duration + pauseUsed[a] + PauseLength(a), EndTime)
  <2>1. startedAt[a] + Duration + pauseUsed[a] \in Int
    BY <1>5
  <2>2. ASSUME NEW x \in Int
        PROVE  Earlier(Earlier(x, EndTime) + PauseLength(a), EndTime)
                 = Earlier(x + PauseLength(a), EndTime)
    BY <1>2, <1>5, ClampedSum
  <2> QED
    BY <1>4, <2>1, <2>2
<1>7. expiresAt'[a] = Earlier(startedAt'[a] + Duration + pauseUsed'[a], EndTime)
  <2>1. startedAt[a] + Duration + pauseUsed[a] + PauseLength(a)
          = startedAt'[a] + Duration + (pauseUsed[a] + PauseLength(a))
    BY <1>1, <1>2, <1>5
  <2>2. /\ expiresAt'[a] = Earlier(expiresAt[a] + PauseLength(a), EndTime)
        /\ pauseUsed'[a] = pauseUsed[a] + PauseLength(a)
    BY <1>1, <1>3 DEF TypeOK
  <2> QED
    BY <1>6, <2>1, <2>2
<1>8. ASSUME NEW b \in Existing, b # a
      PROVE  expiresAt'[b] = Earlier(startedAt'[b] + Duration + pauseUsed'[b], EndTime)
  <2>1. b \in Attempts
    BY LimitAssumption DEF TypeOK, Existing, Attempts
  <2>2. expiresAt'[b] = expiresAt[b] /\ pauseUsed'[b] = pauseUsed[b]
    BY <1>3, <1>8, <2>1 DEF TypeOK
  <2> QED
    BY <1>1, <2>2 DEF TimeBudget
<1>9. Existing' = Existing
  BY <1>1 DEF Existing
<1> QED
  BY <1>7, <1>8, <1>9 DEF TimeBudget

\* However many pauses, the deadline is the duration plus the closed pauses,
\* clamped to the end of the assessment.
THEOREM Timer == Spec => []TimeBudget
<1>1. Init => TimeBudget
  BY DEF Init, TimeBudget, Existing
<1>2. TypeOK /\ VerdictInv /\ TimeBudget /\ [Next]_vars => TimeBudget'
  <2> SUFFICES ASSUME TypeOK, VerdictInv, TimeBudget, [Next]_vars PROVE TimeBudget'
    OBVIOUS
  <2>1. CASE StartAttempt \/ StartReattempt
    BY <2>1, TimerStart DEF VerdictInv
  <2>2. CASE \E a \in Existing : ResumeAttempt(a)
    BY <2>2, TimerResume
  <2>3. CASE UNCHANGED <<made, startedAt, expiresAt, pauseUsed>>
    BY <2>3 DEF TimeBudget, Existing
  <2> QED
    BY <2>1, <2>2, <2>3, TimerFrame
<1> QED
  BY <1>1, <1>2, TypeInit, TypeStep, VerdictInit, VerdictStep, PTL DEF Spec

-------------------------------------------------------------------------------
(* The authorization and the seat *)

\* Only three actions touch the number of attempts and the authorization.
LEMMA GrantFrame ==
    ASSUME [Next]_vars
    PROVE  \/ StartAttempt \/ StartReattempt
           \/ \E a \in Existing : AuthorizeReattempt(a)
           \/ UNCHANGED <<made, grant, original, reattempt>>
<1> USE DEF birthVars, grantVars
<1>1. ASSUME NEW a \in Existing, StudentStep(a)
      PROVE  UNCHANGED <<made, grant, original, reattempt>>
  BY <1>1 DEF StudentStep, Submit, ExplicitTerminate, Telemetry, PollTermination,
     StartProctoring, FocusLoss, SecurityCancel
<1>2. ASSUME NEW a \in Existing, ProctorStep(a)
      PROVE  AuthorizeReattempt(a) \/ UNCHANGED <<made, grant, original, reattempt>>
  BY <1>2 DEF ProctorStep, PauseAttempt, ResumeAttempt, CancelTermination,
     ProctorTerminate
<1>3. ASSUME NEW a \in Existing, WorkerStep(a)
      PROVE  UNCHANGED <<made, grant, original, reattempt>>
  BY <1>3 DEF WorkerStep, ConnectionLost, RecordStrike, DegradeSession
<1>4. ASSUME NEW t \in tasks, TerminationTask(t)
      PROVE  UNCHANGED <<made, grant, original, reattempt>>
  BY <1>4 DEF TerminationTask
<1>5. ASSUME NEW w \in Workers, WriteExpired(w) \/ \E a \in Existing : ReadLapsed(w, a)
      PROVE  UNCHANGED <<made, grant, original, reattempt>>
  BY <1>5 DEF WriteExpired, ReadLapsed
<1>6. ASSUME ArchiveAssessment \/ Tick \/ (\E on \in BOOLEAN : SetAssignment(on))
      PROVE  UNCHANGED <<made, grant, original, reattempt>>
  BY <1>6 DEF ArchiveAssessment, Tick, SetAssignment
<1>7. ASSUME NEW w \in Frames, FrameStep(w)
      PROVE  UNCHANGED <<made, grant, original, reattempt>>
  BY <1>7 DEF FrameStep, JudgeStrikes, Condemn, LoseFrame
<1> QED
  BY <1>1, <1>2, <1>3, <1>4, <1>5, <1>6, <1>7 DEF Next, vars

LEMMA GrantStep == TypeOK /\ GrantAccounting /\ [Next]_vars => GrantAccounting'
<1> SUFFICES ASSUME TypeOK, GrantAccounting, [Next]_vars PROVE GrantAccounting'
  OBVIOUS
<1>0. /\ made \in Nat /\ made \in 0..MaxAttempts /\ AttemptLimit \in Nat
      /\ original \in Int /\ reattempt \in Int
  BY LimitAssumption DEF TypeOK
<1>1. CASE StartAttempt
  <2>1. /\ grant = "NONE" /\ grant' = grant /\ made < AttemptLimit /\ made' = made + 1
        /\ original' = original /\ reattempt' = reattempt
    BY <1>1 DEF StartAttempt, MayStart, CreateAttempt, grantVars
  <2> QED
    BY <1>0, <2>1 DEF GrantAccounting
<1>2. CASE StartReattempt
  <2>1. /\ grant = "AUTHORIZED" /\ grant' = "CONSUMED" /\ made' = made + 1
        /\ original' = original /\ reattempt' = made + 1
    BY <1>2 DEF StartReattempt, MayReattempt, CreateAttempt
  <2>2. original \in 1..made /\ made <= AttemptLimit
    BY <1>0, <2>1 DEF GrantAccounting, Existing
  <2>3. original \in 1..(made' - 1)
    BY <1>0, <2>1, <2>2
  <2> QED
    BY <1>0, <2>1, <2>2, <2>3 DEF GrantAccounting
<1>3. CASE \E a \in Existing : AuthorizeReattempt(a)
  BY <1>0, <1>3 DEF AuthorizeReattempt, MayAuthorize, GrantAccounting, Existing, birthVars
<1>4. CASE UNCHANGED <<made, grant, original, reattempt>>
  BY <1>4 DEF GrantAccounting, Existing
<1> QED
  BY <1>1, <1>2, <1>3, <1>4, GrantFrame

LEMMA GrantInit == Init => GrantAccounting
BY LimitAssumption DEF Init, GrantAccounting

\* The authorization pays for exactly one attempt beyond the limit.
THEOREM Grant == Spec => []GrantAccounting
BY GrantInit, GrantStep, TypeInit, TypeStep, PTL DEF Spec

-------------------------------------------------------------------------------
(* Verdicts, step by step *)

\* One running attempt is concluded, and no attempt begins.
Concluding ==
    /\ made' = made /\ grant' = grant
    /\ \E a \in Existing, v \in Terminal :
          InProgress(a) /\ status' = [status EXCEPT ![a] = v]

\* The ways in which a step may touch a verdict or the seat.
LEMMA StatusFrame ==
    ASSUME TypeOK, [Next]_vars
    PROVE  \/ StartAttempt \/ StartReattempt
           \/ \E a \in Existing : AuthorizeReattempt(a)
           \/ \E w \in Workers : WriteExpired(w)
           \/ \E w \in Frames : Condemn(w)
           \/ \E a \in Existing, strong \in BOOLEAN, missed \in Misses :
                 SecurityCancel(a, strong, missed)
           \/ Concluding
           \/ UNCHANGED <<made, grant, status>>
<1> USE DEF birthVars, grantVars
<1>1. ASSUME NEW a \in Existing, StudentStep(a)
      PROVE  \/ \E strong \in BOOLEAN, missed \in Misses : SecurityCancel(a, strong, missed)
             \/ Concluding \/ UNCHANGED <<made, grant, status>>
  <2>1. CASE Submit(a)
    BY <2>1 DEF Submit, MaySubmit, Concluding, Terminal
  <2>2. CASE ExplicitTerminate(a)
    BY <2>2 DEF ExplicitTerminate, Concluding, Terminal
  <2>3. CASE Telemetry(a)
    BY <2>3 DEF Telemetry, Overdue, ExecuteExpiration, Concluding, Terminal
  <2>4. CASE PollTermination(a)
    BY <2>4 DEF PollTermination, Overdue, ExecuteExpiration, Concluding, Terminal
  <2>5. CASE StartProctoring(a)
    BY <2>5 DEF StartProctoring
  <2>6. CASE \E sent \in BrokerOutcomes : FocusLoss(a, sent)
    BY <2>6 DEF FocusLoss
  <2> QED
    BY <1>1, <2>1, <2>2, <2>3, <2>4, <2>5, <2>6 DEF StudentStep
<1>2. ASSUME NEW a \in Existing, ProctorStep(a)
      PROVE  AuthorizeReattempt(a) \/ Concluding \/ UNCHANGED <<made, grant, status>>
  <2>1. CASE CancelTermination(a)
    BY <2>1 DEF CancelTermination, Overdue, ExecuteExpiration, Concluding, Terminal
  <2>2. CASE ProctorTerminate(a)
    BY <2>2 DEF ProctorTerminate, Concluding, Terminal
  <2>3. CASE PauseAttempt(a) \/ ResumeAttempt(a)
    BY <2>3 DEF PauseAttempt, ResumeAttempt
  <2> QED
    BY <1>2, <2>1, <2>2, <2>3 DEF ProctorStep
<1>3. ASSUME NEW a \in Existing, WorkerStep(a)
      PROVE  Concluding \/ UNCHANGED <<made, grant, status>>
  BY <1>3 DEF WorkerStep, ConnectionLost, ExecuteExpiration, DegradeSession,
     RecordStrike, Concluding, Terminal
<1>4. ASSUME NEW t \in tasks, TerminationTask(t)
      PROVE  Concluding \/ UNCHANGED <<made, grant, status>>
  <2>1. CASE Overdue(t.attempt)
    <3>1. t.attempt \in Existing
      <4>1. t.attempt \in Attempts /\ ~(t.attempt > made)
        BY <2>1 DEF TypeOK, Overdue, InProgress
      <4> QED
        BY <4>1, LimitAssumption DEF TypeOK, Attempts, Existing
    <3> QED
      BY <1>4, <2>1, <3>1 DEF TerminationTask, Overdue, ExecuteExpiration, Concluding,
         Terminal
  <2>2. CASE ~Overdue(t.attempt)
    BY <1>4, <2>2 DEF TerminationTask
  <2> QED
    BY <2>1, <2>2
<1>5. ASSUME NEW w \in Workers, NEW a \in Existing, ReadLapsed(w, a)
      PROVE  UNCHANGED <<made, grant, status>>
  BY <1>5 DEF ReadLapsed
<1>6. ASSUME ArchiveAssessment \/ Tick \/ (\E on \in BOOLEAN : SetAssignment(on))
      PROVE  UNCHANGED <<made, grant, status>>
  BY <1>6 DEF ArchiveAssessment, Tick, SetAssignment
<1>7. ASSUME NEW w \in Frames, FrameStep(w)
      PROVE  Condemn(w) \/ UNCHANGED <<made, grant, status>>
  BY <1>7 DEF FrameStep, JudgeStrikes, LoseFrame
<1> QED
  BY <1>1, <1>2, <1>3, <1>4, <1>5, <1>6, <1>7 DEF Next, vars

\* The step FirstVerdictStands allows on one attempt.
VerdictChange(a) ==
    status[a] \in Terminal /\ status'[a] # status[a] =>
        \/ status'[a] = "EXPIRED" /\ \E w \in Workers : held[w] = a
        \/ disqualified'[a] /\ strikes'[a] = Threshold

LEMMA FirstVerdictStep ==
    TypeOK /\ VerdictInv /\ [Next]_vars => \A a \in Attempts : VerdictChange(a)
<1> SUFFICES ASSUME TypeOK, VerdictInv, [Next]_vars, NEW a \in Attempts PROVE VerdictChange(a)
  OBVIOUS
<1>1. CASE StartAttempt \/ StartReattempt
  <2>1. status[made + 1] = "NONE"
    BY <1>1, LimitAssumption DEF TypeOK, StartAttempt, StartReattempt, CreateAttempt, Attempts
  <2>2. a # made + 1 /\ ~InProgress(a) => status'[a] = status[a]
    BY <1>1 DEF TypeOK, StartAttempt, StartReattempt, CreateAttempt
  <2> QED
    BY <2>1, <2>2 DEF VerdictChange, Terminal, InProgress
<1>2. CASE \E w \in Workers : WriteExpired(w)
  BY <1>2 DEF TypeOK, WriteExpired, VerdictChange
<1>3. ASSUME NEW b \in Existing,
             \E strong \in BOOLEAN, missed \in Misses : SecurityCancel(b, strong, missed)
      PROVE  VerdictChange(a)
  <2>0. b \in Attempts
    BY LimitAssumption DEF TypeOK, Existing, Attempts
  <2>1. CASE a # b
    BY <1>3, <2>0, <2>1 DEF TypeOK, SecurityCancel, Disqualify, VerdictChange
  <2>2. CASE a = b
    <3>1. ASSUME NEW missed \in Misses, LastStrike(a, missed), CountStrike(a), Disqualify(a)
          PROVE  disqualified'[a] /\ strikes'[a] = Threshold
      <4>1. strikes[a] \in 0..Threshold /\ strikes'[a] = Earlier(strikes[a] + 1, Threshold)
        BY <3>1 DEF TypeOK, CountStrike
      <4>2. strikes'[a] = Threshold
        BY <3>1, <4>1, ThresholdAssumption DEF LastStrike, Earlier, Misses
      <4> QED
        BY <3>1, <4>2 DEF TypeOK, Disqualify
    <3>3. ASSUME NEW strong \in BOOLEAN, NEW missed \in Misses, SecurityCancel(a, strong, missed)
          PROVE  VerdictChange(a)
      <4>1. CASE strong /\ LastStrike(a, missed)
        BY <3>1, <3>3, <4>1 DEF SecurityCancel, VerdictChange
      <4>2. CASE ~(strong /\ LastStrike(a, missed))
        BY <3>3, <4>2 DEF SecurityCancel, VerdictChange, InProgress, Terminal
      <4> QED
        BY <4>1, <4>2
    <3> QED
      BY <1>3, <2>2, <3>3
  <2> QED
    BY <2>1, <2>2
<1>4. CASE Concluding
  BY <1>4 DEF TypeOK, Concluding, VerdictChange, InProgress, Terminal
<1>5. CASE UNCHANGED status
  BY <1>5 DEF VerdictChange
<1>6. CASE \E b \in Existing : AuthorizeReattempt(b)
  BY <1>6 DEF AuthorizeReattempt, VerdictChange
<1>7. ASSUME NEW w \in Frames, Condemn(w) PROVE VerdictChange(a)
  <2>1. frame[w] \in Attempts /\ strikes[frame[w]] = Threshold
    BY <1>7, FrameRow DEF VerdictInv, JudgedRight, Condemn
  <2> QED
    BY <1>7, <2>1 DEF TypeOK, Condemn, VerdictChange
<1> QED
  BY <1>1, <1>2, <1>3, <1>4, <1>5, <1>6, <1>7, StatusFrame

\* The first verdict stands but for a stale expiry and the last strike.
THEOREM FirstVerdict == Spec => FirstVerdictStands
<1>1. TypeOK /\ VerdictInv /\ [Next]_vars =>
        [\A a \in Attempts :
          status[a] \in Terminal /\ status'[a] # status[a] =>
              \/ status'[a] = "EXPIRED" /\ \E w \in Workers : held[w] = a
              \/ disqualified'[a] /\ strikes'[a] = Threshold]_vars
  BY FirstVerdictStep DEF VerdictChange
<1> QED
  BY <1>1, TypeInit, TypeStep, VerdictInit, VerdictStep, PTL DEF Spec, FirstVerdictStands

-------------------------------------------------------------------------------
(* The service keeps the promise of AttemptSeat *)

\* The running attempts, as the refinement maps them.
Running == {a \in Existing : status[a] = "IN_PROGRESS"}

\* What the refinement needs to know about a step: nobody but `who` begins or
\* ends, and then it is a conclusion or nothing.
LEMMA SeatConclude ==
    ASSUME NEW who \in Existing, made' = made, grant' = grant,
           status'[who] # "IN_PROGRESS",
           \A b \in Existing : b # who => status'[b] = status[b]
    PROVE  [Seat!SeatNext]_(Seat!seatVars)
<1>1. Existing' = Existing
  BY DEF Existing
<1>2. Running' = Running \ {who}
  BY <1>1 DEF Running
<1>3. CASE who \in Running
  <2>1. Seat!Conclude(who)
    BY <1>2, <1>3 DEF Seat!Conclude, Running
  <2> QED
    BY <1>3, <2>1 DEF Seat!SeatNext, Running
<1>4. CASE who \notin Running
  BY <1>2, <1>4 DEF Seat!seatVars, Running
<1> QED
  BY <1>3, <1>4

LEMMA SeatStart ==
    ASSUME TypeOK, StartAttempt
    PROVE  Seat!SeatNext
<1>1. /\ made \in Nat /\ made + 1 \in Attempts /\ made' = made + 1
      /\ grant = "NONE" /\ grant' = grant /\ made < AttemptLimit
  BY LimitAssumption DEF TypeOK, StartAttempt, MayStart, CreateAttempt, grantVars
<1>2. \A a \in Attempts : status'[a] = "IN_PROGRESS" <=> a = made + 1
  BY <1>1 DEF TypeOK, StartAttempt, CreateAttempt, InProgress
<1>3. Existing' \subseteq Attempts /\ made + 1 \in Existing'
  BY <1>1, LimitAssumption DEF Existing, Attempts
<1>4. Running' = {made + 1}
  BY <1>2, <1>3 DEF Running
<1> QED
  BY <1>1, <1>4 DEF Seat!SeatNext, Seat!BeginWithinLimit, Running

LEMMA SeatReattempt ==
    ASSUME TypeOK, StartReattempt
    PROVE  Seat!SeatNext
<1>1. /\ made \in Nat /\ made + 1 \in Attempts /\ made' = made + 1
      /\ grant = "AUTHORIZED" /\ grant' = "CONSUMED"
      /\ status' = [status EXCEPT ![made + 1] = "IN_PROGRESS"]
  BY LimitAssumption DEF TypeOK, StartReattempt, MayReattempt, CreateAttempt
<1>2. Existing' = Existing \cup {made + 1} /\ Existing' \subseteq Attempts
  BY <1>1, LimitAssumption DEF Existing, Attempts
<1>3. Running' = Running \cup {made + 1}
  BY <1>1, <1>2 DEF TypeOK, Running
<1> QED
  BY <1>1, <1>3 DEF Seat!SeatNext, Seat!BeginGranted, Running

LEMMA SeatGrant ==
    ASSUME TypeOK, NEW a \in Existing, AuthorizeReattempt(a)
    PROVE  Seat!SeatNext
<1>1. /\ made' = made /\ status' = status /\ status[a] = "CANCELLED"
      /\ grant = "NONE" /\ grant' = "AUTHORIZED"
  BY DEF AuthorizeReattempt, MayAuthorize, birthVars
<1>2. Running' = Running /\ Running # 1..made
  BY <1>1 DEF Running, Existing
<1> QED
  BY <1>1, <1>2 DEF Seat!SeatNext, Seat!Grant, Running

LEMMA SeatStep == TypeOK /\ VerdictInv /\ [Next]_vars => [Seat!SeatNext]_(Seat!seatVars)
<1> SUFFICES ASSUME TypeOK, VerdictInv, [Next]_vars
             PROVE  [Seat!SeatNext]_(Seat!seatVars)
  OBVIOUS
<1>0. Existing \subseteq Attempts
  BY LimitAssumption DEF TypeOK, Existing, Attempts
<1>1. CASE StartAttempt \/ StartReattempt
  BY <1>1, SeatStart, SeatReattempt
<1>2. CASE \E a \in Existing : AuthorizeReattempt(a)
  BY <1>2, SeatGrant
<1>3. ASSUME NEW w \in Workers, WriteExpired(w) PROVE [Seat!SeatNext]_(Seat!seatVars)
  <2>1. held[w] \in 0..made /\ held[w] # 0 /\ made \in Nat
    BY <1>3, LimitAssumption DEF TypeOK, WriteExpired, Idle
  <2>2. held[w] \in Existing
    BY <2>1 DEF Existing
  <2> QED
    BY <1>0, <1>3, <2>2, SeatConclude DEF TypeOK, WriteExpired, birthVars, grantVars
<1>4. ASSUME NEW w \in Frames, Condemn(w) PROVE [Seat!SeatNext]_(Seat!seatVars)
  <2>1. frame[w] \in Existing
    BY <1>4, FrameRow DEF VerdictInv, JudgedRight, Condemn
  <2> QED
    BY <1>0, <1>4, <2>1, SeatConclude DEF TypeOK, Condemn, birthVars, grantVars
<1>5. ASSUME NEW a \in Existing, NEW strong \in BOOLEAN, NEW missed \in Misses,
             SecurityCancel(a, strong, missed)
      PROVE  [Seat!SeatNext]_(Seat!seatVars)
  BY <1>0, <1>5, SeatConclude
     DEF TypeOK, SecurityCancel, Disqualify, InProgress, birthVars, grantVars
<1>6. CASE Concluding
  <2>1. PICK a \in Existing, v \in Terminal :
            InProgress(a) /\ status' = [status EXCEPT ![a] = v]
    BY <1>6 DEF Concluding
  <2> QED
    BY <1>0, <1>6, <2>1, SeatConclude DEF TypeOK, Concluding, Terminal
<1>7. CASE UNCHANGED <<made, grant, status>>
  BY <1>7 DEF Seat!seatVars, Existing
<1> QED
  BY <1>1, <1>2, <1>3, <1>4, <1>5, <1>6, <1>7, StatusFrame

\* Every behaviour of the attempts is one that AttemptSeat allows.
THEOREM SeatKept == Spec => SeatPromise
<1>1. Init => Seat!SeatInit
  BY DEF Init, Seat!SeatInit, Existing
<1> QED
  BY <1>1, SeatStep, TypeInit, TypeStep, VerdictInit, VerdictStep, PTL
     DEF Spec, SeatPromise, Seat!SeatSpec

-------------------------------------------------------------------------------
(* The countdown *)

\* The queue and the deadlines stay, and no running attempt becomes pending.
NoneArmed ==
    /\ tasks' = tasks /\ deadline' = deadline /\ unsent' = unsent
    /\ \A b \in Attempts :
          status'[b] = "IN_PROGRESS" /\ pending'[b] => InProgress(b) /\ pending[b]

\* Only a loss of focus and the queue's own messages touch the countdown.
LEMMA CountdownFrame ==
    ASSUME TypeOK, VerdictInv, [Next]_vars
    PROVE  \/ \E a \in Existing, sent \in BrokerOutcomes : FocusLoss(a, sent)
           \/ \E t \in tasks : TerminationTask(t)
           \/ NoneArmed
<1> USE DEF termVars, queueVars, strikeVars
<1>0. Existing \subseteq Attempts
  BY LimitAssumption DEF TypeOK, Existing, Attempts
<1>1. CASE StartAttempt \/ StartReattempt
  <2>1. status[made + 1] = "NONE" /\ made + 1 \in Attempts
    BY <1>1, LimitAssumption DEF TypeOK, StartAttempt, StartReattempt, CreateAttempt, Attempts
  <2>2. ~pending[made + 1]
    BY <2>1 DEF VerdictInv, Fresh
  <2>3. \A b \in Attempts : b # made + 1 /\ status'[b] = "IN_PROGRESS" => InProgress(b)
    BY <1>1 DEF TypeOK, StartAttempt, StartReattempt, CreateAttempt, InProgress
  <2>4. UNCHANGED <<tasks, deadline, unsent, pending>>
    BY <1>1 DEF StartAttempt, StartReattempt
  <2> QED
    BY <2>2, <2>3, <2>4 DEF NoneArmed
<1>2. ASSUME NEW a \in Existing, StudentStep(a)
      PROVE  NoneArmed \/ \E sent \in BrokerOutcomes : FocusLoss(a, sent)
  <2> USE <1>0 DEF TypeOK, NoneArmed, InProgress
  <2>1. Submit(a) => NoneArmed
    BY DEF Submit
  <2>2. ExplicitTerminate(a) => NoneArmed
    BY DEF ExplicitTerminate
  <2>3. Telemetry(a) => NoneArmed
    BY DEF Telemetry, ExecuteExpiration
  <2>4. PollTermination(a) => NoneArmed
    BY DEF PollTermination, ExecuteExpiration
  <2>5. StartProctoring(a) => NoneArmed
    BY DEF StartProctoring
  <2>6. ASSUME NEW strong \in BOOLEAN, NEW missed \in Misses
        PROVE  SecurityCancel(a, strong, missed) => NoneArmed
    <3>1. SecurityCancel(a, strong, missed) => status'[a] # "IN_PROGRESS"
      BY DEF SecurityCancel, Disqualify
    <3>2. SecurityCancel(a, strong, missed) =>
              \A b \in Attempts : b # a => status'[b] = status[b] /\ pending'[b] = pending[b]
      BY DEF SecurityCancel, Disqualify
    <3> QED
      BY <3>1, <3>2 DEF SecurityCancel
  <2> QED
    BY <1>2, <2>1, <2>2, <2>3, <2>4, <2>5, <2>6 DEF StudentStep
<1>3. ASSUME NEW a \in Existing, ProctorStep(a) PROVE NoneArmed
  <2> USE <1>0 DEF TypeOK, NoneArmed, InProgress
  <2>1. CancelTermination(a) => NoneArmed
    BY DEF CancelTermination, ExecuteExpiration
  <2>2. ProctorTerminate(a) => NoneArmed
    BY DEF ProctorTerminate
  <2>3. PauseAttempt(a) \/ ResumeAttempt(a) \/ AuthorizeReattempt(a) => NoneArmed
    BY DEF PauseAttempt, ResumeAttempt, AuthorizeReattempt
  <2> QED
    BY <1>3, <2>1, <2>2, <2>3 DEF ProctorStep
<1>4. ASSUME NEW a \in Existing, WorkerStep(a) PROVE NoneArmed
  BY <1>0, <1>4 DEF TypeOK, WorkerStep, ConnectionLost, ExecuteExpiration, RecordStrike,
     DegradeSession, NoneArmed, InProgress
<1>5. ASSUME NEW w \in Workers, WriteExpired(w) \/ \E a \in Existing : ReadLapsed(w, a)
      PROVE  NoneArmed
  BY <1>5 DEF TypeOK, WriteExpired, ReadLapsed, NoneArmed, InProgress
<1>6. ASSUME \/ ArchiveAssessment \/ Tick \/ UNCHANGED vars
             \/ \E on \in BOOLEAN : SetAssignment(on)
      PROVE  NoneArmed
  BY <1>6 DEF ArchiveAssessment, Tick, SetAssignment, vars, NoneArmed, InProgress
<1>7. ASSUME NEW w \in Frames, FrameStep(w) PROVE NoneArmed
  BY <1>7 DEF TypeOK, FrameStep, JudgeStrikes, Condemn, LoseFrame, NoneArmed, InProgress
<1> QED
  BY <1>1, <1>2, <1>3, <1>4, <1>5, <1>6, <1>7 DEF Next

LEMMA CountdownStep ==
    ASSUME TypeOK, VerdictInv, CountdownArmed, [Next]_vars
    PROVE  CountdownArmed'
<1>0. Existing \subseteq Attempts
  BY LimitAssumption DEF TypeOK, Existing, Attempts
<1>1. ASSUME NEW a \in Existing, NEW sent \in BrokerOutcomes, FocusLoss(a, sent)
      PROVE  CountdownArmed'
  <2>1. /\ a \in Attempts /\ status' = status
        /\ pending' = [pending EXCEPT ![a] = TRUE]
        /\ deadline' = [deadline EXCEPT ![a] = now + TermDelay]
        /\ tasks \subseteq tasks' /\ unsent \ {a} \subseteq unsent'
        /\ [attempt |-> a, eta |-> now + TermDelay] \in tasks' \/ a \in unsent'
    BY <1>0, <1>1 DEF FocusLoss, TriggerTermination
  <2>2. deadline'[a] = now + TermDelay
    BY <2>1 DEF TypeOK
  <2>3. ASSUME NEW b \in Attempts, b # a
        PROVE  deadline'[b] = deadline[b] /\ pending'[b] = pending[b]
    BY <2>1, <2>3 DEF TypeOK
  <2> QED
    BY <2>1, <2>2, <2>3 DEF CountdownArmed, InProgress
<1>2. ASSUME NEW t \in tasks, TerminationTask(t) PROVE CountdownArmed'
  <2>1. /\ tasks' = tasks \ {t} /\ deadline' = deadline /\ unsent' = unsent
        /\ t.eta <= now
        /\ t.attempt \in Attempts
    BY <1>2 DEF TerminationTask, TypeOK
  <2>2. CASE Overdue(t.attempt)
    <3>1. /\ status' = [status EXCEPT ![t.attempt] = "CANCELLED"]
          /\ pending' = [pending EXCEPT ![t.attempt] = FALSE]
      BY <1>2, <2>2 DEF TerminationTask, ExecuteExpiration
    <3>2. ASSUME NEW b \in Attempts, status'[b] = "IN_PROGRESS", pending'[b]
          PROVE  b # t.attempt /\ InProgress(b) /\ pending[b]
      BY <2>1, <3>1, <3>2 DEF TypeOK, InProgress
    <3> QED
      BY <2>1, <3>2 DEF CountdownArmed, InProgress
  <2>3. CASE ~Overdue(t.attempt)
    <3>1. status' = status /\ pending' = pending
      BY <1>2, <2>3 DEF TerminationTask
    <3>2. ASSUME NEW b \in Attempts, InProgress(b), pending[b]
          PROVE  t # [attempt |-> b, eta |-> deadline[b]]
      BY <2>1, <2>3, <3>2 DEF Overdue
    <3> QED
      BY <2>1, <3>1, <3>2 DEF CountdownArmed, InProgress
  <2> QED
    BY <2>2, <2>3
<1>3. CASE NoneArmed
  BY <1>3 DEF NoneArmed, CountdownArmed, InProgress
<1> QED
  BY <1>1, <1>2, <1>3, CountdownFrame

\* Whatever the broker refuses, a countdown is without a message only if its own
\* was refused.
THEOREM Countdown == Spec => []CountdownArmed
<1>1. Init => CountdownArmed
  BY DEF Init, CountdownArmed, InProgress
<1>2. TypeOK /\ VerdictInv /\ CountdownArmed /\ [Next]_vars => CountdownArmed'
  BY CountdownStep
<1> QED
  BY <1>1, <1>2, TypeInit, TypeStep, VerdictInit, VerdictStep, PTL DEF Spec

\* What CountdownHonoured asks of a step.
HonouredAt(a) ==
    InProgress(a) /\ pending[a] /\ now < deadline[a] =>
        /\ pending'[a] => deadline'[a] = deadline[a]
        /\ tasks' # tasks => status'[a] = status[a]

LEMMA HonouredStep ==
    ASSUME TypeOK, VerdictInv, [Next]_vars, NEW a \in Attempts
    PROVE  HonouredAt(a)
<1>1. ASSUME NEW b \in Existing, NEW sent \in BrokerOutcomes, FocusLoss(b, sent)
      PROVE  HonouredAt(a)
  BY <1>1 DEF TypeOK, FocusLoss, TriggerTermination, HonouredAt
<1>2. ASSUME NEW t \in tasks, TerminationTask(t) PROVE HonouredAt(a)
  <2>1. deadline' = deadline
    BY <1>2 DEF TerminationTask
  <2>2. CASE Overdue(t.attempt)
    <3>1. status' = [status EXCEPT ![t.attempt] = "CANCELLED"]
      BY <1>2, <2>2 DEF TerminationTask, ExecuteExpiration
    <3>2. now < deadline[a] => a # t.attempt
      BY <2>2 DEF TypeOK, Overdue
    <3> QED
      BY <2>1, <3>1, <3>2 DEF TypeOK, HonouredAt
  <2>3. CASE ~Overdue(t.attempt)
    BY <1>2, <2>1, <2>3 DEF TerminationTask, HonouredAt
  <2> QED
    BY <2>2, <2>3
<1>3. CASE NoneArmed
  BY <1>3 DEF NoneArmed, HonouredAt
<1> QED
  BY <1>1, <1>2, <1>3, CountdownFrame

\* A running countdown is never moved or cut short by an older message.
THEOREM CountdownIsHonoured == Spec => CountdownHonoured
<1>1. TypeOK /\ VerdictInv /\ [Next]_vars =>
        [\A a \in Attempts :
          InProgress(a) /\ pending[a] /\ now < deadline[a] =>
              /\ pending'[a] => deadline'[a] = deadline[a]
              /\ tasks' # tasks => status'[a] = status[a]]_vars
  BY HonouredStep DEF HonouredAt
<1> QED
  BY <1>1, TypeInit, TypeStep, VerdictInit, VerdictStep, PTL
     DEF Spec, CountdownHonoured

\* What OverdueStands asks of a step.
OverdueAt(a) ==
    Overdue(a) /\ (status'[a] # status[a] \/ ~pending'[a]) =>
        status'[a] \in {"CANCELLED", "EXPIRED"}

LEMMA OverdueStep ==
    ASSUME TypeOK, VerdictInv, [Next]_vars, NEW a \in Attempts
    PROVE  OverdueAt(a)
<1> USE DEF OverdueAt, Overdue, InProgress, TypeOK, termVars
<1>1. CASE StartAttempt \/ StartReattempt
  <2>1. status[made + 1] = "NONE"
    BY <1>1, LimitAssumption DEF StartAttempt, StartReattempt, CreateAttempt, Attempts
  <2> QED
    BY <1>1, <2>1 DEF StartAttempt, StartReattempt, CreateAttempt
<1>2. ASSUME NEW b \in Existing, StudentStep(b) PROVE OverdueAt(a)
  <2>1. CASE Submit(b)
    BY <2>1 DEF Submit, MaySubmit
  <2>2. CASE ExplicitTerminate(b)
    BY <2>2 DEF ExplicitTerminate
  <2>3. CASE Telemetry(b) \/ PollTermination(b)
    BY <2>3 DEF Telemetry, PollTermination, ExecuteExpiration
  <2>4. CASE StartProctoring(b)
    BY <2>4 DEF StartProctoring
  <2>5. CASE \E sent \in BrokerOutcomes : FocusLoss(b, sent)
    BY <2>5 DEF FocusLoss, TriggerTermination
  <2>6. CASE \E strong \in BOOLEAN, missed \in Misses : SecurityCancel(b, strong, missed)
    BY <2>6 DEF SecurityCancel, Disqualify
  <2> QED
    BY <1>2, <2>1, <2>2, <2>3, <2>4, <2>5, <2>6 DEF StudentStep
<1>3. ASSUME NEW b \in Existing, ProctorStep(b) PROVE OverdueAt(a)
  <2>1. CASE CancelTermination(b)
    BY <2>1 DEF CancelTermination, ExecuteExpiration
  <2>2. CASE ProctorTerminate(b)
    BY <2>2 DEF ProctorTerminate
  <2>3. CASE PauseAttempt(b) \/ ResumeAttempt(b) \/ AuthorizeReattempt(b)
    BY <2>3 DEF PauseAttempt, ResumeAttempt, AuthorizeReattempt
  <2> QED
    BY <1>3, <2>1, <2>2, <2>3 DEF ProctorStep
<1>4. ASSUME NEW b \in Existing, WorkerStep(b) PROVE OverdueAt(a)
  BY <1>4 DEF WorkerStep, ConnectionLost, ExecuteExpiration, DegradeSession, RecordStrike
<1>5. ASSUME NEW w \in Frames, FrameStep(w) PROVE OverdueAt(a)
  BY <1>5 DEF FrameStep, JudgeStrikes, Condemn, LoseFrame
<1>6. ASSUME NEW t \in tasks, TerminationTask(t) PROVE OverdueAt(a)
  BY <1>6 DEF TerminationTask, ExecuteExpiration
<1>7. ASSUME NEW w \in Workers, WriteExpired(w) \/ \E b \in Existing : ReadLapsed(w, b)
      PROVE  OverdueAt(a)
  BY <1>7 DEF WriteExpired, ReadLapsed
<1>8. ASSUME \/ ArchiveAssessment \/ Tick \/ UNCHANGED vars
             \/ \E on \in BOOLEAN : SetAssignment(on)
      PROVE  OverdueAt(a)
  BY <1>8 DEF ArchiveAssessment, Tick, SetAssignment, vars
<1> QED
  BY <1>1, <1>2, <1>3, <1>4, <1>5, <1>6, <1>7, <1>8 DEF Next

\* A countdown that ran out is not called off, and no submission comes before it.
THEOREM OverdueIsFinal == Spec => OverdueStands
<1>1. TypeOK /\ VerdictInv /\ [Next]_vars =>
        [\A a \in Attempts :
          Overdue(a) /\ (status'[a] # status[a] \/ ~pending'[a]) =>
              status'[a] \in {"CANCELLED", "EXPIRED"}]_vars
  BY OverdueStep DEF OverdueAt
<1> QED
  BY <1>1, TypeInit, TypeStep, VerdictInit, VerdictStep, PTL
     DEF Spec, OverdueStands

================================================================================
