------------------------- MODULE CodeEvaluation_proofs -------------------------
(* Theorems about CodeEvaluation, for any number of clients and workers. *)
EXTENDS CodeEvaluation, FiniteSetTheorems, TLAPS

USE KeyAssumption, NumberAssumption, BrokerAssumption

(***************************************************************************)
(* Type correctness of the submissions, the requests and the messages.     *)
(***************************************************************************)
HeldType == [job : 1..made, retry : 0..Retries]

LEMMA HoldersJob ==
    ASSUME TypeOK, NEW w \in Workers, worker[w] # NoMessage
    PROVE  worker[w] \in HeldType /\ worker[w].job \in 1..made
           /\ worker[w].job \in Jobs
BY DEF TypeOK, HeldType, Jobs

LEMMA CreateTyped ==
    ASSUME TypeOK, NEW c \in Clients, NEW sent \in BrokerOutcomes, Create(c, sent)
    PROVE  TypeOK'
<1>1. made' = made + 1 /\ made' \in 1..MaxJobs /\ made \in 0..MaxJobs
  BY DEF Create, TypeOK, Jobs
<1>2. HeldType \subseteq [job : 1..made', retry : 0..Retries]
  BY <1>1 DEF HeldType
<1>3. messages' \subseteq [job : 1..made', retry : 0..Retries]
  <2>1. [job |-> made + 1, retry |-> 0] \in [job : 1..made', retry : 0..Retries]
    BY <1>1
  <2> QED BY <1>2, <2>1 DEF Create, TypeOK, HeldType
<1>4. worker' \in [Workers -> [job : 1..made', retry : 0..Retries] \cup {NoMessage}]
  BY <1>2 DEF Create, TypeOK, HeldType
<1>5. \A j \in Jobs : status'[j] = "NONE" <=> j > made'
  BY <1>1 DEF Create, TypeOK, Jobs
<1>6. /\ status' \in [Jobs -> {"NONE"} \cup Waiting \cup Ended]
      /\ key' \in [Jobs -> Keys \cup {NoKey}]
      /\ asking' \in [Clients -> Keys \cup {NoKey}]
  BY DEF Create, TypeOK, Waiting
<1> QED BY <1>1, <1>3, <1>4, <1>5, <1>6 DEF faultVars, Create, TypeOK, resultVars

LEMMA BeginTyped ==
    ASSUME TypeOK, NEW w \in Workers, NEW m \in messages, Begin(w, m)
    PROVE  TypeOK'
<1>1. m \in HeldType /\ m.job \in 1..made /\ m.job \in Jobs /\ m.job <= made
  BY DEF TypeOK, HeldType, Jobs
<1>2. /\ status' \in [Jobs -> {"NONE"} \cup Waiting \cup Ended]
      /\ \A j \in Jobs : status'[j] = "NONE" <=> j > made
  <2>1. CASE status' = [status EXCEPT ![m.job] = "PROCESSING"]
    BY <1>1, <2>1 DEF TypeOK, Waiting, Jobs
  <2>2. CASE status' = status
    BY <2>2 DEF TypeOK
  <2> QED BY <2>1, <2>2 DEF Begin
<1>3. worker' \in [Workers -> HeldType \cup {NoMessage}] /\ messages' \subseteq HeldType
  BY <1>1 DEF Begin, TypeOK, HeldType
<1> QED BY <1>2, <1>3 DEF faultVars, Begin, TypeOK, HeldType, requestVars, resultVars

(* What the sandbox makes of a submission is an end and a number of points. *)
LEMMA Judgement ==
    ASSUME NEW j, NEW run \in Runs(j)
    PROVE  OutcomeOf(run) \in Ended /\ ScoreOf(run) \in Nat
<1>1. PICK n \in 1..CasesOf(j) : run \in [1..n -> CaseOutcomes]
  BY DEF Runs
<1>2. CasesOf(j) \in 1..CaseCount
  BY QuestionAssumption DEF CasesOf
<1>3. {i \in DOMAIN run : run[i] = "PASSED"} \in SUBSET (1..CaseCount)
  BY <1>1, <1>2, QuestionAssumption
<1>4. ScoreOf(run) \in Nat
  BY <1>3, QuestionAssumption DEF ScoreOf
<1> QED BY <1>4 DEF OutcomeOf, Ended

LEMMA WorkerSteps ==
    ASSUME NEW w \in Workers, WorkerStep(w)
    PROVE  \/ \E m \in messages : Begin(w, m)
           \/ \E outcome \in Ended, points \in Nat : Finish(w, outcome, points)
<1>1. ASSUME EvaluateCode(w)
      PROVE  \E outcome \in Ended, points \in Nat : Finish(w, outcome, points)
  BY <1>1, Judgement DEF EvaluateCode
<1>2. ASSUME EvaluateSql(w)
      PROVE  \E outcome \in Ended, points \in Nat : Finish(w, outcome, points)
  <2>1. PICK outcome \in Ended, points \in {0, Points} : Finish(w, outcome, points)
    BY <1>2 DEF EvaluateSql, Ended
  <2> QED BY <2>1, QuestionAssumption
<1> QED BY <1>1, <1>2 DEF WorkerStep

LEMMA FinishTyped ==
    ASSUME TypeOK, NEW w \in Workers, NEW outcome \in Ended, NEW points \in Nat,
           Finish(w, outcome, points)
    PROVE  TypeOK'
<1> DEFINE j == worker[w].job
<1>1. j \in 1..made /\ j \in Jobs /\ j <= made
  BY HoldersJob DEF Finish, Jobs, TypeOK
<1>2. /\ status' \in [Jobs -> {"NONE"} \cup Waiting \cup Ended]
      /\ \A i \in Jobs : status'[i] = "NONE" <=> i > made
  BY <1>1 DEF Finish, TypeOK, Ended, Jobs
<1>3. score' \in [Jobs -> Nat] /\ answerOf' \in 0..made
  BY <1>1 DEF Finish, TypeOK
<1>4. worker' \in [Workers -> HeldType \cup {NoMessage}]
  BY DEF Finish, TypeOK, HeldType
<1> QED BY <1>2, <1>3, <1>4 DEF faultVars, Finish, TypeOK, HeldType, requestVars, resultVars

LEMMA FaultTyped ==
    ASSUME TypeOK, NEW w \in Workers, Raise(w) \/ LoseWorker(w) \/ Redeliver(w)
    PROVE  TypeOK'
<1>1. worker[w] \in HeldType
  BY HoldersJob DEF Raise, LoseWorker, Redeliver
<1>2. RetryOf(worker[w]) \subseteq HeldType
  BY <1>1 DEF RetryOf, HeldType
<1>3. messages' \subseteq HeldType
  BY <1>1, <1>2 DEF Raise, LoseWorker, Redeliver, TypeOK, HeldType
<1>4. worker' \in [Workers -> HeldType \cup {NoMessage}]
  BY DEF Raise, LoseWorker, Redeliver, TypeOK, HeldType
<1>5. faults' \in Nat
  BY DEF Raise, LoseWorker, Redeliver, Fault, TypeOK
<1>6. duplicated' \in BOOLEAN
  BY DEF Raise, LoseWorker, Redeliver, TypeOK
<1>7. UNCHANGED <<requestVars, jobVars, resultVars>>
  BY DEF Raise, LoseWorker, Redeliver
<1> QED BY <1>3, <1>4, <1>5, <1>6, <1>7 DEF TypeOK, HeldType, requestVars, jobVars, resultVars

THEOREM Typing == Spec => []TypeOK
<1>1. Init => TypeOK
  <2> SUFFICES ASSUME Init PROVE TypeOK
    OBVIOUS
  <2>1. made = 0 /\ messages = {} /\ \A j \in Jobs : status[j] = "NONE" /\ j > 0
    BY DEF Init, Jobs
  <2>2. /\ asking \in [Clients -> Keys \cup {NoKey}]
        /\ key \in [Jobs -> Keys \cup {NoKey}]
        /\ status \in [Jobs -> {"NONE"} \cup Waiting \cup Ended]
        /\ score \in [Jobs -> Nat]
    BY DEF Init
  <2>3. worker \in [Workers -> [job : 1..made, retry : 0..Retries] \cup {NoMessage}]
    BY DEF Init
  <2>4. answerOf \in 0..made /\ credited \in 0..made /\ made \in 0..MaxJobs
    BY <2>1 DEF Init, NoJob
  <2>5. \A j \in Jobs : status[j] = "NONE" <=> j > made
    BY <2>1
  <2> QED BY <2>1, <2>2, <2>3, <2>4, <2>5 DEF Init, TypeOK
<1>2. TypeOK /\ [Next]_vars => TypeOK'
  <2> SUFFICES ASSUME TypeOK, [Next]_vars PROVE TypeOK'
    OBVIOUS
  <2>1. ASSUME NEW c \in Clients, NEW k \in Keys, Ask(c, k) PROVE TypeOK'
    BY <2>1 DEF faultVars, Ask, TypeOK, jobVars, taskVars, resultVars
  <2>2. ASSUME NEW c \in Clients, NEW sent \in BrokerOutcomes, Create(c, sent)
        PROVE  TypeOK'
    BY <2>2, CreateTyped
  <2>3. ASSUME NEW w \in Workers, WorkerStep(w) PROVE TypeOK'
    BY <2>3, WorkerSteps, BeginTyped, FinishTyped
  <2>4. ASSUME NEW w \in Workers, Raise(w) \/ LoseWorker(w) \/ Redeliver(w)
        PROVE  TypeOK'
    BY <2>4, FaultTyped
  <2>5. CASE Close
    BY <2>5 DEF faultVars, Close, TypeOK, jobVars, taskVars, resultVars
  <2>6. CASE Finalize
    <3>1. credited' \in 0..made /\ creditedScore' \in Nat
      BY <2>6 DEF Finalize, Submits, Existing, TypeOK, Jobs
    <3> QED BY <2>6, <3>1 DEF faultVars, Finalize, TypeOK, requestVars, jobVars, taskVars
  <2>7. CASE UNCHANGED vars
    BY <2>7 DEF faultVars, TypeOK, vars, requestVars, jobVars, taskVars, resultVars
  <2> QED BY <2>1, <2>2, <2>3, <2>4, <2>5, <2>6, <2>7 DEF Next
<1> QED BY <1>1, <1>2, PTL DEF Spec

-------------------------------------------------------------------------------
(***************************************************************************)
(* Whatever is delivered twice, a submission that ended is not reopened.   *)
(***************************************************************************)
THEOREM StaysEnded == Spec => EndedStays
<1> DEFINE Stays == \A j \in Jobs : status[j] \in Ended => status'[j] \in Ended
<1>1. TypeOK /\ [Next]_vars => Stays
  <2> SUFFICES ASSUME TypeOK, [Next]_vars, NEW j \in Jobs, status[j] \in Ended
               PROVE  status'[j] \in Ended
    OBVIOUS
  <2>1. ASSUME NEW c \in Clients, NEW sent \in BrokerOutcomes, Create(c, sent)
        PROVE  status'[j] \in Ended
    <3>1. status[made + 1] = "NONE"
      BY <2>1 DEF Create, TypeOK, Jobs
    <3>2. j # made + 1
      BY <3>1 DEF Ended
    <3> QED BY <2>1, <3>2 DEF Create, TypeOK
  <2>2. ASSUME NEW w \in Workers, NEW m \in messages, Begin(w, m)
        PROVE  status'[j] \in Ended
    <3>1. CASE MayEvaluate(m.job)
      <4>1. m.job # j
        BY <3>1 DEF MayEvaluate, Waiting, Ended
      <4> QED BY <2>2, <4>1 DEF Begin, TypeOK
    <3>2. CASE ~MayEvaluate(m.job)
      BY <2>2, <3>2 DEF Begin
    <3> QED BY <3>1, <3>2
  <2>3. ASSUME NEW w \in Workers, NEW outcome \in Ended, NEW points \in Nat,
               Finish(w, outcome, points)
        PROVE  status'[j] \in Ended
    BY <2>3 DEF Finish, TypeOK
  <2>4. CASE UNCHANGED status
    BY <2>4
  <2> QED BY <2>1, <2>2, <2>3, <2>4, WorkerSteps
          DEF Next, Ask, Raise, LoseWorker, Redeliver, Close, Finalize,
              vars, jobVars
<1> QED BY <1>1, Typing, PTL DEF Spec, EndedStays

-------------------------------------------------------------------------------
(***************************************************************************)
(* A message that is not delivered while it is worked on has one holder.   *)
(***************************************************************************)
OneMessage == \A m, n \in messages : m.job = n.job => m = n
OneWorker ==
    \A v, w \in Workers :
        worker[v] # NoMessage /\ worker[v].job = worker[w].job => v = w
OnePlace == \A m \in messages, w \in Workers : worker[w].job # m.job
HolderWaits ==
    /\ \A m \in messages : status[m.job] \in Waiting
    /\ \A w \in Workers : worker[w] # NoMessage => status[worker[w].job] = "PROCESSING"

OneHolder == OneMessage /\ OneWorker /\ OnePlace /\ HolderWaits

LEMMA CreateHolder ==
    ASSUME TypeOK, OneHolder, NEW c \in Clients, NEW sent \in BrokerOutcomes,
           Create(c, sent)
    PROVE  OneHolder'
<1>1. \A m \in messages : m.job \in 1..made /\ m.job \in Jobs
  BY DEF TypeOK, Jobs
<1>2. \A w \in Workers : worker[w].job \in 0..made
  BY DEF TypeOK, NoMessage, NoJob
<1>3. \A w \in Workers : worker[w] # NoMessage => worker[w].job \in 1..made /\ worker[w].job \in Jobs
  BY HoldersJob
<1> DEFINE new == [job |-> made + 1, retry |-> 0]
<1>4. messages' \subseteq messages \cup {new} /\ worker' = worker
  BY DEF Create
<1>5. /\ status'[made + 1] = "QUEUED" /\ made \in Nat
      /\ \A j \in 1..made : j \in Jobs => status'[j] = status[j]
  BY DEF Create, TypeOK, Jobs
<1>6. OneMessage'
  BY <1>1, <1>4, <1>5 DEF OneMessage, OneHolder
<1>7. OneWorker'
  BY <1>4 DEF OneWorker, OneHolder
<1>8. OnePlace'
  BY <1>2, <1>4, <1>5 DEF OnePlace, OneHolder
<1>9. HolderWaits'
  BY <1>1, <1>3, <1>4, <1>5 DEF HolderWaits, OneHolder, Waiting
<1> QED BY <1>6, <1>7, <1>8, <1>9 DEF OneHolder

LEMMA BeginHolder ==
    ASSUME TypeOK, OneHolder, NEW w \in Workers, NEW m \in messages, Begin(w, m)
    PROVE  OneHolder'
<1>1. m.job \in Jobs /\ m.job # NoJob
  BY DEF TypeOK, Jobs, NoJob
<1>2. MayEvaluate(m.job)
  BY DEF MayEvaluate, OneHolder, HolderWaits
<1>3. /\ status' = [status EXCEPT ![m.job] = "PROCESSING"]
      /\ messages' = messages \ {m}
      /\ worker'[w] = m /\ \A v \in Workers : v # w => worker'[v] = worker[v]
  BY <1>2 DEF Begin, TypeOK
<1>4. \A n \in messages' : n \in messages /\ n.job # m.job /\ n.job \in Jobs
  BY <1>3 DEF OneHolder, OneMessage, TypeOK, Jobs
<1>5. OneMessage'
  BY <1>3 DEF OneMessage, OneHolder
<1>6. OneWorker'
  BY <1>3 DEF OneWorker, OnePlace, OneHolder
<1>7. OnePlace'
  BY <1>3, <1>4 DEF OnePlace, OneHolder
<1>8. \A v \in Workers : worker[v] # NoMessage => worker[v].job \in Jobs
  BY HoldersJob
<1>9. HolderWaits'
  <2>1. \A i \in Jobs : status'[i] = IF i = m.job THEN "PROCESSING" ELSE status[i]
    BY <1>1, <1>3 DEF TypeOK
  <2>2. ASSUME NEW v \in Workers, worker'[v] # NoMessage
        PROVE  status'[worker'[v].job] = "PROCESSING"
    <3>1. CASE v = w
      BY <1>1, <1>3, <2>1, <3>1
    <3>2. CASE v # w
      <4>1. worker'[v] = worker[v] /\ worker[v] # NoMessage /\ worker[v].job \in Jobs
        BY <1>3, <1>8, <2>2, <3>2
      <4>2. status[worker[v].job] = "PROCESSING"
        BY <4>1 DEF OneHolder, HolderWaits
      <4> QED BY <2>1, <4>1, <4>2
    <3> QED BY <3>1, <3>2
  <2> QED BY <1>4, <2>1, <2>2 DEF HolderWaits, OneHolder
<1> QED BY <1>5, <1>6, <1>7, <1>9 DEF OneHolder

\* A worker lets go of its message; at most messages of its job come in.
LEMMA ReleaseHolder ==
    ASSUME TypeOK, OneHolder, NEW w \in Workers, worker[w] # NoMessage,
           NEW M, M = {} \/ \E n \in Message : n.job = worker[w].job /\ M = {n},
           messages' = messages \cup M,
           worker' = [worker EXCEPT ![w] = NoMessage],
           status' = status \/ (/\ M = {}
                                /\ \E s : status' = [status EXCEPT ![worker[w].job] = s])
    PROVE  OneHolder'
<1> DEFINE j == worker[w].job
<1>1. j \in Jobs /\ j # NoJob /\ status[j] = "PROCESSING"
  BY HoldersJob DEF OneHolder, HolderWaits, Jobs, NoJob
<1>2. /\ worker'[w] = NoMessage
      /\ \A v \in Workers : v # w => worker'[v] = worker[v] /\ worker[v].job # j
  BY DEF OneHolder, OneWorker, TypeOK
<1>3. \A n \in M : n.job = j
  OBVIOUS
<1>4. \A m, n \in M : m = n
  OBVIOUS
<1>5. \A m \in messages : m.job # j
  BY DEF OneHolder, OnePlace
<1>6. OneMessage'
  BY <1>3, <1>4, <1>5 DEF OneHolder, OneMessage
<1>7. OnePlace'
  <2>1. ASSUME NEW m \in messages', NEW v \in Workers PROVE worker'[v].job # m.job
    <3>1. m.job # NoJob
      BY <1>1, <1>3 DEF TypeOK, NoJob
    <3>2. CASE v = w
      BY <1>2, <3>1, <3>2 DEF NoMessage
    <3>3. CASE v # w
      BY <1>2, <1>3, <3>3 DEF OneHolder, OnePlace
    <3> QED BY <3>2, <3>3
  <2> QED BY <2>1 DEF OnePlace
<1>8. OneWorker'
  <2>1. ASSUME NEW v \in Workers, NEW u \in Workers, worker'[v] # NoMessage,
               worker'[v].job = worker'[u].job
        PROVE  v = u
    <3>1. v # w /\ worker'[v] = worker[v]
      BY <1>2, <2>1
    <3>2. worker[v].job # NoJob
      BY <2>1, <3>1, HoldersJob DEF NoJob
    <3>3. u # w
      BY <1>2, <2>1, <3>1, <3>2 DEF NoMessage
    <3> QED BY <1>2, <2>1, <3>1, <3>3 DEF OneHolder, OneWorker
  <2> QED BY <2>1 DEF OneWorker
<1>9. \A i \in Jobs : i # j => status'[i] = status[i]
  BY <1>1 DEF TypeOK
<1>10. HolderWaits'
  <2>1. ASSUME NEW m \in messages' PROVE status'[m.job] \in Waiting
    <3>1. CASE m \in messages
      <4>1. m.job \in Jobs
        BY <3>1 DEF TypeOK, Jobs
      <4> QED BY <1>5, <1>9, <3>1, <4>1 DEF OneHolder, HolderWaits
    <3>2. CASE m \notin messages
      <4>1. M # {} /\ m.job = j
        BY <1>3, <3>2
      <4>2. status' = status
        BY <4>1
      <4> QED BY <1>1, <4>1, <4>2 DEF Waiting
    <3> QED BY <3>1, <3>2
  <2>2. ASSUME NEW v \in Workers, worker'[v] # NoMessage
        PROVE  status'[worker'[v].job] = "PROCESSING"
    <3>1. v # w
      BY <1>2, <2>2
    <3>2. worker'[v] = worker[v] /\ worker[v].job # j /\ worker[v].job \in Jobs
      BY <1>2, <2>2, <3>1, HoldersJob
    <3>3. status[worker[v].job] = "PROCESSING"
      BY <2>2, <3>2 DEF OneHolder, HolderWaits
    <3> QED BY <1>9, <3>2, <3>3
  <2> QED BY <2>1, <2>2 DEF HolderWaits
<1> QED BY <1>6, <1>7, <1>8, <1>10 DEF OneHolder

LEMMA OneHolderStep ==
    ASSUME ~duplicated', TypeOK, OneHolder, [Next]_vars PROVE OneHolder'
<1>1. ASSUME NEW c \in Clients, NEW sent \in BrokerOutcomes, Create(c, sent)
      PROVE  OneHolder'
  BY <1>1, CreateHolder
<1>2. ASSUME NEW w \in Workers, NEW m \in messages, Begin(w, m) PROVE OneHolder'
  BY <1>2, BeginHolder
<1>3. ASSUME NEW w \in Workers, NEW outcome \in Ended, NEW points \in Nat,
             Finish(w, outcome, points)
      PROVE  OneHolder'
  <2>1. worker[w] # NoMessage /\ messages' = messages \cup {}
        /\ worker' = [worker EXCEPT ![w] = NoMessage]
        /\ status' = [status EXCEPT ![worker[w].job] = outcome]
    BY <1>3 DEF Finish
  <2> QED BY <2>1, ReleaseHolder
<1>4. ASSUME NEW w \in Workers, Raise(w) PROVE OneHolder'
  <2>1. worker[w] # NoMessage /\ messages' = messages \cup RetryOf(worker[w])
        /\ worker' = [worker EXCEPT ![w] = NoMessage] /\ status' = status
    BY <1>4 DEF Raise, jobVars
  <2>2. worker[w] \in Message
    BY <2>1, HoldersJob DEF Message, HeldType, Jobs
  <2>3. RetryOf(worker[w]) = {} \/ \E n \in Message : n.job = worker[w].job
                                                       /\ RetryOf(worker[w]) = {n}
    <3>1. CASE worker[w].retry < Retries
      <4>1. [worker[w] EXCEPT !.retry = @ + 1] \in Message
            /\ [worker[w] EXCEPT !.retry = @ + 1].job = worker[w].job
        BY <2>2, <3>1 DEF Message
      <4> QED BY <3>1, <4>1 DEF RetryOf
    <3>2. CASE ~(worker[w].retry < Retries)
      BY <3>2 DEF RetryOf
    <3> QED BY <3>1, <3>2
  <2> QED BY <2>1, <2>3, ReleaseHolder
<1>5. ASSUME NEW w \in Workers, LoseWorker(w) PROVE OneHolder'
  <2>1. worker[w] # NoMessage /\ messages' = messages \cup {worker[w]}
        /\ worker' = [worker EXCEPT ![w] = NoMessage] /\ status' = status
    BY <1>5 DEF LoseWorker, jobVars
  <2>2. worker[w] \in Message
    BY <2>1, HoldersJob DEF Message, HeldType, Jobs
  <2> QED BY <2>1, <2>2, ReleaseHolder
<1>6. ASSUME NEW w \in Workers, Redeliver(w) PROVE FALSE
  BY <1>6 DEF Redeliver
<1>7. CASE UNCHANGED <<status, messages, worker>>
  BY <1>7 DEF OneHolder, OneMessage, OneWorker, OnePlace, HolderWaits
<1> QED BY <1>1, <1>2, <1>3, <1>4, <1>5, <1>6, <1>7, WorkerSteps
        DEF Next, Ask, Close, Finalize, vars, jobVars, taskVars

\* A message is never called back: what was duplicated stays so.
LEMMA DuplicatedStays == ASSUME duplicated, [Next]_vars PROVE duplicated'
BY WorkerSteps DEF Next, Ask, Create, Begin, Finish, Raise, LoseWorker, Redeliver,
       Close, Finalize, vars, faultVars

LEMMA OneHolderInvariant == Spec => [](~duplicated => OneHolder)
<1>1. Init => (~duplicated => OneHolder)
  BY DEF Init, OneHolder, OneMessage, OneWorker, OnePlace, HolderWaits, NoMessage
<1>2. TypeOK /\ (~duplicated => OneHolder) /\ [Next]_vars => (~duplicated' => OneHolder')
  BY OneHolderStep, DuplicatedStays
<1> QED BY <1>1, <1>2, Typing, PTL DEF Spec

\* While a message has one holder nobody holds a submission that has ended, so
\* no step touches it.
LEMMA EndedUntouched ==
    ASSUME TypeOK, OneHolder, [Next]_vars, NEW i \in Jobs, status[i] \in Ended
    PROVE  /\ status'[i] = status[i] /\ score'[i] = score[i]
           /\ i \in Existing /\ key'[i] = key[i]
<1>1. i \in Existing /\ i <= made /\ status[i] # "NONE" /\ status[i] \notin Waiting
  BY DEF TypeOK, Existing, Ended, Waiting, Jobs
<1>2. ASSUME NEW c \in Clients, NEW k \in Keys, Ask(c, k)
      PROVE  status' = status /\ score' = score /\ key' = key
  BY <1>2 DEF Ask, jobVars
<1>3. ASSUME NEW c \in Clients, NEW sent \in BrokerOutcomes, Create(c, sent)
      PROVE  status'[i] = status[i] /\ score' = score /\ key'[i] = key[i]
  BY <1>1, <1>3 DEF Create, TypeOK
<1>4. ASSUME NEW w \in Workers, NEW m \in messages, Begin(w, m)
      PROVE  status'[i] = status[i] /\ score' = score /\ key' = key
  <2>1. status[m.job] \in Waiting
    BY DEF OneHolder, HolderWaits
  <2>2. m.job # i
    BY <1>1, <2>1
  <2> QED BY <1>4, <2>2 DEF Begin, TypeOK, requestVars
<1>5. ASSUME NEW w \in Workers, NEW outcome \in Ended, NEW points \in Nat,
             Finish(w, outcome, points)
      PROVE  status'[i] = status[i] /\ score'[i] = score[i] /\ key' = key
  <2>1. status[worker[w].job] = "PROCESSING"
    BY <1>5 DEF Finish, OneHolder, HolderWaits
  <2>2. worker[w].job # i
    BY <1>1, <2>1 DEF Waiting
  <2> QED BY <1>5, <2>2 DEF Finish, TypeOK, requestVars
<1>6. CASE UNCHANGED <<status, score, key>>
  BY <1>1, <1>6
<1> QED BY <1>1, <1>2, <1>3, <1>4, <1>5, <1>6, WorkerSteps
        DEF Next, Raise, LoseWorker, Redeliver, Close, Finalize,
            vars, jobVars, requestVars

(***************************************************************************)
(* A submission is judged once, whatever exceptions, retries and lost      *)
(* workers there are, as long as no message was delivered while it was     *)
(* worked on: the second transaction of evaluate_submission does not have  *)
(* to look at the status again.                                            *)
(***************************************************************************)
THEOREM JudgedOnce == Spec => VerdictStands
<1>1. TypeOK /\ (~duplicated => OneHolder) /\ [Next]_vars =>
        \A j \in Jobs : status[j] \in Ended /\ ~duplicated =>
          status'[j] = status[j] /\ score'[j] = score[j]
  BY EndedUntouched
<1> QED BY <1>1, Typing, OneHolderInvariant, PTL DEF Spec, VerdictStands

-------------------------------------------------------------------------------
(***************************************************************************)
(* The credited submission of a finalized attempt was judged, and its      *)
(* score stays the credited one as long as no message was duplicated.      *)
(***************************************************************************)
LEMMA CreditStep ==
    ASSUME TypeOK, ~duplicated => OneHolder, CreditJudged, [Next]_vars
    PROVE  CreditJudged'
<1> SUFFICES ASSUME ~duplicated' PROVE CreditJudged'
  BY DEF CreditJudged
<1>0. ~duplicated /\ OneHolder
  BY DuplicatedStays
<1>1. CASE Finalize
  <2>1. CASE UNCHANGED <<credited, creditedScore>>
    BY <1>0, <1>1, <2>1 DEF Finalize, CreditJudged, IsSubmit, requestVars, jobVars
  <2>2. ASSUME NEW j \in Submits, Counts(j), credited' = j, creditedScore' = score[j]
        PROVE  CreditJudged'
    BY <1>0, <1>1, <2>2 DEF Finalize, CreditJudged, Submits, Counts, IsSubmit,
                      requestVars, jobVars
  <2> QED BY <1>1, <2>1, <2>2 DEF Finalize
<1>2. CASE UNCHANGED <<credited, creditedScore>>
  <2>1. CASE credited = NoJob
    BY <1>2, <2>1 DEF CreditJudged
  <2>2. CASE credited # NoJob
    <3>1. credited \in Jobs
      BY <2>2 DEF TypeOK, Jobs, NoJob
    <3>2. status[credited] \in Ended
      BY <1>0, <2>2 DEF CreditJudged, Ended
    <3>3. status'[credited] = status[credited] /\ score'[credited] = score[credited]
          /\ key'[credited] = key[credited]
      BY <1>0, <3>1, <3>2, EndedUntouched
    <3> QED BY <1>0, <1>2, <2>2, <3>3 DEF CreditJudged, IsSubmit
  <2> QED BY <2>1, <2>2
<1> QED BY <1>1, <1>2, WorkerSteps
        DEF Next, Ask, Create, Begin, Finish, Raise, LoseWorker,
            Redeliver, Close, vars, resultVars

THEOREM CreditStands == Spec => []CreditJudged
<1>1. Init => CreditJudged
  BY DEF Init, CreditJudged
<1>2. TypeOK /\ (~duplicated => OneHolder) /\ CreditJudged /\ [Next]_vars => CreditJudged'
  BY CreditStep
<1> QED BY <1>1, <1>2, Typing, OneHolderInvariant, PTL DEF Spec

-------------------------------------------------------------------------------
(***************************************************************************)
(* The backlog: however many requests read the quota together, at most one *)
(* submission more than there are requests waits or runs.                  *)
(***************************************************************************)
LEMMA BacklogFinite ==
    ASSUME TypeOK
    PROVE  IsFiniteSet(Existing) /\ IsFiniteSet(Live) /\ IsFiniteSet(Asking)
<1>1. IsFiniteSet(Existing)
  BY FS_Interval DEF TypeOK, Existing
<1>2. Live \subseteq Existing /\ Asking \subseteq Clients
  BY DEF Live, Asking, WithStatus
<1> QED BY <1>1, <1>2, FS_Subset, ClientAssumption

\* WithinQuota leaves room for one submission that waits and none that runs.
LEMMA QuotaBound == ASSUME TypeOK, WithinQuota PROVE Cardinality(Live) <= 1
<1>1. IsFiniteSet(WithStatus("PROCESSING")) /\ IsFiniteSet(WithStatus("QUEUED"))
  BY BacklogFinite, FS_Subset DEF WithStatus
<1>2. Cardinality(WithStatus("PROCESSING")) \in Nat /\ Cardinality(WithStatus("QUEUED")) \in Nat
  BY <1>1, FS_CardinalityType
<1>3. Cardinality(WithStatus("PROCESSING")) = 0
  BY <1>2 DEF WithinQuota
<1>4. WithStatus("PROCESSING") = {}
  BY <1>1, <1>3, FS_EmptySet
<1>5. Live = WithStatus("QUEUED")
  BY <1>4 DEF Live
<1> QED BY <1>2, <1>5 DEF WithinQuota

\* A step that neither adds a live submission nor an asking request.
LEMMA BacklogShrinks ==
    ASSUME TypeOK, Backlog, Live' \subseteq Live, Asking' = Asking
    PROVE  Backlog'
<1>1. IsFiniteSet(Live) /\ IsFiniteSet(Asking) /\ IsFiniteSet(Live')
      /\ Cardinality(Live') <= Cardinality(Live)
  BY BacklogFinite, FS_Subset
<1>2. /\ Cardinality(Live) \in Nat /\ Cardinality(Live') \in Nat
      /\ Cardinality(Asking) \in Nat /\ Cardinality(Clients) \in Nat
  BY <1>1, FS_CardinalityType, ClientAssumption
<1>3. Cardinality(Asking') = Cardinality(Asking)
  OBVIOUS
<1> QED BY <1>1, <1>2, <1>3 DEF Backlog

LEMMA BacklogStep ==
    ASSUME TypeOK, TypeOK', Backlog, [Next]_vars PROVE Backlog'
<1>1. /\ IsFiniteSet(Live) /\ IsFiniteSet(Asking)
      /\ Cardinality(Live) \in Nat /\ Cardinality(Asking) \in Nat
      /\ Cardinality(Clients) \in Nat
  BY BacklogFinite, FS_CardinalityType, ClientAssumption
<1>2. ASSUME NEW c \in Clients, NEW k \in Keys, Ask(c, k) PROVE Backlog'
  <2>1. Live' = Live
    BY <1>2 DEF Ask, Live, WithStatus, Existing, jobVars
  <2>2. Cardinality(Live) <= 1
    BY <1>2, QuotaBound DEF Ask
  <2>3. Asking' \subseteq Clients
    BY DEF Asking
  <2>4. Cardinality(Asking') \in Nat /\ Cardinality(Asking') <= Cardinality(Clients)
    BY <2>3, FS_Subset, FS_CardinalityType, ClientAssumption
  <2>5. Cardinality(Live') = Cardinality(Live)
    BY <2>1
  <2> QED BY <1>1, <2>2, <2>4, <2>5 DEF Backlog
<1>3. ASSUME NEW c \in Clients, NEW sent \in BrokerOutcomes, Create(c, sent)
      PROVE  Backlog'
  <2>1. made' = made + 1 /\ made \in Nat /\ made + 1 \in Jobs
    BY <1>3 DEF Create, TypeOK
  <2>2. \A i \in Existing : i \in Jobs /\ i # made + 1
    BY <2>1 DEF Existing, Jobs
  <2>3. /\ status'[made + 1] = "QUEUED"
        /\ \A i \in Existing : status'[i] = status[i]
    BY <1>3, <2>1, <2>2 DEF Create, TypeOK
  <2>4. Existing' = Existing \cup {made + 1}
    BY <2>1 DEF Existing
  <2>5. Live' \subseteq Live \cup {made + 1}
    BY <2>3, <2>4 DEF Live, WithStatus
  <2>6. Asking' = Asking \ {c} /\ c \in Asking
    BY <1>3 DEF Create, TypeOK, Asking
  <2>7. Cardinality(Live') \in Nat /\ Cardinality(Live') <= Cardinality(Live) + 1
    <3>1. /\ IsFiniteSet(Live \cup {made + 1})
          /\ Cardinality(Live \cup {made + 1}) \in Nat
          /\ Cardinality(Live \cup {made + 1}) <= Cardinality(Live) + 1
      <4>1. /\ IsFiniteSet(Live \cup {made + 1})
            /\ Cardinality(Live \cup {made + 1})
                 = IF made + 1 \in Live THEN Cardinality(Live) ELSE Cardinality(Live) + 1
        BY <1>1, FS_AddElement
      <4> QED BY <1>1, <4>1
    <3>2. /\ Cardinality(Live') \in Nat
          /\ Cardinality(Live') <= Cardinality(Live \cup {made + 1})
      BY <2>5, <3>1, FS_Subset, FS_CardinalityType
    <3> QED BY <1>1, <3>1, <3>2
  <2>8. Cardinality(Asking \ {c}) = Cardinality(Asking) - 1
    BY <1>1, <2>6, FS_RemoveElement
  <2>9. Cardinality(Asking') = Cardinality(Asking) - 1
    BY <2>6, <2>8
  <2> QED BY <1>1, <2>7, <2>9 DEF Backlog
<1>4. ASSUME NEW w \in Workers, NEW m \in messages, Begin(w, m) PROVE Backlog'
  <2>1. m.job \in Jobs
    BY DEF TypeOK, Jobs
  <2>2. CASE /\ MayEvaluate(m.job)
             /\ status' = [status EXCEPT ![m.job] = "PROCESSING"]
    <3>1. \A i \in Existing : i \in Jobs
      BY DEF Existing, TypeOK, Jobs
    <3>2. \A i \in Existing : status'[i] \in Waiting => status[i] \in Waiting
      BY <2>1, <2>2, <3>1 DEF TypeOK, MayEvaluate
    <3>3. Live' \subseteq Live /\ Asking' = Asking
      BY <1>4, <3>2 DEF Begin, Live, Asking, WithStatus, Existing, Waiting, requestVars
    <3> QED BY <3>3, BacklogShrinks
  <2>3. CASE status' = status
    <3>1. Live' = Live /\ Asking' = Asking
      BY <1>4, <2>3 DEF Begin, Live, Asking, WithStatus, Existing, requestVars
    <3> QED BY <3>1, BacklogShrinks
  <2> QED BY <1>4, <2>2, <2>3 DEF Begin
<1>5. ASSUME NEW w \in Workers, NEW outcome \in Ended, NEW points \in Nat,
             Finish(w, outcome, points)
      PROVE  Backlog'
  <2>1. \A i \in Existing : i \in Jobs
    BY DEF Existing, TypeOK, Jobs
  <2>2. worker[w].job \in Jobs
    BY <1>5, HoldersJob DEF Finish
  <2>3. \A i \in Existing : status'[i] \in Waiting => status[i] \in Waiting
    BY <1>5, <2>1, <2>2 DEF Finish, TypeOK, Ended, Waiting
  <2>4. Live' \subseteq Live /\ Asking' = Asking
    BY <1>5, <2>3 DEF Finish, Live, Asking, WithStatus, Existing, Waiting, requestVars
  <2> QED BY <2>4, BacklogShrinks
<1>6. CASE UNCHANGED <<status, made, asking>>
  <2>1. Live' = Live /\ Asking' = Asking
    BY <1>6 DEF Live, Asking, WithStatus, Existing
  <2> QED BY <2>1, BacklogShrinks
<1> QED BY <1>2, <1>3, <1>4, <1>5, <1>6, WorkerSteps
        DEF Next, Raise, LoseWorker, Redeliver, Close, Finalize,
            vars, jobVars, requestVars

THEOREM BacklogBounded == Spec => []Backlog
<1>1. Init => Backlog
  <2>1. ASSUME Init PROVE Backlog
    <3>1. Live = {} /\ Asking = {}
      BY <2>1 DEF Init, Live, Asking, WithStatus, Existing
    <3>2. Cardinality(Live) = 0 /\ Cardinality(Asking) = 0
      BY <3>1, FS_EmptySet
    <3>3. Cardinality(Clients) \in Nat
      BY ClientAssumption, FS_CardinalityType
    <3> QED BY <3>2, <3>3 DEF Backlog
  <2> QED BY <2>1
<1>2. TypeOK /\ TypeOK' /\ Backlog /\ [Next]_vars => Backlog'
  BY BacklogStep
<1> QED BY <1>1, <1>2, Typing, PTL DEF Spec

-------------------------------------------------------------------------------
(***************************************************************************)
(* A submission that is being processed keeps a holder.  What makes it so  *)
(* is that a message has never been retried more often than there were     *)
(* faults, so a task gives up only after more faults than it has retries.  *)
(***************************************************************************)
RetriesAreFaults ==
    /\ \A m \in messages : m.retry <= faults
    /\ \A w \in Workers : worker[w].retry <= faults

HeldInv == RetriesAreFaults /\ ProcessingHeld

\* RetryOf counts the retry up and keeps the submission.
LEMMA Retried ==
    ASSUME TypeOK, NEW w \in Workers, worker[w] # NoMessage, NEW n \in RetryOf(worker[w])
    PROVE  n.job = worker[w].job /\ n.retry = worker[w].retry + 1
BY HoldersJob DEF RetryOf, HeldType

LEMMA RetriesStep == ASSUME TypeOK, RetriesAreFaults, [Next]_vars PROVE RetriesAreFaults'
<1>0. /\ faults \in Nat
      /\ \A m \in messages : m.retry \in Nat
      /\ \A w \in Workers : worker[w].retry \in Nat
  BY DEF TypeOK, NoMessage
<1>1. ASSUME NEW c \in Clients, NEW sent \in BrokerOutcomes, Create(c, sent)
      PROVE  RetriesAreFaults'
  BY <1>0, <1>1 DEF Create, RetriesAreFaults, faultVars
<1>2. ASSUME NEW w \in Workers, NEW m \in messages, Begin(w, m) PROVE RetriesAreFaults'
  BY <1>2 DEF Begin, RetriesAreFaults, faultVars, TypeOK
<1>3. ASSUME NEW w \in Workers, NEW outcome \in Ended, NEW points \in Nat,
             Finish(w, outcome, points)
      PROVE  RetriesAreFaults'
  BY <1>0, <1>3 DEF Finish, RetriesAreFaults, faultVars, TypeOK, NoMessage
<1>4. ASSUME NEW w \in Workers, Raise(w) PROVE RetriesAreFaults'
  <2>1. faults' = faults + 1 /\ messages' = messages \cup RetryOf(worker[w])
        /\ worker' = [worker EXCEPT ![w] = NoMessage] /\ worker[w] # NoMessage
    BY <1>4 DEF Raise, Fault
  <2>2. \A n \in RetryOf(worker[w]) : n.retry <= faults'
    BY <1>0, <2>1, Retried DEF RetriesAreFaults
  <2> QED BY <1>0, <2>1, <2>2 DEF RetriesAreFaults, TypeOK, NoMessage
<1>5. ASSUME NEW w \in Workers, LoseWorker(w) PROVE RetriesAreFaults'
  BY <1>0, <1>5 DEF LoseWorker, Fault, RetriesAreFaults, TypeOK, NoMessage
<1>6. ASSUME NEW w \in Workers, Redeliver(w) PROVE RetriesAreFaults'
  BY <1>0, <1>6 DEF Redeliver, Fault, RetriesAreFaults, TypeOK
<1>7. CASE UNCHANGED <<messages, worker, faults>>
  BY <1>7 DEF RetriesAreFaults
<1> QED BY <1>1, <1>2, <1>3, <1>4, <1>5, <1>6, <1>7, WorkerSteps
        DEF Next, Ask, Close, Finalize, vars, taskVars, faultVars

\* What holds a submission before a step that moves no message of it holds it after.
LEMMA HeldAfter ==
    ASSUME NEW i \in Jobs, Held(i),
           \A m \in messages : m.job = i => m \in messages',
           \A w \in Workers : worker[w].job = i => worker'[w].job = i
    PROVE  Held(i)'
BY DEF Held

LEMMA ProcessingStep ==
    ASSUME TypeOK, HeldInv, [Next]_vars, (faults <= Retries)',
           NEW i \in Existing', status'[i] = "PROCESSING"
    PROVE  Held(i)'
<1>0. /\ faults \in Nat /\ made \in Nat /\ Existing \subseteq Jobs /\ i # NoJob
      /\ (faults <= Retries /\ i \in Existing /\ status[i] = "PROCESSING" => Held(i))
  BY DEF TypeOK, HeldInv, ProcessingHeld, Existing, Jobs, NoJob
<1>1. ASSUME NEW c \in Clients, NEW sent \in BrokerOutcomes, Create(c, sent)
      PROVE  Held(i)'
  <2>1. i \in 1..(made + 1) /\ made + 1 \in Jobs
        /\ status' = [status EXCEPT ![made + 1] = "QUEUED"]
    BY <1>1 DEF Create, Existing
  <2>2. i \in Existing /\ status[i] = "PROCESSING"
    BY <1>0, <2>1 DEF TypeOK, Existing
  <2> QED BY <1>0, <1>1, <2>2 DEF Create, Held, faultVars
<1>2. ASSUME NEW w \in Workers, NEW m \in messages, Begin(w, m) PROVE Held(i)'
  <2>1. m.job \in Jobs
    BY DEF TypeOK, Jobs
  <2>2. CASE MayEvaluate(m.job) /\ status' = [status EXCEPT ![m.job] = "PROCESSING"]
             /\ worker' = [worker EXCEPT ![w] = m]
    <3>1. CASE i = m.job
      BY <2>2, <3>1 DEF Held, TypeOK
    <3>2. CASE i # m.job
      <4>1. Held(i)
        BY <1>0, <1>2, <2>1, <2>2, <3>2 DEF Begin, requestVars, faultVars, Existing, TypeOK
      <4>2. \A v \in Workers : worker[v].job = i => worker'[v].job = i
        BY <1>0, <1>2, <2>2 DEF Begin, TypeOK, NoMessage
      <4> QED BY <1>0, <1>2, <3>2, <4>1, <4>2 DEF Begin, Held
    <3> QED BY <3>1, <3>2
  <2>3. CASE ~MayEvaluate(m.job) /\ UNCHANGED <<status, worker>>
    <3>1. i # m.job
      BY <2>3 DEF MayEvaluate, Waiting
    <3>2. Held(i)
      BY <1>0, <1>2, <2>3 DEF Begin, requestVars, faultVars, Existing
    <3> QED BY <1>2, <2>3, <3>1, <3>2 DEF Begin, Held
  <2> QED BY <1>2, <2>2, <2>3 DEF Begin
<1>3. ASSUME NEW w \in Workers, NEW outcome \in Ended, NEW points \in Nat,
             Finish(w, outcome, points)
      PROVE  Held(i)'
  <2>1. worker[w].job \in Jobs
    BY <1>3, HoldersJob DEF Finish
  <2>2. i # worker[w].job
    BY <1>3, <2>1 DEF Finish, TypeOK, Ended
  <2>3. Held(i)
    BY <1>0, <1>3, <2>1, <2>2 DEF Finish, requestVars, faultVars, Existing, TypeOK
  <2> QED BY <1>3, <2>2, <2>3 DEF Finish, Held, TypeOK
<1>4. ASSUME NEW w \in Workers, Raise(w) PROVE Held(i)'
  <2>1. /\ faults' = faults + 1 /\ messages' = messages \cup RetryOf(worker[w])
        /\ worker' = [worker EXCEPT ![w] = NoMessage] /\ worker[w] # NoMessage
        /\ Held(i)
    BY <1>0, <1>4 DEF Raise, Fault, jobVars, requestVars, Existing
  <2>2. worker[w].retry < Retries /\ worker[w] \in HeldType
    BY <1>0, <2>1, HoldersJob DEF HeldInv, RetriesAreFaults, HeldType
  <2>3. PICK n \in RetryOf(worker[w]) : TRUE
    BY <2>2 DEF RetryOf
  <2>4. n.job = worker[w].job
    BY <2>1, Retried
  <2> QED BY <2>1, <2>3, <2>4 DEF Held, TypeOK
<1>5. ASSUME NEW w \in Workers, LoseWorker(w) PROVE Held(i)'
  <2>1. Held(i)
    BY <1>0, <1>5 DEF LoseWorker, Fault, jobVars, requestVars, Existing
  <2> QED BY <1>5, <2>1 DEF LoseWorker, Held, TypeOK
<1>6. ASSUME NEW w \in Workers, Redeliver(w) PROVE Held(i)'
  <2>1. Held(i)
    BY <1>0, <1>6 DEF Redeliver, Fault, jobVars, requestVars, Existing
  <2> QED BY <1>6, <2>1 DEF Redeliver, Held
<1>7. CASE UNCHANGED <<made, status, messages, worker, faults>>
  BY <1>0, <1>7 DEF Held, Existing
<1> QED BY <1>1, <1>2, <1>3, <1>4, <1>5, <1>6, <1>7, WorkerSteps
        DEF Next, Ask, Close, Finalize, vars, jobVars, taskVars, faultVars, requestVars

\* As long as there were no more faults than the task has retries, a submission
\* that is PROCESSING has a message or a worker, whatever is lost on the way.
THEOREM KeepsHolder == Spec => []ProcessingHeld
<1>1. Init => HeldInv
  BY DEF Init, HeldInv, RetriesAreFaults, ProcessingHeld, Existing, NoMessage
<1>2. TypeOK /\ HeldInv /\ [Next]_vars => HeldInv'
  BY RetriesStep, ProcessingStep DEF HeldInv, ProcessingHeld
<1>3. HeldInv => ProcessingHeld
  BY DEF HeldInv
<1> QED BY <1>1, <1>2, <1>3, Typing, PTL DEF Spec

================================================================================
