--------------------------- MODULE AnswerSave_proofs ---------------------------
(* Theorems about AnswerSave, for any number of questions and of requests. *)
EXTENDS AnswerSave, TLAPS

USE BoundAssumption, NothingAssumption, CodingAssumption
USE DEF serverVars, answerVars, resultVars, submitVars, pageVars, timerVars, pollVars,
        historyVars

LEMMA SourceOf ==
    ASSUME NEW s \in SubmissionType
    PROVE  /\ s.question \in Questions /\ s.content \in AllContents /\ s.content # Blank
           /\ s = Source(s.question, s.content)
BY DEF SubmissionType, Source

(***************************************************************************)
(* Type correctness of the page, the requests and the rows of save_answer. *)
(***************************************************************************)
\* What the end of an evaluation does, for the SUBMIT that it is about.
Judges(w, s) ==
    /\ s = work[w] /\ s \in SubmissionType
    /\ s.question \in Questions /\ s.content \in AllContents
    /\ s = Source(s.question, s.content)
    /\ answer' = [answer EXCEPT ![s.question] = s.content]
    /\ revision' = [revision EXCEPT ![s.question] = @ + 1]
    /\ judged' = judged \cup {s} /\ work' = [work EXCEPT ![w] = Idle]

LEMMA EvaluateJudges ==
    ASSUME TypeOK, NEW w \in Workers, Evaluate(w)
    PROVE  \E s \in submitted : Judges(w, s)
<1>1. work[w] \in submitted /\ work[w] \in SubmissionType
  BY DEF Evaluate, TypeOK
<1> QED BY <1>1, SourceOf DEF Evaluate, Judges

LEMMA FailTyped ==
    ASSUME TypeOK, NEW r \in Requests, Fail(r), strayed' \in BOOLEAN
    PROVE  TypeOK'
BY DEF TypeOK, Fail

LEMMA WriteTyped ==
    ASSUME TypeOK, NEW r \in Requests, Write(r) PROVE TypeOK'
<1>1. request[r] \in RequestType
  BY DEF Write, In, TypeOK, Idle
<1>2. NewRevision(r) \in Nat
  BY <1>1 DEF NewRevision, Higher, RequestType
<1>3. request' \in [Requests -> RequestType \cup {Idle}]
  BY <1>1, <1>2 DEF Write, TypeOK, RequestType
<1> QED BY <1>1, <1>2, <1>3 DEF Write, TypeOK, RequestType

THEOREM Typing == Spec => []TypeOK
<1>1. Init => TypeOK
  <2> SUFFICES ASSUME Init PROVE TypeOK
    OBVIOUS
  <2>1. /\ [q \in Questions |-> Blank] \in [Questions -> AllContents]
        /\ [q \in Questions |-> 1] \in [Questions -> Nat]
    BY DEF AllContents
  <2>2. [r \in Requests |-> Idle] \in [Requests -> RequestType \cup {Idle}]
    OBVIOUS
  <2>3. Blank \in AllContents
    BY DEF AllContents
  <2> QED BY <2>1, <2>2, <2>3 DEF Init, TypeOK
<1>2. TypeOK /\ [Next]_vars => TypeOK'
  <2> SUFFICES ASSUME TypeOK, [Next]_vars PROVE TypeOK'
    OBVIOUS
  <2>1. ASSUME NEW q \in Questions, NEW c \in Contents, Edit(q, c) PROVE TypeOK'
    BY <2>1 DEF Edit, TypeOK, AllContents
  <2>2. ASSUME NEW r \in Requests, Send(r) PROVE TypeOK'
    <3>1. timer \in Questions /\ NextRev(timer) \in Nat
      BY <2>2 DEF Send, TypeOK, NextRev
    <3> QED BY <2>2, <3>1 DEF Send, TypeOK, RequestType
  <2>3. ASSUME NEW r \in Requests, Adopt(r) PROVE TypeOK'
    <3>1. request[r] \in RequestType
      BY <2>3 DEF Adopt, In, TypeOK, Idle
    <3> QED BY <2>3, <3>1 DEF Adopt, TypeOK, RequestType
  <2>4. ASSUME NEW r \in Requests, Read(r) PROVE TypeOK'
    <3>1. request[r] \in RequestType
      BY <2>4 DEF Read, MayRead, In, TypeOK, Idle
    <3>2. request' = [request EXCEPT ![r] = [request[r] EXCEPT
                        !.phase = "READ", !.seen = revision[request[r].question],
                        !.answered = answer[request[r].question] # Blank]]
      BY <2>4, <3>1 DEF Read, TypeOK, RequestType
    <3> QED BY <2>4, <3>1, <3>2 DEF Read, TypeOK, RequestType
  <2>5. ASSUME NEW r \in Requests, Lose(r) \/ Refuse(r) \/ Stale(r) PROVE TypeOK'
    <3>1. Fail(r) /\ strayed' \in BOOLEAN
      BY <2>5 DEF Lose, Refuse, Stale, TypeOK
    <3> QED BY <3>1, FailTyped
  <2>6. ASSUME NEW r \in Requests, Write(r) PROVE TypeOK'
    BY <2>6, WriteTyped
  <2>7. CASE Reload
    <3>1. ASSUME NEW r \in In("SENT") \cup In("READ")
          PROVE [request[r] EXCEPT !.awaited = FALSE] \in RequestType
      <4>1. request[r] \in RequestType
        BY DEF In, TypeOK, Idle
      <4> QED BY <4>1 DEF RequestType
    <3>2. request' \in [Requests -> RequestType \cup {Idle}]
      BY <2>7, <3>1 DEF Reload
    <3> QED BY <2>7, <3>2 DEF Reload, TypeOK
  <2>8. CASE Close \/ Finalize
    BY <2>8 DEF Close, Finalize, TypeOK
  <2>9. ASSUME NEW q \in Coding, Submit(q) PROVE TypeOK'
    <3>1. Source(q, screen[q]) \in SubmissionType
      BY <2>9 DEF Submit, Source, SubmissionType, TypeOK
    <3> QED BY <2>9, <3>1 DEF Submit, TypeOK
  <2>10. ASSUME NEW s \in submitted, ShowResult(s) \/ GiveUp(s) PROVE TypeOK'
    <3>1. s \in SubmissionType
      BY DEF TypeOK
    <3> QED BY <2>10, <3>1, SourceOf DEF ShowResult, GiveUp, EndPoll, TypeOK
  <2>11. CASE DropTimer \/ Load
    BY <2>11 DEF DropTimer, Load, TypeOK, DetailType
  <2>12. CASE Apply
    BY <2>12 DEF Apply, Unsettled, TypeOK, DetailType
  <2>13. CASE UNCHANGED vars
    BY <2>13 DEF TypeOK, vars
  <2>14. ASSUME NEW w \in Workers, NEW s \in submitted, Begin(w, s) PROVE TypeOK'
    BY <2>14 DEF Begin, TypeOK
  <2>15. ASSUME NEW w \in Workers, LoseWorker(w) PROVE TypeOK'
    BY <2>15 DEF LoseWorker, TypeOK
  <2>16. ASSUME NEW w \in Workers, Evaluate(w) PROVE TypeOK'
    <3>1. PICK s \in submitted : Judges(w, s)
      BY <2>16, EvaluateJudges
    <3> QED BY <2>16, <3>1 DEF Evaluate, Judges, TypeOK
  <2> QED BY <2>1, <2>2, <2>3, <2>4, <2>5, <2>6, <2>7, <2>8, <2>9, <2>10, <2>11, <2>12,
             <2>13, <2>14, <2>15, <2>16 DEF Next
<1> QED BY <1>1, <1>2, PTL DEF Spec

-------------------------------------------------------------------------------
(***************************************************************************)
(* Whatever overlaps: a closed attempt's answers change only through       *)
(* requests that save_answer had read, and SUBMITs that create_submission  *)
(* had accepted, before the attempt closed.                                *)
(***************************************************************************)
LEMMA FailKeeps ==
    ASSUME TypeOK, NEW r \in Requests, Fail(r)
    PROVE  In("READ")' \subseteq In("READ") /\ answer' = answer
BY DEF Fail, In, Idle, TypeOK

\* What else there is than Write and Evaluate reads no request and stores no answer.
LEMMA Others ==
    ASSUME TypeOK, ~open,
           \/ \E r \in Requests : Send(r) \/ Adopt(r) \/ Lose(r) \/ Refuse(r) \/ Stale(r)
           \/ \E s \in submitted : ShowResult(s) \/ GiveUp(s)
           \/ DropTimer \/ Load \/ Apply \/ Reload \/ Finalize \/ UNCHANGED vars
    PROVE  /\ In("READ")' \subseteq In("READ") /\ answer' = answer
           /\ UNCHANGED <<submitted, judged, work>>
<1>1. ASSUME NEW r \in Requests, Send(r) \/ Adopt(r)
      PROVE  In("READ")' \subseteq In("READ") /\ UNCHANGED <<answer, submitted, judged, work>>
  BY <1>1 DEF Send, Adopt, In, Idle, TypeOK
<1>2. ASSUME NEW r \in Requests, Lose(r) \/ Refuse(r) \/ Stale(r)
      PROVE  In("READ")' \subseteq In("READ") /\ UNCHANGED <<answer, submitted, judged, work>>
  BY <1>2, FailKeeps DEF Lose, Refuse, Stale, Fail
<1>3. ASSUME NEW s \in submitted, ShowResult(s) \/ GiveUp(s)
      PROVE  In("READ")' \subseteq In("READ") /\ UNCHANGED <<answer, submitted, judged, work>>
  BY <1>3 DEF ShowResult, GiveUp, EndPoll, In
<1>4. CASE DropTimer \/ Load \/ Apply \/ Finalize \/ UNCHANGED vars
  BY <1>4 DEF DropTimer, Load, Apply, Finalize, vars, In
<1>5. CASE Reload
  <2>1. ASSUME NEW o \in In("READ")' PROVE o \in In("READ")
    <3>1. CASE o \in In("SENT")
      <4>1. request[o] \in RequestType /\ request[o].phase = "SENT"
        BY <3>1 DEF In, TypeOK, Idle
      <4>2. request'[o] = [request[o] EXCEPT !.awaited = FALSE]
        BY <1>5, <3>1 DEF Reload, In
      <4> QED BY <4>1, <4>2, <2>1 DEF In, RequestType
    <3>2. CASE o \notin In("SENT") \cup In("READ")
      BY <1>5, <3>2, <2>1 DEF Reload, In, Idle
    <3> QED BY <3>1, <3>2
  <2> QED BY <1>5, <2>1 DEF Reload
<1> QED BY <1>1, <1>2, <1>3, <1>4, <1>5

THEOREM Drains == Spec => ClosedDrains
<1> DEFINE Drain == ~open =>
         /\ In("READ")' \subseteq In("READ")
         /\ submitted' = submitted
         /\ submitted = judged => Evaluating' \subseteq Evaluating
         /\ answer' # answer => \/ In("READ")' # In("READ")
                                \/ Evaluating' # Evaluating
<1>1. TypeOK /\ [Next]_vars => Drain
  <2> SUFFICES ASSUME TypeOK, [Next]_vars, ~open PROVE Drain
    OBVIOUS
  <2>1. ASSUME NEW r \in Requests, Write(r) PROVE Drain
    <3>1. r \in In("READ") /\ request[r] \in RequestType
      BY <2>1 DEF Write, In, TypeOK, Idle
    <3>2. request'[r].phase # "READ"
      BY <2>1, <3>1 DEF Write, Idle, TypeOK, RequestType
    <3>3. \A o \in Requests : o # r => request'[o] = request[o]
      BY <2>1 DEF Write, TypeOK
    <3>4. In("READ")' \subseteq In("READ") /\ In("READ")' # In("READ")
      BY <3>1, <3>2, <3>3 DEF In
    <3> QED BY <2>1, <3>4 DEF Write, Evaluating
  <2>2. ASSUME NEW w \in Workers, Evaluate(w) \/ LoseWorker(w) PROVE Drain
    <3>1. In("READ")' = In("READ") /\ submitted' = submitted
      BY <2>2 DEF Evaluate, LoseWorker, In
    <3>2. w \in Evaluating /\ work' = [work EXCEPT ![w] = Idle]
      BY <2>2 DEF Evaluate, LoseWorker, Evaluating
    <3>3. Evaluating' = Evaluating \ {w}
      BY <3>2 DEF Evaluating, TypeOK
    <3> QED BY <3>1, <3>2, <3>3
  <2>3. ASSUME NEW q \in Questions, NEW c \in Contents, Edit(q, c) PROVE FALSE
    BY <2>3 DEF Edit
  <2>4. ASSUME NEW r \in Requests, Read(r) PROVE FALSE
    BY <2>4 DEF Read, MayRead
  <2>5. ASSUME NEW q \in Coding, Submit(q) PROVE FALSE
    BY <2>5 DEF Submit
  <2>6. CASE Close
    BY <2>6 DEF Close
  <2>7. ASSUME NEW w \in Workers, NEW s \in submitted, Begin(w, s) PROVE Drain
    BY <2>7 DEF Begin, In
  <2>8. ASSUME answer' = answer, In("READ")' \subseteq In("READ"),
               UNCHANGED <<submitted, judged, work>>
        PROVE  Drain
    BY <2>8 DEF Evaluating
  <2> QED BY <2>1, <2>2, <2>3, <2>4, <2>5, <2>6, <2>7, <2>8, Others DEF Next
<1> QED BY <1>1, Typing, PTL DEF Spec, ClosedDrains

-------------------------------------------------------------------------------
(***************************************************************************)
(* Until requests overlap, the copy that a request holds is the row.       *)
(***************************************************************************)
CopyIsRow ==
    \A r \in In("READ") :
        /\ open
        /\ request[r].seen = revision[request[r].question]
        /\ request[r].answered <=> answer[request[r].question] # Blank
        /\ \A o \in In("READ") : o = r

WriterBelow == \A q \in Questions : writer[q] <= revision[q]

InTurn == CopyIsRow /\ WriterBelow /\ (finalized => ~open) /\ ScoreMatchesAnswers

LEMMA FailInTurn ==
    ASSUME TypeOK, InTurn, NEW r \in Requests, Fail(r) PROVE InTurn'
<1>1. /\ In("READ")' \subseteq In("READ")
      /\ \A o \in In("READ")' : request'[o] = request[o]
  BY DEF Fail, In, Idle, TypeOK
<1> QED BY <1>1 DEF InTurn, CopyIsRow, WriterBelow, ScoreMatchesAnswers, Fail

LEMMA WriteInTurn ==
    ASSUME TypeOK, InTurn, NEW r \in Requests, Write(r)
    PROVE  /\ InTurn'
           /\ \A q \in Questions :
                 answer[q] # Blank /\ answer'[q] # answer[q] => writer'[q] > writer[q]
<1>1. r \in In("READ") /\ request[r] \in RequestType
  BY DEF Write, In, TypeOK, Idle
<1>2. In("READ") = {r}
  BY <1>1 DEF InTurn, CopyIsRow
<1>3. In("READ")' = {}
  <2>1. request'[r].phase # "READ"
    BY <1>1 DEF Write, Idle, TypeOK, RequestType
  <2>2. \A o \in Requests : o # r => request'[o] = request[o]
    BY DEF Write, TypeOK
  <2> QED BY <1>2, <2>1, <2>2 DEF In
<1> DEFINE q == request[r].question
<1>4. q \in Questions /\ request[r].rev \in Nat /\ request[r].seen \in Nat
  BY <1>1 DEF RequestType
<1>5. open /\ request[r].seen = revision[q] /\ (request[r].answered <=> answer[q] # Blank)
  BY <1>1 DEF InTurn, CopyIsRow
<1>6. /\ writer'[q] = request[r].rev
      /\ revision'[q] = NewRevision(r)
      /\ \A p \in Questions : p # q => /\ writer'[p] = writer[p]
                                       /\ revision'[p] = revision[p]
                                       /\ answer'[p] = answer[p]
  BY <1>4 DEF Write, TypeOK
<1>7. WriterBelow'
  <2>1. request[r].rev <= NewRevision(r)
    BY <1>4 DEF NewRevision, Higher
  <2> QED BY <1>6, <2>1 DEF WriterBelow, InTurn
<1>8. InTurn'
  BY <1>3, <1>5, <1>7 DEF InTurn, CopyIsRow, ScoreMatchesAnswers, Write
<1>9. ASSUME NEW p \in Questions, answer[p] # Blank, answer'[p] # answer[p]
      PROVE  writer'[p] > writer[p]
  <2>1. p = q
    BY <1>6, <1>9
  <2>2. request[r].answered
    BY <1>5, <1>9, <2>1
  <2>3. ~(request[r].rev <= request[r].seen)
    BY <2>2 DEF Write, IsStale
  <2>4. writer[p] \in Nat /\ revision[p] \in Nat /\ writer[p] <= revision[p]
    BY DEF InTurn, WriterBelow, TypeOK
  <2> QED BY <1>4, <1>5, <1>6, <2>1, <2>3, <2>4
<1> QED BY <1>8, <1>9

LEMMA EvaluateInTurn ==
    ASSUME TypeOK, InTurn, NEW w \in Workers, Evaluate(w), ~overlapped' PROVE InTurn'
<1>1. PICK s \in submitted : Judges(w, s)
  BY EvaluateJudges
<1>2. In("READ") = {} /\ In("READ")' = {}
  BY DEF Evaluate, In
<1>3. CopyIsRow' /\ (finalized => ~open)'
  BY <1>2 DEF CopyIsRow, InTurn, Evaluate
<1>4. WriterBelow'
  BY <1>1 DEF Judges, WriterBelow, InTurn, Evaluate, TypeOK
<1>5. ScoreMatchesAnswers'
  <2> SUFFICES ASSUME finalized, ~overlapped, NEW q \in Questions
               PROVE  scored[q] = answer'[q] \/ Source(q, answer'[q]) \in judged'
    BY DEF ScoreMatchesAnswers, Evaluate
  <2>1. CASE q = s.question
    BY <1>1, <2>1 DEF Judges, TypeOK
  <2>2. CASE q # s.question
    BY <1>1, <2>2 DEF InTurn, ScoreMatchesAnswers, Judges, TypeOK
  <2> QED BY <2>1, <2>2
<1> QED BY <1>3, <1>4, <1>5 DEF InTurn

LEMMA InTurnStep ==
    ASSUME TypeOK, InTurn, [Next]_vars, ~overlapped' PROVE InTurn'
<1> USE DEF InTurn, CopyIsRow, WriterBelow, ScoreMatchesAnswers
<1>1. ASSUME NEW q \in Questions, NEW c \in Contents, Edit(q, c)
      PROVE  InTurn'
  BY <1>1 DEF Edit, In
<1>2. ASSUME NEW r \in Requests, Send(r) PROVE InTurn'
  <2>1. In("READ")' = In("READ") /\ \A o \in In("READ") : request'[o] = request[o]
    BY <1>2 DEF Send, In, TypeOK, Idle
  <2> QED BY <1>2, <2>1 DEF Send
<1>3. ASSUME NEW r \in Requests, Adopt(r) PROVE InTurn'
  <2>1. In("READ")' = In("READ") /\ \A o \in In("READ") : request'[o] = request[o]
    BY <1>3 DEF Adopt, In, TypeOK, Idle
  <2> QED BY <1>3, <2>1 DEF Adopt
<1>4. ASSUME NEW r \in Requests, Read(r) PROVE InTurn'
  <2>1. request[r] \in RequestType
    BY <1>4 DEF Read, MayRead, In, TypeOK, Idle
  <2>2. In("READ") = {} /\ open
    BY <1>4 DEF Read, MayRead
  <2>3. In("READ")' = {r}
    BY <1>4, <2>1, <2>2 DEF Read, In, TypeOK, RequestType
  <2>4. /\ request'[r].question = request[r].question
        /\ request'[r].seen = revision[request[r].question]
        /\ request'[r].answered = (answer[request[r].question] # Blank)
    BY <1>4, <2>1 DEF Read, TypeOK, RequestType
  <2> QED BY <1>4, <2>2, <2>3, <2>4 DEF Read
<1>5. ASSUME NEW r \in Requests, Lose(r) \/ Refuse(r) \/ Stale(r)
      PROVE  InTurn'
  BY <1>5, FailInTurn DEF Lose, Refuse, Stale
<1>6. CASE Reload
  <2>1. ASSUME NEW o \in In("READ")'
        PROVE  o \in In("READ") /\ request'[o].seen = request[o].seen
               /\ request'[o].answered = request[o].answered
               /\ request'[o].question = request[o].question
    <3>1. o \in In("SENT") \cup In("READ")
      BY <1>6, <2>1 DEF Reload, In, Idle
    <3>2. request[o] \in RequestType
      BY <3>1 DEF In, TypeOK, Idle
    <3>3. request'[o] = [request[o] EXCEPT !.awaited = FALSE]
      BY <1>6, <3>1 DEF Reload, In
    <3> QED BY <2>1, <3>1, <3>2, <3>3 DEF In, RequestType
  <2> QED BY <1>6, <2>1 DEF Reload
<1>7. CASE Close
  <2>1. In("READ")' = {}
    BY <1>7 DEF Close, In
  <2> QED BY <1>7, <2>1 DEF Close
<1>8. CASE Finalize
  BY <1>8 DEF Finalize, In
<1>9. ASSUME NEW q \in Coding, Submit(q) PROVE InTurn'
  BY <1>9 DEF Submit, In
<1>10. ASSUME NEW s \in submitted, ShowResult(s) \/ GiveUp(s) PROVE InTurn'
  BY <1>10 DEF ShowResult, GiveUp, EndPoll, In
<1>11. CASE DropTimer \/ Load \/ Apply \/ UNCHANGED vars
  BY <1>11 DEF DropTimer, Load, Apply, vars, In
<1>12. ASSUME NEW w \in Workers, LoseWorker(w) \/ \E s \in submitted : Begin(w, s)
       PROVE  InTurn'
  BY <1>12 DEF LoseWorker, Begin, In
<1> QED BY <1>1, <1>2, <1>3, <1>4, <1>5, <1>6, <1>7, <1>8, <1>9, <1>10, <1>11, <1>12,
           WriteInTurn, EvaluateInTurn DEF Next

\* Once requests have overlapped, they have overlapped for ever.
LEMMA HistoryStays ==
    ASSUME TypeOK, [Next]_vars, overlapped PROVE overlapped'
<1>1. ASSUME NEW r \in Requests,
             Send(r) \/ Adopt(r) \/ Lose(r) \/ Refuse(r) \/ Stale(r) \/ Write(r)
      PROVE  overlapped'
  BY <1>1 DEF Send, Adopt, Lose, Refuse, Stale, Write, Fail
<1>2. ASSUME NEW r \in Requests, Read(r) PROVE overlapped'
  BY <1>2 DEF Read
<1>3. ASSUME NEW q \in Questions, NEW c \in Contents, Edit(q, c) PROVE overlapped'
  BY <1>3 DEF Edit
<1>4. ASSUME NEW q \in Coding, Submit(q) PROVE overlapped'
  BY <1>4 DEF Submit
<1>5. ASSUME NEW s \in submitted, ShowResult(s) \/ GiveUp(s) PROVE overlapped'
  BY <1>5 DEF ShowResult, GiveUp
<1>7. ASSUME NEW w \in Workers,
             Evaluate(w) \/ LoseWorker(w) \/ \E s \in submitted : Begin(w, s)
      PROVE  overlapped'
  BY <1>7 DEF Evaluate, LoseWorker, Begin
<1>6. CASE DropTimer \/ Load \/ Apply \/ Reload \/ Close \/ Finalize \/ UNCHANGED vars
  BY <1>6 DEF DropTimer, Load, Apply, Reload, Close, Finalize, vars
<1> QED BY <1>1, <1>2, <1>3, <1>4, <1>5, <1>6, <1>7 DEF Next

InTurnUntil == ~overlapped => InTurn

LEMMA InTurnInvariant == Spec => []InTurnUntil
<1>1. Init => InTurnUntil
  BY DEF Init, InTurnUntil, InTurn, CopyIsRow, WriterBelow, ScoreMatchesAnswers, In,
         Idle
<1>2. TypeOK /\ InTurnUntil /\ [Next]_vars => InTurnUntil'
  BY InTurnStep, HistoryStays DEF InTurnUntil
<1> QED BY <1>1, <1>2, Typing, PTL DEF Spec

(***************************************************************************)
(* Requests that do not overlap may arrive in any order: no answer is      *)
(* replaced by one with a lower client revision, except a blank one, and   *)
(* except by the end of an evaluation.  The step that writes an answer     *)
(* leaves the history alone.                                               *)
(***************************************************************************)
LEMMA AnswersChange ==
    ASSUME TypeOK, [Next]_vars, answer' # answer
    PROVE  (\E r \in Requests : Write(r)) \/ (\E w \in Workers : Evaluate(w))
<1>1. ASSUME NEW r \in Requests,
             Send(r) \/ Adopt(r) \/ Lose(r) \/ Read(r) \/ Refuse(r) \/ Stale(r)
      PROVE  FALSE
  BY <1>1 DEF Send, Adopt, Lose, Read, Refuse, Stale, Fail
<1>2. ASSUME NEW s \in submitted, ShowResult(s) \/ GiveUp(s) PROVE FALSE
  BY <1>2 DEF ShowResult, GiveUp
<1>3. ASSUME NEW q \in Coding, Submit(q) PROVE FALSE
  BY <1>3 DEF Submit
<1>4. ASSUME NEW q \in Questions, NEW c \in Contents, Edit(q, c) PROVE FALSE
  BY <1>4 DEF Edit
<1>5. CASE DropTimer \/ Load \/ Apply \/ Reload \/ Close \/ Finalize \/ UNCHANGED vars
  BY <1>5 DEF DropTimer, Load, Apply, Reload, Close, Finalize, vars
<1>6. ASSUME NEW w \in Workers, LoseWorker(w) \/ \E s \in submitted : Begin(w, s)
      PROVE  FALSE
  BY <1>6 DEF LoseWorker, Begin
<1> QED BY <1>1, <1>2, <1>3, <1>4, <1>5, <1>6 DEF Next

THEOREM Newest == Spec => NewestKept
<1> DEFINE Kept == \A q \in Questions :
          answer[q] # Blank /\ answer'[q] # answer[q] /\ ~overlapped =>
              \/ writer'[q] > writer[q]
              \/ \E w \in Evaluating \ Evaluating' : work[w] = Source(q, answer'[q])
<1>1. TypeOK /\ InTurnUntil /\ [Next]_vars => Kept
  <2> SUFFICES ASSUME TypeOK, InTurn, [Next]_vars, ~overlapped,
                      NEW q \in Questions, answer[q] # Blank, answer'[q] # answer[q]
               PROVE  \/ writer'[q] > writer[q]
                      \/ \E w \in Evaluating \ Evaluating' : work[w] = Source(q, answer'[q])
    BY DEF InTurnUntil
  <2>1. CASE \E r \in Requests : Write(r)
    BY <2>1, WriteInTurn
  <2>2. ASSUME NEW w \in Workers, Evaluate(w)
        PROVE  w \in Evaluating \ Evaluating' /\ work[w] = Source(q, answer'[q])
    <3>1. PICK s \in submitted : Judges(w, s)
      BY <2>2, EvaluateJudges
    <3>2. q = s.question /\ answer'[q] = s.content
      BY <3>1 DEF Judges, TypeOK
    <3>3. w \in Evaluating /\ w \notin Evaluating'
      BY <2>2, <3>1 DEF Judges, Evaluating, Evaluate, TypeOK
    <3> QED BY <3>1, <3>2, <3>3 DEF Judges
  <2> QED BY <2>1, <2>2, AnswersChange
<1> QED BY <1>1, Typing, InTurnInvariant, PTL DEF Spec, NewestKept

(***************************************************************************)
(* Requests that do not overlap leave a finalized result in agreement with *)
(* the stored answers, but for the sources that were judged too late.      *)
(***************************************************************************)
THEOREM ScoreStands == Spec => []ScoreMatchesAnswers
<1>1. InTurnUntil => ScoreMatchesAnswers
  BY DEF InTurnUntil, InTurn, ScoreMatchesAnswers
<1> QED BY <1>1, InTurnInvariant, PTL

-------------------------------------------------------------------------------
(***************************************************************************)
(* While the page has never strayed it has one request at most, and that   *)
(* request carries a revision above the row's unless an evaluation stored  *)
(* the answer meanwhile: then the row keeps the submitted source until the *)
(* page's counter has caught up.                                           *)
(***************************************************************************)
OnWay == In("SENT") \cup In("READ")

\* The answer, and what the page shows, is the source of a SUBMIT that was judged.
Stored(q) == Source(q, answer[q]) \in judged
Shown(q) == Source(q, screen[q]) \in judged

\* What a request that is not answered yet has to do with the page and the row.
Carries(r) ==
    LET q == request[r].question IN
    /\ request[r].awaited
    /\ request[r].rev = clientRev[q]
    /\ request[r].content = screen[q] \/ timer = q \/ Shown(q)
    /\ r \in In("SENT") => revision[q] < request[r].rev \/ Stored(q)
    /\ r \in In("READ") => \/ request[r].seen < request[r].rev
                           \/ request[r].answered /\ Stored(q)

OneRequest == \A r, o \in Requests : request[r] # Idle /\ request[o] # Idle => r = o

\* A question with no request on its way.
Follows(q) ==
    /\ clientRev[q] = revision[q] \/ Stored(q)
    /\ answer[q] = screen[q] \/ timer = q \/ Stored(q) \/ Shown(q)

Tracked ==
    /\ OneRequest
    /\ \A r \in OnWay : Carries(r)
    /\ \A r \in In("SAVED") : request[r].rev = clientRev[request[r].question]
    /\ timer # Nothing => draft = screen[timer] \/ Shown(timer)
    /\ \A q \in Questions : Follows(q) \/ \E r \in OnWay : request[r].question = q

\* No request is under way, or this one is the only one.
LEMMA Alone ==
    ASSUME TypeOK, Tracked, NEW r \in Requests, request[r] # Idle
    PROVE  /\ request[r] \in RequestType
           /\ \A o \in Requests : o # r => request[o] = Idle /\ o \notin OnWay \cup In("SAVED")
BY DEF TypeOK, Tracked, OneRequest, OnWay, In, Idle

\* An answer that an evaluation stored is not blank.
LEMMA StoredAnswered ==
    ASSUME TypeOK, NEW q \in Questions, Stored(q) PROVE answer[q] # Blank
<1>1. Source(q, answer[q]) \in SubmissionType
  BY DEF TypeOK, Stored
<1> QED BY <1>1 DEF SubmissionType, Source

LEMMA SendTracked ==
    ASSUME TypeOK, Tracked, NEW r \in Requests, Send(r), ~strayed' PROVE Tracked'
<1>1. PICK q \in Questions : q = timer
  BY DEF Send, TypeOK
<1>2. \A o \in Requests : request[o] = Idle
  BY DEF Send
<1>3. OnWay = {} /\ In("SAVED") = {}
  BY <1>2 DEF OnWay, In, Idle
<1>4. /\ clientRev[q] = revision[q] \/ Stored(q)
      /\ clientRev[q] \in Nat /\ revision[q] \in Nat
      /\ draft = screen[q] \/ Shown(q)
  BY <1>1, <1>3 DEF Tracked, Follows, TypeOK
<1>5. /\ request' = [request EXCEPT ![r] =
                       [phase |-> "SENT", question |-> q, content |-> draft,
                        rev |-> clientRev[q] + 1, seen |-> 0, answered |-> FALSE,
                        awaited |-> TRUE]]
      /\ clientRev' = [clientRev EXCEPT ![q] = clientRev[q] + 1] /\ timer' = Nothing
      /\ UNCHANGED <<screen, draft, answer, revision, judged>>
  BY <1>1 DEF Send, NextRev
<1>6. /\ request'[r].phase = "SENT" /\ request'[r].question = q /\ request'[r].content = draft
      /\ request'[r].rev = clientRev[q] + 1 /\ request'[r].awaited
      /\ \A o \in Requests : o # r => request'[o] = Idle
  BY <1>2, <1>5 DEF TypeOK
<1>7. In("SENT")' = {r} /\ In("READ")' = {} /\ In("SAVED")' = {}
  BY <1>6 DEF In, Idle
<1>8. Carries(r)'
  BY <1>4, <1>5, <1>6, <1>7 DEF Carries, TypeOK, Stored, Shown
<1>9. \A p \in Questions : p # q => Follows(p)'
  <2>1. \A p \in Questions : p # q => clientRev'[p] = clientRev[p] /\ timer # p
    BY <1>1, <1>5 DEF TypeOK
  <2> QED BY <1>3, <1>5, <2>1 DEF Tracked, Follows, Stored, Shown
<1>10. OneRequest'
  BY <1>6 DEF OneRequest
<1> QED BY <1>5, <1>6, <1>7, <1>8, <1>9, <1>10 DEF Tracked, OnWay

LEMMA ReadTracked ==
    ASSUME TypeOK, Tracked, NEW r \in Requests, Read(r) PROVE Tracked'
<1>1. r \in In("SENT") /\ r \in OnWay /\ request[r] # Idle
  BY DEF Read, MayRead, OnWay, In, Idle
<1>2. PICK m \in RequestType : m = request[r]
  BY <1>1, Alone
<1>3. PICK q \in Questions : q = m.question
  BY DEF RequestType
<1>4. /\ request' = [request EXCEPT ![r] = [m EXCEPT !.phase = "READ", !.seen = revision[q],
                                               !.answered = answer[q] # Blank]]
      /\ UNCHANGED <<answer, revision, judged, screen, timer, draft, clientRev>>
  BY <1>2, <1>3 DEF Read, TypeOK, RequestType
<1>5. /\ request'[r].phase = "READ" /\ request'[r].question = q /\ request'[r].seen = revision[q]
      /\ request'[r].rev = m.rev /\ request'[r].content = m.content
      /\ request'[r].answered = (answer[q] # Blank)
      /\ request'[r].awaited = m.awaited
      /\ \A o \in Requests : o # r => request'[o] = Idle
  BY <1>1, <1>2, <1>3, <1>4, Alone DEF TypeOK, RequestType
<1>6. In("READ")' = {r} /\ In("SENT")' = {} /\ In("SAVED")' = {} /\ OnWay = {r}
  BY <1>1, <1>5, Alone DEF In, Idle, OnWay
<1>7. revision[q] < m.rev \/ (answer[q] # Blank /\ Stored(q))
  BY <1>1, <1>2, <1>3, StoredAnswered DEF Tracked, Carries
<1>8. Carries(r)'
  <2>1. /\ m.awaited /\ m.rev = clientRev[q]
        /\ m.content = screen[q] \/ timer = q \/ Shown(q)
    BY <1>1, <1>2, <1>3 DEF Tracked, Carries
  <2>2. (Shown(q) => Shown(q)') /\ (Stored(q) => Stored(q)')
    BY <1>4 DEF Shown, Stored
  <2>3. request'[r].seen < request'[r].rev \/ (request'[r].answered /\ Stored(q)')
    BY <1>5, <1>7, <2>2
  <2> QED BY <1>4, <1>5, <1>6, <2>1, <2>2, <2>3 DEF Carries
<1>9. \A p \in Questions : p # q => Follows(p)'
  BY <1>2, <1>3, <1>4, <1>6 DEF Tracked, Follows, Stored, Shown
<1>10. OneRequest'
  BY <1>5 DEF OneRequest
<1> QED BY <1>4, <1>5, <1>6, <1>8, <1>9, <1>10 DEF Tracked, OnWay, Shown

LEMMA StaleTracked ==
    ASSUME TypeOK, Tracked, NEW r \in Requests, Stale(r) PROVE Tracked'
<1>1. r \in In("READ") /\ r \in OnWay /\ request[r] # Idle
  BY DEF Stale, OnWay, In, Idle
<1>2. PICK q \in Questions : q = request[r].question
  BY <1>1, Alone DEF RequestType
<1>3. /\ \A o \in Requests : request'[o] = Idle
      /\ UNCHANGED <<answer, revision, judged, screen, timer, draft, clientRev>>
  BY <1>1, Alone DEF Stale, Fail, TypeOK
<1>4. OnWay = {r} /\ OnWay' = {} /\ In("SAVED")' = {}
  BY <1>1, <1>3, Alone DEF OnWay, In, Idle
<1>5. Stored(q)
  <2>1. request[r].rev <= request[r].seen
    BY DEF Stale, IsStale
  <2>2. request[r].rev \in Nat /\ request[r].seen \in Nat
    BY <1>1, Alone DEF RequestType
  <2> QED BY <1>1, <1>2, <2>1, <2>2 DEF Tracked, Carries
<1>6. \A p \in Questions : Follows(p)'
  BY <1>2, <1>3, <1>4, <1>5 DEF Tracked, Follows, Stored, Shown
<1> QED BY <1>3, <1>4, <1>6 DEF Tracked, OneRequest, Shown

LEMMA WriteTracked ==
    ASSUME TypeOK, Tracked, NEW r \in Requests, Write(r) PROVE Tracked'
<1>1. r \in In("READ") /\ r \in OnWay /\ request[r] # Idle
  BY DEF Write, OnWay, In, Idle
<1>2. PICK m \in RequestType : m = request[r]
  BY <1>1, Alone
<1>3. PICK q \in Questions : q = m.question
  BY DEF RequestType
<1>4. /\ m.awaited /\ m.rev = clientRev[q]
      /\ m.seen < m.rev \/ m.answered
      /\ m.content = screen[q] \/ timer = q \/ Shown(q)
      /\ m.rev \in Nat /\ m.seen \in Nat
  BY <1>1, <1>2, <1>3 DEF Tracked, Carries, RequestType
<1>5. NewRevision(r) = m.rev
  <2>1. m.seen < m.rev
    BY <1>2, <1>4 DEF Write, IsStale
  <2> QED BY <1>2, <1>4, <2>1 DEF NewRevision, Higher
<1>6. /\ answer' = [answer EXCEPT ![q] = m.content]
      /\ revision' = [revision EXCEPT ![q] = m.rev]
      /\ request' = [request EXCEPT ![r] = [m EXCEPT !.phase = "SAVED", !.rev = m.rev, !.seen = 0,
                                               !.answered = FALSE]]
      /\ UNCHANGED <<screen, timer, draft, clientRev, judged>>
  BY <1>2, <1>3, <1>4, <1>5 DEF Write, TypeOK
<1>7. /\ request'[r].phase = "SAVED" /\ request'[r].question = q /\ request'[r].rev = m.rev
      /\ \A o \in Requests : o # r => request'[o] = Idle
  BY <1>1, <1>3, <1>6, Alone DEF TypeOK, RequestType
<1>8. In("READ")' = {} /\ In("SENT")' = {} /\ In("SAVED")' = {r} /\ OnWay = {r}
  BY <1>1, <1>7, Alone DEF In, Idle, OnWay
<1>9. /\ revision'[q] = m.rev /\ answer'[q] = m.content
      /\ \A p \in Questions : p # q => revision'[p] = revision[p] /\ answer'[p] = answer[p]
  BY <1>6 DEF TypeOK
<1>10. Follows(q)'
  BY <1>4, <1>6, <1>9 DEF Follows, Shown
<1>11. \A p \in Questions : p # q => Follows(p)'
  BY <1>2, <1>3, <1>6, <1>8, <1>9 DEF Tracked, Follows, Stored, Shown
<1>12. OneRequest'
  BY <1>7 DEF OneRequest
<1> QED BY <1>4, <1>6, <1>7, <1>8, <1>10, <1>11, <1>12 DEF Tracked, OnWay, Shown

\* The end of an evaluation stores a source, so that nothing is claimed of the row.
LEMMA EvaluateTracked ==
    ASSUME TypeOK, Tracked, NEW w \in Workers, Evaluate(w) PROVE Tracked'
<1>0. PICK s \in submitted : Judges(w, s)
  BY EvaluateJudges
<1>1. PICK q \in Questions : q = s.question
  BY <1>0 DEF Judges
<1>2. /\ UNCHANGED <<screen, timer, draft, clientRev, request>> /\ judged \subseteq judged'
      /\ \A p \in Questions : p # q => answer'[p] = answer[p] /\ revision'[p] = revision[p]
  BY <1>0, <1>1 DEF Evaluate, Judges, TypeOK
<1>3. Stored(q)'
  BY <1>0, <1>1 DEF Judges, Stored, TypeOK
<1>4. \A p \in Questions : (Stored(p) => Stored(p)') /\ (Shown(p) => Shown(p)')
  BY <1>2, <1>3 DEF Stored, Shown
<1>5. OnWay' = OnWay /\ \A x \in {"SENT", "READ", "SAVED"} : In(x)' = In(x)
  BY <1>2 DEF OnWay, In
<1>6. ASSUME NEW r \in OnWay PROVE Carries(r)'
  <2>1. request[r].question \in Questions
    BY DEF OnWay, In, TypeOK, RequestType, Idle
  <2> QED BY <1>2, <1>3, <1>4, <1>5, <2>1 DEF Tracked, Carries
<1>7. \A p \in Questions : Follows(p) => Follows(p)'
  BY <1>2, <1>3, <1>4 DEF Follows
<1>8. timer # Nothing => timer \in Questions
  BY DEF TypeOK
<1> QED BY <1>2, <1>4, <1>5, <1>6, <1>7, <1>8 DEF Tracked, OneRequest

\* A source that was judged may come back to the screen.
LEMMA ShowTracked ==
    ASSUME TypeOK, Tracked, NEW s \in submitted, ShowResult(s) PROVE Tracked'
<1>1. PICK q \in Questions : q = s.question
  BY SourceOf DEF TypeOK
<1>2. /\ UNCHANGED <<answer, revision, judged, timer, draft, clientRev, request>>
      /\ \A p \in Questions : p # q => screen'[p] = screen[p]
  BY <1>1 DEF ShowResult, EndPoll, TypeOK
<1>3. Shown(q)'
  BY <1>1, SourceOf DEF ShowResult, Shown, TypeOK
<1>4. \A p \in Questions : (Stored(p) => Stored(p)') /\ (Shown(p) => Shown(p)')
  BY <1>2, <1>3 DEF Stored, Shown
<1>5. OnWay' = OnWay /\ \A x \in {"SENT", "READ", "SAVED"} : In(x)' = In(x)
  BY <1>2 DEF OnWay, In
<1>6. ASSUME NEW r \in OnWay PROVE Carries(r)'
  <2>1. request[r].question \in Questions
    BY DEF OnWay, In, TypeOK, RequestType, Idle
  <2> QED BY <1>2, <1>3, <1>4, <1>5, <2>1 DEF Tracked, Carries
<1>7. \A p \in Questions : Follows(p) => Follows(p)'
  BY <1>2, <1>3, <1>4 DEF Follows
<1>8. timer # Nothing => timer \in Questions
  BY DEF TypeOK
<1> QED BY <1>2, <1>3, <1>4, <1>5, <1>6, <1>7, <1>8 DEF Tracked, OneRequest

LEMMA EditTracked ==
    ASSUME TypeOK, Tracked, NEW q \in Questions, NEW c \in Contents, Edit(q, c), ~strayed'
    PROVE  Tracked'
<1>1. /\ timer \in {q, Nothing} /\ timer' = q /\ draft' = c
      /\ screen' = [screen EXCEPT ![q] = c]
      /\ UNCHANGED <<answer, revision, clientRev, request, judged>>
  BY DEF Edit
<1>2. screen'[q] = c /\ \A p \in Questions : p # q => timer # p /\ screen'[p] = screen[p]
  BY <1>1 DEF TypeOK
<1>3. OnWay' = OnWay /\ \A x \in {"SENT", "READ", "SAVED"} : In(x)' = In(x)
  BY <1>1 DEF OnWay, In
<1>4. ASSUME NEW r \in OnWay PROVE Carries(r)'
  <2>1. request[r].question \in Questions
    BY DEF OnWay, In, TypeOK, RequestType, Idle
  <2> QED BY <1>1, <1>2, <1>3, <2>1 DEF Tracked, Carries, Stored, Shown
<1>5. \A p \in Questions : Follows(p) => Follows(p)'
  BY <1>1, <1>2 DEF Follows, Stored, Shown
<1> QED BY <1>1, <1>2, <1>3, <1>4, <1>5 DEF Tracked, OneRequest

LEMMA AdoptTracked ==
    ASSUME TypeOK, Tracked, NEW r \in Requests, Adopt(r) PROVE Tracked'
<1>1. r \in In("SAVED") /\ request[r] # Idle
  BY DEF Adopt, In, Idle
<1>2. PICK q \in Questions : q = request[r].question
  BY <1>1, Alone DEF RequestType
<1>3. \A o \in Requests : request'[o] = Idle
  BY <1>1, Alone DEF Adopt, TypeOK
<1>4. OnWay = {} /\ OnWay' = {} /\ In("SAVED")' = {}
  BY <1>1, <1>3, Alone DEF OnWay, In, Idle
<1>5. clientRev' = clientRev
  BY <1>1, <1>2 DEF Adopt, TypeOK, Tracked
<1>6. UNCHANGED <<answer, revision, judged, screen, timer, draft>>
  BY DEF Adopt
<1>7. \A p \in Questions : Follows(p)'
  BY <1>4, <1>5, <1>6 DEF Tracked, Follows, Stored, Shown
<1> QED BY <1>3, <1>4, <1>6, <1>7 DEF Tracked, OneRequest, Shown

\* A page that is loaded when nothing is under way agrees with the server.
LEMMA LoadedTracked ==
    ASSUME screen' = answer', clientRev' = revision', timer' = Nothing,
           \A r \in Requests : request'[r] = Idle
    PROVE  Tracked'
<1>1. OnWay' = {} /\ In("SAVED")' = {}
  BY DEF OnWay, In, Idle
<1> QED BY <1>1 DEF Tracked, OneRequest, Follows

LEMMA TrackedStep ==
    ASSUME TypeOK, Tracked, open', ~strayed', [Next]_vars PROVE Tracked'
<1>1. ASSUME NEW r \in Requests, Lose(r) \/ Refuse(r) PROVE FALSE
  BY <1>1 DEF Lose, Refuse, Fail
<1>2. CASE Close \/ DropTimer
  BY <1>2 DEF Close, DropTimer
<1>3. CASE Reload
  <2>1. \A r \in Requests : request'[r] = Idle
    BY <1>3 DEF Reload
  <2> QED BY <1>3, <2>1, LoadedTracked DEF Reload
<1>4. CASE Apply
  <2>1. ~Unsettled /\ detail = [answer |-> answer, revision |-> revision]
    BY <1>4 DEF Apply
  <2> QED BY <1>4, <2>1, LoadedTracked DEF Apply, Unsettled
<1>5. ASSUME \/ \E q \in Coding : Submit(q)
             \/ \E s \in submitted : GiveUp(s)
             \/ \E w \in Workers : LoseWorker(w) \/ \E s \in submitted : Begin(w, s)
             \/ Load \/ Finalize \/ UNCHANGED vars
      PROVE  Tracked'
  <2>1. UNCHANGED <<answer, revision, judged, screen, timer, draft, clientRev, request>>
    BY <1>5 DEF Submit, GiveUp, EndPoll, LoseWorker, Begin, Load, Finalize, vars
  <2>2. OnWay' = OnWay /\ \A x \in {"SENT", "READ", "SAVED"} : In(x)' = In(x)
    BY <2>1 DEF OnWay, In
  <2>3. \A q : (Stored(q)' <=> Stored(q)) /\ (Shown(q)' <=> Shown(q))
    BY <2>1 DEF Stored, Shown
  <2>4. \A r \in OnWay : Carries(r)' <=> Carries(r)
    BY <2>1, <2>2, <2>3 DEF Carries
  <2>5. \A q \in Questions : Follows(q)' <=> Follows(q)
    BY <2>1, <2>3 DEF Follows
  <2> QED BY <2>1, <2>2, <2>3, <2>4, <2>5 DEF Tracked, OneRequest
<1> QED BY <1>1, <1>2, <1>3, <1>4, <1>5, EditTracked, SendTracked, ReadTracked, StaleTracked,
           WriteTracked, AdoptTracked, EvaluateTracked, ShowTracked DEF Next

\* What has strayed stays so, and a closed attempt stays closed.
LEMMA StrayedStays ==
    ASSUME TypeOK, [Next]_vars PROVE (strayed => strayed') /\ (~open => ~open')
<1> DEFINE Stays == (strayed => strayed') /\ (~open => ~open')
<1>1. ASSUME NEW q \in Questions, NEW c \in Contents, Edit(q, c) PROVE Stays
  BY <1>1 DEF Edit
<1>2. ASSUME NEW r \in Requests, Lose(r) \/ Refuse(r) \/ Stale(r) \/ Send(r) PROVE Stays
  <2>1. CASE Send(r)
    BY <2>1 DEF Send
  <2>2. CASE Lose(r) \/ Refuse(r) \/ Stale(r)
    BY <2>2 DEF Lose, Refuse, Stale, Fail
  <2> QED BY <1>2, <2>1, <2>2
<1>3. ASSUME NEW r \in Requests, Adopt(r) \/ Read(r) \/ Write(r) PROVE Stays
  BY <1>3 DEF Adopt, Read, Write
<1>4. ASSUME NEW q \in Coding, Submit(q) PROVE Stays
  BY <1>4 DEF Submit
<1>5. ASSUME NEW s \in submitted, ShowResult(s) \/ GiveUp(s) PROVE Stays
  BY <1>5 DEF ShowResult, GiveUp
<1>9. ASSUME NEW w \in Workers,
             Evaluate(w) \/ LoseWorker(w) \/ \E s \in submitted : Begin(w, s)
      PROVE  Stays
  BY <1>9 DEF Evaluate, LoseWorker, Begin
<1>6. CASE DropTimer \/ Load \/ Close \/ Finalize \/ UNCHANGED vars
  BY <1>6 DEF DropTimer, Load, Close, Finalize, vars
<1>7. CASE Apply
  BY <1>7 DEF Apply
<1>8. CASE Reload
  BY <1>8 DEF Reload
<1> QED BY <1>1, <1>2, <1>3, <1>4, <1>5, <1>6, <1>7, <1>8, <1>9 DEF Next

TrackedUntil == ~strayed /\ open => Tracked

\* Saved means saved: an open attempt whose page has nothing scheduled and
\* nothing under way, and has not strayed, shows the answers the server has, or
\* one of the two is a source whose evaluation has ended.
THEOREM Settled == Spec => []SettledSaved
<1>1. Init => TrackedUntil
  BY DEF Init, TrackedUntil, Tracked, OneRequest, Follows, OnWay, In, Idle
<1>2. TypeOK /\ TrackedUntil /\ [Next]_vars => TrackedUntil'
  BY TrackedStep, StrayedStays DEF TrackedUntil
<1>3. TypeOK /\ TrackedUntil => SettledSaved
  <2> SUFFICES ASSUME TypeOK, TrackedUntil, ~strayed, open, Quiet, NEW q \in Questions
               PROVE  answer[q] = screen[q] \/ Stored(q) \/ Shown(q)
    BY DEF SettledSaved, Stored, Shown
  <2>1. OnWay = {} /\ timer = Nothing
    BY DEF Quiet, Unsettled, OnWay, In, Idle
  <2> QED BY <2>1 DEF TrackedUntil, Tracked, Follows
<1> QED BY <1>1, <1>2, <1>3, Typing, PTL DEF Spec

================================================================================
