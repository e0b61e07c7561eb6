----------------------- MODULE ResultFinalization_proofs -----------------------
(* Theorems about ResultFinalization, for any number of students, attempts,    *)
(* questions and processes.                                                    *)
EXTENDS ResultFinalization, FiniteSetTheorems, TLAPS

USE NumberAssumption, QuestionAssumption, ReplyAssumption, BrokerAssumption

(***************************************************************************)
(* What finalize_attempt computes.                                         *)
(***************************************************************************)
ResultType == [marks : [Questions -> Marks], score : Nat, final : BOOLEAN]

LEMMA AttemptPair ==
    ASSUME NEW a \in Attempts
    PROVE  StudentOf(a) \in Students /\ a[2] \in 1..MaxAttempts /\ a = <<StudentOf(a), a[2]>>
BY DEF Attempts, StudentOf

LEMMA ScoreNatural ==
    ASSUME NEW marks
    PROVE  Score(marks) \in Nat
<1>1. \A m : NumberOf(marks, m) \in Nat
  <2> TAKE m
  <2>1. IsFiniteSet({q \in Questions : marks[q] = m})
    BY FS_Subset, {q \in Questions : marks[q] = m} \subseteq Questions
  <2> QED BY <2>1, FS_CardinalityType DEF NumberOf
<1> DEFINE c == NumberOf(marks, "correct")
           h == NumberOf(marks, "partial")
           w == NumberOf(marks, "incorrect")
           half == Points \div 2
<1>2. c \in Nat /\ h \in Nat /\ w \in Nat /\ half \in Nat
  BY <1>1
<1> HIDE DEF c, h, w, half
<1>3. Points * c \in Nat /\ half * h \in Nat /\ Penalty * w \in Nat
  BY <1>2
<1>4. Points * c + half * h - Penalty * w \in Int
  BY <1>3
<1>5. Score(marks) = IF Points * c + half * h - Penalty * w < 0 THEN 0
                     ELSE Points * c + half * h - Penalty * w
  BY DEF Score, c, h, w, half
<1> QED BY <1>4, <1>5

LEMMA ResultTyped ==
    ASSUME NEW a \in Attempts
    PROVE  ResultOf(a) \in ResultType /\ ResultOf(a).final
<1>1. [q \in Questions |-> MarkOf(reply[a][q])] \in [Questions -> Marks]
  BY DEF MarkOf, Marks
<1> QED BY <1>1, ScoreNatural DEF ResultOf, ResultType

LEMMA NoResultTyped == NoResult \in ResultType
BY DEF NoResult, ResultType, Marks

LEMMA RecordTyped ==
    ASSUME NEW a \in Attempts, NEW end \in Statuses
    PROVE  Record(a, end) \in [number : 0..MaxAttempts, score : Nat, completion : Statuses]
BY ResultTyped, AttemptPair DEF Record, ResultType

(***************************************************************************)
(* Type correctness, in the groups of variables of the module.             *)
(***************************************************************************)
AttemptTyped ==
    /\ begun \in [Students -> 0..MaxAttempts]
    /\ status \in [Attempts -> Statuses]
    /\ disqualified \in [Attempts -> BOOLEAN] /\ submitted \in [Attempts -> BOOLEAN]

ReplyTyped == reply \in [Attempts -> [Questions -> {"blank"} \cup Replies \cup Verdicts]]

TaskTyped ==
    /\ dispatches \subseteq Kinds \X Attempts /\ messages \subseteq Message
    /\ forgotten \subseteq Attempts /\ faults \in Nat

ResultVarsTyped ==
    /\ result \in [Attempts -> ResultType]
    /\ coins \subseteq Attempts \X Questions
    /\ summary \in [Students -> [number : 0..MaxAttempts, score : Nat, completion : Statuses]]
    /\ bound \subseteq Attempts

CertificateTyped ==
    certificate \in [Students -> [number : 0..MaxAttempts, pdf : BOOLEAN,
                                  status : {"NONE", "PENDING", "ISSUED", "FAILED"}]]

MakerTyped ==
    maker \in [Makers -> [step : {"idle"}, number : {0}]
                    \cup [step : {"create"}, attempt : Attempts]
                    \cup [step : {"render"}, student : Students]]

LEMMA TypeParts ==
    TypeOK <=> AttemptTyped /\ ReplyTyped /\ TaskTyped /\ ResultVarsTyped
               /\ CertificateTyped /\ MakerTyped
BY DEF TypeOK, AttemptTyped, ReplyTyped, TaskTyped, ResultVarsTyped, CertificateTyped,
       MakerTyped, ResultType

LEMMA TypePartsNext ==
    TypeOK' <=> AttemptTyped' /\ ReplyTyped' /\ TaskTyped' /\ ResultVarsTyped'
                /\ CertificateTyped' /\ MakerTyped'
BY DEF TypeOK, AttemptTyped, ReplyTyped, TaskTyped, ResultVarsTyped, CertificateTyped,
       MakerTyped, ResultType

LEMMA InitTyped == Init => TypeOK
<1> SUFFICES ASSUME Init PROVE TypeOK
  OBVIOUS
<1>1. AttemptTyped /\ ReplyTyped /\ TaskTyped
  BY DEF Init, AttemptTyped, ReplyTyped, TaskTyped, Statuses
<1>2. ResultVarsTyped
  BY NoResultTyped DEF Init, ResultVarsTyped, NoSummary, Statuses
<1>3. CertificateTyped /\ MakerTyped
  BY DEF Init, CertificateTyped, MakerTyped, NoCertificate, Idle
<1> QED BY <1>1, <1>2, <1>3, TypeParts

LEMMA FinalizeTyped ==
    ASSUME TypeOK, NEW a \in Attempts, NEW end \in Statuses, Finalize(a, end)
    PROVE  ResultVarsTyped' /\ faults' \in Nat
<1>1. CASE AlreadyFinal(a) /\ UNCHANGED <<resultVars, faults>>
  BY <1>1, TypeParts DEF resultVars, ResultVarsTyped, TaskTyped
<1>2. CASE ~AlreadyFinal(a) /\ result' = [result EXCEPT ![a] = ResultOf(a)]
  <2>1. /\ coins' = coins \cup CoinsOf(a)
        /\ summary' = [summary EXCEPT ![StudentOf(a)] = Record(a, end)]
        /\ BindRetention(a)
    BY <1>2 DEF Finalize, AlreadyFinal
  <2>2. result' \in [Attempts -> ResultType]
    BY <1>2, ResultTyped, TypeParts DEF ResultVarsTyped
  <2>3. coins' \subseteq Attempts \X Questions
    BY <2>1, TypeParts DEF CoinsOf, ResultVarsTyped
  <2>4. summary' \in [Students -> [number : 0..MaxAttempts, score : Nat, completion : Statuses]]
    BY <2>1, RecordTyped, AttemptPair, TypeParts DEF ResultVarsTyped
  <2>5. bound' \subseteq Attempts /\ faults' \in Nat
    BY <2>1, TypeParts DEF BindRetention, ResultVarsTyped, TaskTyped
  <2> QED BY <2>2, <2>3, <2>4, <2>5 DEF ResultVarsTyped
<1> QED BY <1>1, <1>2 DEF Finalize

LEMMA AgainTyped ==
    ASSUME NEW m \in Message
    PROVE  Again(m) \subseteq Message
BY DEF Again, Message

LEMMA StudentTyped ==
    ASSUME TypeOK, NEW s \in Students, StudentStep(s)
    PROVE  TypeOK'
<1> USE TypeParts, TypePartsNext
<1>0. \A n \in 1..MaxAttempts : <<s, n>> \in Attempts
  BY DEF Attempts
<1>1. CASE Begin(s)
  <2>0. <<s, begun[s] + 1>> \in Attempts /\ begun[s] + 1 \in 0..MaxAttempts
    BY <1>1 DEF Begin, AttemptTyped, Attempts
  <2>1. AttemptTyped'
    BY <1>1, <2>0 DEF Begin, AttemptTyped, Statuses
  <2> QED BY <1>1, <2>1 DEF Begin, ReplyTyped, TaskTyped, ResultVarsTyped, CertificateTyped,
        MakerTyped, taskVars, resultVars, certificateVars
<1>2. ASSUME NEW n \in 1..MaxAttempts, Submit(<<s, n>>) PROVE TypeOK'
  <2>1. AttemptTyped' /\ TaskTyped'
    BY <1>0, <1>2 DEF Submit, AttemptTyped, TaskTyped, Statuses
  <2> QED BY <1>2, <2>1 DEF Submit, ReplyTyped, ResultVarsTyped, CertificateTyped,
        MakerTyped, resultVars, certificateVars
<1>3. ASSUME NEW n \in 1..MaxAttempts, View(<<s, n>>) PROVE TypeOK'
  <2>1. status[<<s, n>>] \in Statuses
    BY <1>0 DEF AttemptTyped
  <2>2. ResultVarsTyped' /\ faults' \in Nat
    BY <1>0, <1>3, <2>1, FinalizeTyped DEF View
  <2> QED BY <1>3, <2>2 DEF View, AttemptTyped, ReplyTyped, TaskTyped, CertificateTyped,
        MakerTyped, attemptVars, certificateVars
<1>4. ASSUME NEW n \in 1..MaxAttempts, NEW outcome \in {"EXPIRED", "CANCELLED"},
             CloseSilently(<<s, n>>, outcome)
      PROVE  TypeOK'
  <2>1. AttemptTyped' /\ TaskTyped'
    BY <1>0, <1>4 DEF CloseSilently, AttemptTyped, TaskTyped, Statuses
  <2> QED BY <1>4, <2>1 DEF CloseSilently, ReplyTyped, ResultVarsTyped, CertificateTyped,
        MakerTyped, resultVars, certificateVars
<1>5. ASSUME NEW n \in 1..MaxAttempts, NEW q \in Questions, NEW r \in Replies \cup Verdicts,
             Reply(<<s, n>>, q, r) \/ Judge(<<s, n>>, q, r)
      PROVE  TypeOK'
  <2>1. ReplyTyped'
    <3>1. CASE reply' = [reply EXCEPT ![<<s, n>>][q] = r]
      BY <1>0, <3>1 DEF ReplyTyped
    <3> QED BY <1>5, <3>1 DEF Reply, Judge
  <2> QED BY <1>5, <2>1 DEF Reply, Judge, AttemptTyped, TaskTyped, ResultVarsTyped,
        CertificateTyped, MakerTyped, attemptVars, taskVars, resultVars, certificateVars
<1> QED BY <1>1, <1>2, <1>3, <1>4, <1>5 DEF StudentStep

LEMMA MessageTyped ==
    ASSUME TypeOK, NEW m \in messages, ResultTask(m) \/ TaskFails(m) \/ TaskLost(m)
    PROVE  TypeOK'
<1> USE TypeParts, TypePartsNext
<1>0. m \in Message /\ m.attempt \in Attempts /\ status[m.attempt] \in Statuses
  BY DEF TaskTyped, Message, AttemptTyped
<1>1. CASE ResultTask(m)
  <2>1. ResultVarsTyped' /\ faults' \in Nat
    BY <1>0, <1>1, FinalizeTyped DEF ResultTask
  <2> QED BY <1>1, <2>1 DEF ResultTask, AttemptTyped, ReplyTyped, TaskTyped, CertificateTyped,
        MakerTyped, attemptVars, certificateVars
<1>2. CASE TaskFails(m) \/ TaskLost(m)
  <2>1. TaskTyped'
    BY <1>0, <1>2, AgainTyped DEF TaskFails, TaskLost, TaskTyped
  <2> QED BY <1>2, <2>1 DEF TaskFails, TaskLost, AttemptTyped, ReplyTyped, ResultVarsTyped,
        CertificateTyped, MakerTyped, attemptVars, resultVars, certificateVars
<1> QED BY <1>1, <1>2

LEMMA ServerTyped ==
    ASSUME TypeOK, NEW a \in Attempts,
           \/ Dispatch(a) \/ LoseDispatch(a)
           \/ \E strike \in BOOLEAN, sent \in BrokerOutcomes : Cancel(a, strike, sent)
    PROVE  TypeOK'
<1> USE TypeParts, TypePartsNext
<1>0. /\ status[a] \in Statuses /\ "CANCELLED" \in Statuses
      /\ [kind |-> "result", attempt |-> a, retry |-> 0] \in Message
  BY DEF AttemptTyped, Statuses, Message, Kinds
<1>1. ASSUME NEW sent \in BrokerOutcomes, DispatchResult(a, sent) PROVE TypeOK'
  <2>1. ResultVarsTyped' /\ TaskTyped'
    <3>1. CASE Finalize(a, status[a])
      <4>1. ResultVarsTyped' /\ faults' \in Nat
        BY <1>0, <3>1, FinalizeTyped
      <4> QED BY <1>0, <1>1, <4>1 DEF DispatchResult, TaskTyped
    <3>2. CASE ~Finalize(a, status[a])
      BY <1>0, <1>1, <3>2 DEF DispatchResult, TaskTyped, ResultVarsTyped, resultVars
    <3> QED BY <3>1, <3>2
  <2> QED BY <1>1, <2>1 DEF DispatchResult, AttemptTyped, ReplyTyped, CertificateTyped,
        MakerTyped, attemptVars, certificateVars
<1>2. CASE LoseDispatch(a)
  <2>1. TaskTyped'
    BY <1>2 DEF LoseDispatch, TaskTyped
  <2> QED BY <1>2, <2>1 DEF LoseDispatch, AttemptTyped, ReplyTyped, ResultVarsTyped,
        CertificateTyped, MakerTyped, attemptVars, resultVars, certificateVars
<1>3. ASSUME NEW strike \in BOOLEAN, NEW sent \in BrokerOutcomes, Cancel(a, strike, sent)
      PROVE  TypeOK'
  <2>1. AttemptTyped'
    BY <1>0, <1>3 DEF Cancel, AttemptTyped
  <2>2. ResultVarsTyped' /\ TaskTyped'
    <3>1. CASE Finalize(a, "CANCELLED")
      <4>1. ResultVarsTyped' /\ faults' \in Nat
        BY <1>0, <3>1, FinalizeTyped
      <4> QED BY <1>0, <1>3, <4>1 DEF Cancel, TaskTyped
    <3>2. CASE ~Finalize(a, "CANCELLED")
      BY <1>0, <1>3, <3>2 DEF Cancel, TaskTyped, ResultVarsTyped, resultVars
    <3> QED BY <3>1, <3>2
  <2> QED BY <1>3, <2>1, <2>2 DEF Cancel, ReplyTyped, CertificateTyped, MakerTyped,
        certificateVars
<1> QED BY <1>1, <1>2, <1>3 DEF Dispatch

(***************************************************************************)
(* Makers of certificates.                                                 *)
(***************************************************************************)
LEMMA MakerParts ==
    ASSUME TypeOK, NEW p \in Makers
    PROVE  /\ maker[p].step = "create" => maker[p].attempt \in Attempts
           /\ maker[p].step = "render" => maker[p].student \in Students
BY TypeParts DEF MakerTyped

LEMMA MakerMove ==
    ASSUME TypeOK, NEW p \in Makers,
           NEW d \in [step : {"idle"}, number : {0}]
                     \cup [step : {"create"}, attempt : Attempts]
                     \cup [step : {"render"}, student : Students],
           maker' = [maker EXCEPT ![p] = d]
    PROVE  MakerTyped'
BY TypeParts DEF MakerTyped

LEMMA GenerateTyped ==
    ASSUME TypeOK, NEW p \in Makers, NEW a \in Attempts, GenerateOrGet(p, a)
    PROVE  MakerTyped'
<1> USE TypeParts
<1>1. StudentOf(a) \in Students
  BY AttemptPair
<1>2. CASE maker' = [maker EXCEPT ![p] = [step |-> "render", student |-> StudentOf(a)]]
  BY <1>1, <1>2, MakerMove
<1>3. ASSUME NEW n \in 1..MaxAttempts,
             maker' = [maker EXCEPT ![p] = [step |-> "create", attempt |-> <<StudentOf(a), n>>]]
      PROVE  MakerTyped'
  <2>1. <<StudentOf(a), n>> \in Attempts
    BY <1>1 DEF Attempts
  <2> QED BY <1>3, <2>1, MakerMove
<1>4. CASE UNCHANGED maker
  BY <1>4 DEF MakerTyped
<1> QED BY <1>2, <1>3, <1>4 DEF GenerateOrGet

LEMMA MakerStepTyped ==
    ASSUME TypeOK, NEW p \in Makers, MakerStep(p)
    PROVE  TypeOK'
<1> USE TypeParts, TypePartsNext
<1>1. CASE CreateCertificate(p)
  <2> DEFINE a == maker[p].attempt
  <2>1. a \in Attempts /\ StudentOf(a) \in Students /\ a[2] \in 0..MaxAttempts
    BY <1>1, MakerParts, AttemptPair DEF CreateCertificate
  <2>2. Created(a) \in [number : 0..MaxAttempts, pdf : BOOLEAN,
                        status : {"NONE", "PENDING", "ISSUED", "FAILED"}]
    BY <2>1 DEF Created, CertificateTyped
  <2>3. CertificateTyped'
    BY <1>1, <2>1, <2>2 DEF CreateCertificate, CertificateTyped
  <2>4. CASE maker' = [maker EXCEPT ![p] = [step |-> "render", student |-> StudentOf(a)]]
    <3>1. MakerTyped'
      BY <2>1, <2>4, MakerMove
    <3> QED BY <1>1, <2>3, <3>1 DEF CreateCertificate, AttemptTyped, ReplyTyped, TaskTyped,
          ResultVarsTyped, attemptVars, taskVars, resultVars
  <2>5. CASE maker' = [maker EXCEPT ![p] = Idle]
    <3>1. MakerTyped'
      BY <2>5, MakerMove DEF Idle
    <3> QED BY <1>1, <2>3, <3>1 DEF CreateCertificate, AttemptTyped, ReplyTyped, TaskTyped,
          ResultVarsTyped, attemptVars, taskVars, resultVars
  <2> QED BY <1>1, <2>4, <2>5 DEF CreateCertificate
<1>2. CASE Render(p)
  <2>1. maker[p].student \in Students
    BY <1>2, MakerParts DEF Render
  <2>2. CertificateTyped' /\ faults' \in Nat
    BY <1>2, <2>1 DEF Render, CertificateTyped, TaskTyped
  <2>3. MakerTyped'
    BY <1>2, MakerMove DEF Render, Idle
  <2> QED BY <1>2, <2>2, <2>3 DEF Render, AttemptTyped, ReplyTyped, TaskTyped,
        ResultVarsTyped, attemptVars, resultVars
<1>3. ASSUME NEW m \in messages, CertificateTask(p, m) PROVE TypeOK'
  <2>1. m.attempt \in Attempts
    BY DEF TaskTyped, Message
  <2>2. MakerTyped'
    BY <1>3, <2>1, GenerateTyped DEF CertificateTask
  <2> QED BY <1>3, <2>2 DEF CertificateTask, AttemptTyped, ReplyTyped, TaskTyped,
        ResultVarsTyped, CertificateTyped, attemptVars, resultVars
<1>4. ASSUME NEW a \in Attempts, NEW sent \in BrokerOutcomes, DispatchCertificate(p, a, sent)
      PROVE  TypeOK'
  <2>1. TaskTyped'
    BY <1>4 DEF DispatchCertificate, TaskTyped, Message, Kinds
  <2>2. MakerTyped'
    BY <1>4, GenerateTyped DEF DispatchCertificate, MakerTyped
  <2> QED BY <1>4, <2>1, <2>2 DEF DispatchCertificate, AttemptTyped, ReplyTyped,
        ResultVarsTyped, CertificateTyped, attemptVars, resultVars
<1>5. ASSUME NEW s \in Students, DownloadCertificate(p, s) \/ RetryGeneration(p, s)
      PROVE  TypeOK'
  <2>1. MakerTyped'
    BY <1>5, MakerMove DEF DownloadCertificate, RetryGeneration, Regenerate
  <2> QED BY <1>5, <2>1 DEF DownloadCertificate, RetryGeneration, Regenerate, AttemptTyped,
        ReplyTyped, TaskTyped, ResultVarsTyped, CertificateTyped, attemptVars, taskVars,
        resultVars
<1> QED BY <1>1, <1>2, <1>3, <1>4, <1>5 DEF MakerStep

(***************************************************************************)
(* Every value the variables take has its type.                            *)
(***************************************************************************)
LEMMA NextTyped == TypeOK /\ [Next]_vars => TypeOK'
<1> SUFFICES ASSUME TypeOK, [Next]_vars PROVE TypeOK'
  OBVIOUS
<1>1. CASE UNCHANGED vars
  BY <1>1 DEF TypeOK, vars, attemptVars, taskVars, resultVars, certificateVars
<1>2. ASSUME NEW a \in Attempts, Deliver(a) PROVE TypeOK'
  BY <1>2, MessageTyped DEF Deliver
<1>3. CASE Next
  BY <1>2, <1>3, StudentTyped, MessageTyped, ServerTyped, MakerStepTyped DEF Next
<1> QED BY <1>1, <1>3

\* TypeOK, whatever the number of attempts, questions, faults and processes.
THEOREM Typing == Spec => []TypeOK
BY InitTyped, NextTyped, PTL DEF Spec

(***************************************************************************)
(* Results.  Only Finalize writes them, and only of an attempt that is not *)
(* final yet.                                                              *)
(***************************************************************************)
LEMMA OnlyFinalize ==
    ASSUME TypeOK, Next
    PROVE  \/ UNCHANGED resultVars
           \/ \E a \in Attempts, end \in Terminal : Finalize(a, end)
<1>1. ASSUME NEW s \in Students, StudentStep(s)
      PROVE  \/ UNCHANGED resultVars
             \/ \E a \in Attempts, end \in Terminal : Finalize(a, end)
  <2>1. \A n \in 1..MaxAttempts : <<s, n>> \in Attempts
    BY DEF Attempts
  <2> QED BY <1>1, <2>1
        DEF StudentStep, Begin, Submit, View, CloseSilently, Reply, Judge, Finalize
<1>2. ASSUME NEW m \in messages, ResultTask(m) \/ TaskFails(m) \/ TaskLost(m)
      PROVE  \/ UNCHANGED resultVars
             \/ \E a \in Attempts, end \in Terminal : Finalize(a, end)
  <2>1. m.attempt \in Attempts
    BY TypeParts DEF TaskTyped, Message
  <2> QED BY <1>2, <2>1 DEF ResultTask, TaskFails, TaskLost, Finalize
<1>3. ASSUME NEW a \in Attempts, Dispatch(a) \/ LoseDispatch(a)
      PROVE  UNCHANGED resultVars \/ \E end \in Terminal : Finalize(a, end)
  BY <1>3 DEF Dispatch, DispatchResult, LoseDispatch, Finalize
<1>4. ASSUME NEW a \in Attempts, NEW strike \in BOOLEAN, NEW sent \in BrokerOutcomes,
             Cancel(a, strike, sent)
      PROVE  UNCHANGED resultVars \/ \E end \in Terminal : Finalize(a, end)
  BY <1>4 DEF Cancel, Terminal
<1>5. ASSUME NEW p \in Makers, MakerStep(p) PROVE UNCHANGED resultVars
  BY <1>5 DEF MakerStep, CreateCertificate, Render, CertificateTask, DispatchCertificate,
     DownloadCertificate, RetryGeneration, Regenerate
<1> QED BY <1>1, <1>2, <1>3, <1>4, <1>5 DEF Next, Deliver


LEMMA FinalizeWrites ==
    ASSUME TypeOK, NEW a \in Attempts, NEW end \in Terminal, Finalize(a, end)
    PROVE  \/ UNCHANGED resultVars
           \/ /\ ~result[a].final
              /\ result' = [result EXCEPT ![a] = ResultOf(a)]
              /\ coins' = coins \cup CoinsOf(a)
              /\ summary' = [summary EXCEPT ![StudentOf(a)] = Record(a, end)]
              /\ bound' \subseteq bound \cup {a}
BY DEF Finalize, AlreadyFinal, BindRetention

LEMMA FinalKept ==
    ASSUME TypeOK, [Next]_vars, NEW a \in Attempts, result[a].final
    PROVE  /\ result'[a] = result[a]
           /\ \A q \in Questions : <<a, q>> \in coins' <=> <<a, q>> \in coins
<1>1. CASE UNCHANGED resultVars
  BY <1>1 DEF resultVars
<1>2. ASSUME NEW b \in Attempts, NEW end \in Terminal, Finalize(b, end), ~UNCHANGED resultVars
      PROVE  /\ result'[a] = result[a]
             /\ \A q \in Questions : <<a, q>> \in coins' <=> <<a, q>> \in coins
  <2>1. /\ a # b /\ result' = [result EXCEPT ![b] = ResultOf(b)]
        /\ coins' = coins \cup CoinsOf(b)
    BY <1>2, FinalizeWrites
  <2>2. result'[a] = result[a]
    BY <2>1, TypeParts DEF ResultVarsTyped
  <2>3. \A q \in Questions : <<a, q>> \notin CoinsOf(b)
    BY <2>1 DEF CoinsOf
  <2> QED BY <2>1, <2>2, <2>3
<1>3. CASE UNCHANGED vars
  BY <1>3 DEF vars, resultVars
<1> QED BY <1>1, <1>2, <1>3, OnlyFinalize

\* A finalized result never changes, and no coin is added for it or taken.
THEOREM FinalResults == Spec => FinalStays
<1>1. TypeOK /\ [Next]_vars =>
        [\A a \in Attempts : result[a].final =>
          /\ result'[a].marks = result[a].marks /\ result'[a].score = result[a].score
          /\ result'[a].final
          /\ \A q \in Questions : <<a, q>> \in coins' <=> <<a, q>> \in coins]_vars
  BY FinalKept
<1> QED BY <1>1, Typing, PTL DEF Spec, FinalStays

(***************************************************************************)
(* The permanent record.                                                   *)
(***************************************************************************)
LEMMA TranscriptStep == TypeOK /\ TranscriptTruthful /\ [Next]_vars => TranscriptTruthful'
<1> SUFFICES ASSUME TypeOK, TranscriptTruthful, [Next]_vars PROVE TranscriptTruthful'
  OBVIOUS
<1>1. CASE UNCHANGED resultVars
  BY <1>1 DEF resultVars, TranscriptTruthful
<1>2. ASSUME NEW a \in Attempts, NEW end \in Terminal, Finalize(a, end), ~UNCHANGED resultVars
      PROVE  TranscriptTruthful'
  <2> DEFINE s == StudentOf(a)
  <2>1. /\ result' = [result EXCEPT ![a] = ResultOf(a)]
        /\ summary' = [summary EXCEPT ![s] = Record(a, end)]
        /\ bound' \subseteq bound \cup {a} /\ ~result[a].final
    BY <1>2, FinalizeWrites
  <2>2. s \in Students /\ a[2] \in 1..MaxAttempts /\ a = <<s, a[2]>>
    BY AttemptPair
  <2>3. /\ result'[a] = ResultOf(a) /\ result'[a].final
        /\ \A b \in Attempts : b # a => result'[b] = result[b]
    BY <2>1, ResultTyped, TypeParts DEF ResultVarsTyped
  <2>4. /\ summary'[s].number = a[2] /\ summary'[s].score = ResultOf(a).score
        /\ summary'[s].completion = end
        /\ \A t \in Students : t # s => summary'[t] = summary[t]
    BY <2>1, <2>2, TypeParts DEF ResultVarsTyped, Record
  <2>5. \A b \in Attempts : result'[b].final => summary'[StudentOf(b)].number > 0
    <3> TAKE b \in Attempts
    <3>1. StudentOf(b) \in Students
      BY AttemptPair
    <3>2. CASE StudentOf(b) = s
      BY <3>2, <2>2, <2>4
    <3>3. CASE StudentOf(b) # s
      BY <3>1, <3>3, <2>3, <2>4 DEF TranscriptTruthful
    <3> QED BY <3>2, <3>3
  <2>6. ASSUME NEW t \in Students, summary'[t].number > 0
        PROVE  /\ result'[<<t, summary'[t].number>>].final
               /\ summary'[t].score = result'[<<t, summary'[t].number>>].score
               /\ summary'[t].completion \in Terminal
    <3>1. CASE t = s
      <4>1. <<t, summary'[t].number>> = a
        BY <3>1, <2>2, <2>4
      <4> QED BY <3>1, <4>1, <2>3, <2>4
    <3>2. CASE t # s
      <4> DEFINE b == <<t, summary[t].number>>
      <4>1. b \in Attempts /\ b # a /\ summary'[t] = summary[t]
        <5>1. summary'[t] = summary[t] /\ summary[t].number \in 0..MaxAttempts
          BY <3>2, <2>4, TypeParts DEF ResultVarsTyped
        <5>2. summary[t].number \in 1..MaxAttempts
          BY <5>1, <2>6
        <5> QED BY <5>1, <5>2, <3>2, <2>2 DEF Attempts
      <4>2. result'[b] = result[b]
        BY <4>1, <2>3
      <4> QED BY <4>1, <4>2, <2>6 DEF TranscriptTruthful
    <3> QED BY <3>1, <3>2
  <2>7. \A b \in bound' : result'[b].final
    BY <2>1, <2>3, TypeParts DEF TranscriptTruthful, ResultVarsTyped
  <2> QED BY <2>5, <2>6, <2>7 DEF TranscriptTruthful
<1>3. CASE UNCHANGED vars
  BY <1>3 DEF vars, resultVars, TranscriptTruthful
<1> QED BY <1>1, <1>2, <1>3, OnlyFinalize

\* Every student with a finalized result has a record, and it is truthful.
THEOREM Transcript == Spec => []TranscriptTruthful
<1>1. Init => TranscriptTruthful
  BY DEF Init, TranscriptTruthful, NoResult, NoSummary
<1> QED BY <1>1, TranscriptStep, Typing, PTL DEF Spec


(***************************************************************************)
(* The certificate.  The attempts before the running one have ended, so    *)
(* that an earlier attempt that does not qualify never will.               *)
(***************************************************************************)
Order ==
    \A s \in Students, n \in 1..MaxAttempts :
        /\ n < begun[s] => status[<<s, n>>] \in Terminal
        /\ n > begun[s] => status[<<s, n>>] = "NONE"
        /\ submitted[<<s, n>>] => status[<<s, n>>] \in Terminal

First(s, n) ==
    /\ submitted[<<s, n>>]
    /\ \A k \in 1..(n - 1) : ~Qualifies(<<s, k>>)

MakersFirst ==
    \A p \in Makers : maker[p].step = "create" =>
        First(StudentOf(maker[p].attempt), maker[p].attempt[2])

\* The submitted flag is set by submit_attempt and outlives a late strike.
SubmittedFlag == \A a \in Attempts : status[a] = "SUBMITTED" => submitted[a]

CertificateInv == Order /\ SubmittedFlag /\ MakersFirst /\ CertificateFirst

\* How a step may change the attempts.
AttemptMoves ==
    \/ UNCHANGED attemptVars
    \/ \E s \in Students : Begin(s)
    \/ \E a \in Attempts : Submit(a)
    \/ \E a \in Attempts :
          /\ status[a] \in Terminal \cup {"IN_PROGRESS"}
          /\ \E t \in {"EXPIRED", "CANCELLED"} : status' = [status EXCEPT ![a] = t]
          /\ \A b \in Attempts : b # a => disqualified'[b] = disqualified[b]
          /\ UNCHANGED <<begun, submitted>>

LEMMA Moves ==
    ASSUME TypeOK, Next
    PROVE  AttemptMoves
<1>1. ASSUME NEW s \in Students, StudentStep(s) PROVE AttemptMoves
  <2>1. \A n \in 1..MaxAttempts : <<s, n>> \in Attempts
    BY DEF Attempts
  <2>2. ASSUME NEW n \in 1..MaxAttempts, NEW t \in {"EXPIRED", "CANCELLED"},
               CloseSilently(<<s, n>>, t)
        PROVE  AttemptMoves
    <3>1. \A b \in Attempts : b # <<s, n>> => disqualified'[b] = disqualified[b]
      BY <2>2, TypeParts DEF CloseSilently, AttemptTyped
    <3> QED BY <2>1, <2>2, <3>1 DEF CloseSilently, AttemptMoves
  <2> QED BY <1>1, <2>1, <2>2 DEF StudentStep, View, Reply, Judge, AttemptMoves
<1>2. ASSUME NEW m \in messages, ResultTask(m) \/ TaskFails(m) \/ TaskLost(m)
      PROVE  AttemptMoves
  BY <1>2 DEF ResultTask, TaskFails, TaskLost, AttemptMoves
<1>3. ASSUME NEW a \in Attempts, Dispatch(a) \/ LoseDispatch(a) PROVE AttemptMoves
  BY <1>3 DEF Dispatch, DispatchResult, LoseDispatch, AttemptMoves
<1>4. ASSUME NEW a \in Attempts, NEW strike \in BOOLEAN, NEW sent \in BrokerOutcomes,
             Cancel(a, strike, sent)
      PROVE  AttemptMoves
  <2>1. \A b \in Attempts : b # a => disqualified'[b] = disqualified[b]
    BY <1>4, TypeParts DEF Cancel, AttemptTyped
  <2> QED BY <1>4, <2>1 DEF Cancel, AttemptMoves
<1>5. ASSUME NEW p \in Makers, MakerStep(p) PROVE AttemptMoves
  BY <1>5 DEF MakerStep, CreateCertificate, Render, CertificateTask, DispatchCertificate,
     DownloadCertificate, RetryGeneration, Regenerate, AttemptMoves
<1> QED BY <1>1, <1>2, <1>3, <1>4, <1>5 DEF Next, Deliver

LEMMA OrderStep ==
    ASSUME TypeOK, Order, SubmittedFlag, AttemptMoves
    PROVE  /\ Order' /\ SubmittedFlag'
           /\ \A s \in Students, n \in 1..MaxAttempts : First(s, n) => First(s, n)'
<1> USE TypeParts DEF AttemptTyped
<1>0. \A s \in Students, n \in 1..MaxAttempts : <<s, n>> \in Attempts
  BY DEF Attempts
<1>1. CASE UNCHANGED attemptVars
  BY <1>1 DEF attemptVars, Order, SubmittedFlag, First, Qualifies
<1>2. ASSUME NEW s \in Students, Begin(s)
      PROVE  /\ Order' /\ SubmittedFlag'
             /\ \A t \in Students, n \in 1..MaxAttempts : First(t, n) => First(t, n)'
  <2>1. /\ <<s, begun[s] + 1>> \in Attempts /\ begun[s] + 1 \in 1..MaxAttempts
        /\ status[<<s, begun[s] + 1>>] = "NONE" /\ ~submitted[<<s, begun[s] + 1>>]
        /\ begun'[s] = begun[s] + 1
    BY <1>0, <1>2 DEF Begin, Order, Terminal
  <2>2. /\ \A t \in Students : t # s => begun'[t] = begun[t]
        /\ \A a \in Attempts : status'[a] = IF a = <<s, begun[s] + 1>> THEN "IN_PROGRESS"
                                            ELSE status[a]
        /\ submitted' = submitted /\ disqualified' = disqualified
    BY <1>2, <2>1 DEF Begin
  <2>3. Order'
    <3> SUFFICES ASSUME NEW t \in Students, NEW n \in 1..MaxAttempts
                 PROVE  /\ n < begun'[t] => status'[<<t, n>>] \in Terminal
                        /\ n > begun'[t] => status'[<<t, n>>] = "NONE"
                        /\ submitted'[<<t, n>>] => status'[<<t, n>>] \in Terminal
      BY DEF Order
    <3>1. CASE t = s
      <4>1. n < begun'[s] => n = begun[s] \/ n < begun[s]
        BY <2>1
      <4>2. begun[s] > 0 => status[<<s, begun[s]>>] \in Terminal
        BY <1>2 DEF Begin
      <4> QED BY <1>0, <2>1, <2>2, <3>1, <4>1, <4>2 DEF Order
    <3>2. CASE t # s
      BY <1>0, <2>2, <3>2 DEF Order
    <3> QED BY <3>1, <3>2
  <2>4. SubmittedFlag'
    BY <2>2 DEF SubmittedFlag
  <2>5. \A t \in Students, n \in 1..MaxAttempts : First(t, n) => First(t, n)'
    BY <1>0, <2>2 DEF First, Qualifies
  <2> QED BY <2>3, <2>4, <2>5
<1>3. ASSUME NEW a \in Attempts, Submit(a)
      PROVE  /\ Order' /\ SubmittedFlag'
             /\ \A t \in Students, n \in 1..MaxAttempts : First(t, n) => First(t, n)'
  <2>1. /\ \A b \in Attempts : status'[b] = IF b = a THEN "SUBMITTED" ELSE status[b]
        /\ \A b \in Attempts : submitted'[b] = (b = a \/ submitted[b])
        /\ begun' = begun /\ disqualified' = disqualified /\ status[a] = "IN_PROGRESS"
    BY <1>3 DEF Submit
  <2>2. Order' /\ SubmittedFlag'
    BY <1>0, <2>1 DEF Order, SubmittedFlag, Terminal
  <2>3. ASSUME NEW t \in Students, NEW n \in 1..MaxAttempts, First(t, n) PROVE First(t, n)'
    <3>1. n <= begun[t]
      BY <1>0, <2>3 DEF First, Order, Terminal
    <3>2. \A k \in 1..(n - 1) : <<t, k>> \in Attempts /\ <<t, k>> # a
      BY <1>0, <2>1, <3>1 DEF Order, Terminal
    <3> QED BY <1>0, <2>1, <2>3, <3>2 DEF First, Qualifies
  <2> QED BY <2>2, <2>3
<1>4. ASSUME NEW a \in Attempts, NEW x \in {"EXPIRED", "CANCELLED"},
             status[a] \in Terminal \cup {"IN_PROGRESS"}, status' = [status EXCEPT ![a] = x],
             \A b \in Attempts : b # a => disqualified'[b] = disqualified[b],
             UNCHANGED <<begun, submitted>>
      PROVE  /\ Order' /\ SubmittedFlag'
             /\ \A t \in Students, n \in 1..MaxAttempts : First(t, n) => First(t, n)'
  <2>1. \A b \in Attempts : status'[b] = IF b = a THEN x ELSE status[b]
    BY <1>4
  <2>2. Order' /\ SubmittedFlag'
    BY <1>0, <1>4, <2>1 DEF Order, SubmittedFlag, Terminal
  <2>3. ASSUME NEW t \in Students, NEW n \in 1..MaxAttempts, First(t, n) PROVE First(t, n)'
    <3>1. \A b \in Attempts : ~Qualifies(b) => ~Qualifies(b)'
      BY <1>4, <2>1 DEF Qualifies
    <3>2. \A k \in 1..(n - 1) : <<t, k>> \in Attempts
      BY <1>0
    <3> QED BY <1>4, <2>3, <3>1, <3>2 DEF First
  <2> QED BY <2>2, <2>3
<1> QED BY <1>1, <1>2, <1>3, <1>4 DEF AttemptMoves

\* What a maker may be about to create, and what is created.
CertificateMoves ==
    \/ UNCHANGED <<maker, certificate>>
    \/ \E p \in Makers, a \in Attempts : GenerateOrGet(p, a) /\ UNCHANGED certificate
    \/ \E p \in Makers : CreateCertificate(p) \/ Render(p)
    \/ \E p \in Makers, s \in Students : Regenerate(p, s)

LEMMA MovesOfMakers ==
    ASSUME TypeOK, Next
    PROVE  /\ CertificateMoves
           /\ ~UNCHANGED <<maker, certificate>> => UNCHANGED attemptVars
<1> USE DEF certificateVars
<1>1. ASSUME NEW s \in Students, StudentStep(s) PROVE UNCHANGED <<maker, certificate>>
  BY <1>1 DEF StudentStep, Begin, Submit, View, CloseSilently, Reply, Judge
<1>2. ASSUME NEW m \in messages, ResultTask(m) \/ TaskFails(m) \/ TaskLost(m)
      PROVE  UNCHANGED <<maker, certificate>>
  BY <1>2 DEF ResultTask, TaskFails, TaskLost
<1>3. ASSUME NEW a \in Attempts, Dispatch(a) \/ LoseDispatch(a)
      PROVE  UNCHANGED <<maker, certificate>>
  BY <1>3 DEF Dispatch, DispatchResult, LoseDispatch
<1>4. ASSUME NEW a \in Attempts, NEW strike \in BOOLEAN, NEW sent \in BrokerOutcomes,
             Cancel(a, strike, sent)
      PROVE  UNCHANGED <<maker, certificate>>
  BY <1>4 DEF Cancel
<1>5. ASSUME NEW p \in Makers, MakerStep(p) PROVE CertificateMoves /\ UNCHANGED attemptVars
  <2>1. ASSUME NEW m \in messages, CertificateTask(p, m)
        PROVE  CertificateMoves /\ UNCHANGED attemptVars
    <3>1. m.attempt \in Attempts
      BY TypeParts DEF TaskTyped, Message
    <3> QED BY <2>1, <3>1 DEF CertificateTask, CertificateMoves
  <2>2. ASSUME NEW a \in Attempts, NEW sent \in BrokerOutcomes, DispatchCertificate(p, a, sent)
        PROVE  CertificateMoves /\ UNCHANGED attemptVars
    BY <2>2 DEF DispatchCertificate, CertificateMoves
  <2> QED BY <1>5, <2>1, <2>2 DEF MakerStep, CreateCertificate, Render, DownloadCertificate,
        RetryGeneration, Regenerate, CertificateMoves
<1> QED BY <1>1, <1>2, <1>3, <1>4, <1>5 DEF Next, Deliver, CertificateMoves

LEMMA CertificateStep ==
    ASSUME TypeOK, CertificateInv, CertificateMoves, UNCHANGED attemptVars
    PROVE  CertificateInv'
<1>0. \A s \in Students, n \in 1..MaxAttempts : <<s, n>> \in Attempts
  BY DEF Attempts
<1>1. Order' /\ SubmittedFlag'
  BY DEF attemptVars, CertificateInv, Order, SubmittedFlag
<1>2. \A s \in Students, n \in 1..MaxAttempts : First(s, n) <=> First(s, n)'
  BY DEF attemptVars, First, Qualifies
<1>3. ASSUME \A s \in Students : certificate'[s].number = certificate[s].number
      PROVE  CertificateFirst'
  BY <1>3 DEF attemptVars, CertificateInv, CertificateFirst, Qualifies
<1>4. ASSUME NEW p \in Makers, NEW d, maker' = [maker EXCEPT ![p] = d],
             d.step = "create" => /\ d.attempt \in Attempts
                                  /\ First(StudentOf(d.attempt), d.attempt[2])
      PROVE  MakersFirst'
  <2> SUFFICES ASSUME NEW r \in Makers, maker'[r].step = "create"
               PROVE  First(StudentOf(maker[r].attempt), maker[r].attempt[2])'
    BY DEF MakersFirst
  <2>1. maker'[r] = IF r = p THEN d ELSE maker[r]
    BY <1>4, TypeParts DEF MakerTyped
  <2>2. PICK b \in Attempts : b = maker'[r].attempt /\ First(StudentOf(b), b[2])
    <3>1. CASE r = p
      BY <1>4, <2>1, <3>1
    <3>2. CASE r # p
      BY <2>1, <3>2, MakerParts DEF CertificateInv, MakersFirst
    <3> QED BY <3>1, <3>2
  <2>3. StudentOf(b) \in Students /\ b[2] \in 1..MaxAttempts
    BY AttemptPair
  <2>4. First(StudentOf(b), b[2])'
    BY <1>2, <2>2, <2>3
  <2> QED BY <2>2, <2>4 DEF First, StudentOf, Qualifies
<1>5. CASE UNCHANGED <<maker, certificate>>
  BY <1>1, <1>3, <1>5 DEF attemptVars, CertificateInv, MakersFirst, First, Qualifies
<1>6. ASSUME NEW p \in Makers, NEW a \in Attempts, GenerateOrGet(p, a), UNCHANGED certificate
      PROVE  CertificateInv'
  <2> DEFINE s == StudentOf(a)
  <2>0. s \in Students
    BY AttemptPair
  <2>1. CASE UNCHANGED maker
    BY <1>5, <1>6, <2>1
  <2>2. CASE maker' = [maker EXCEPT ![p] = [step |-> "render", student |-> s]]
    BY <1>1, <1>3, <1>4, <1>6, <2>2 DEF CertificateInv
  <2>3. ASSUME NEW n \in 1..MaxAttempts, FirstQualifying(s, n),
               maker' = [maker EXCEPT ![p] = [step |-> "create", attempt |-> <<s, n>>]]
        PROVE  CertificateInv'
    <3>1. submitted[<<s, n>>]
      BY <1>0, <2>0, <2>3 DEF FirstQualifying, Qualifies, CertificateInv, SubmittedFlag
    <3>2. \A k \in 1..(n - 1) : ~Qualifies(<<s, k>>)
      BY <2>3 DEF FirstQualifying
    <3>3. First(s, n)
      BY <3>1, <3>2 DEF First
    <3>4. /\ <<s, n>> \in Attempts
          /\ First(StudentOf(<<s, n>>), <<s, n>>[2])
      BY <1>0, <2>0, <3>3 DEF StudentOf
    <3>5. MakersFirst'
      BY <1>4, <2>3, <3>4
    <3> QED BY <1>1, <1>3, <1>6, <3>5 DEF CertificateInv
  <2> QED BY <1>6, <2>1, <2>2, <2>3 DEF GenerateOrGet
<1>7. ASSUME NEW p \in Makers, CreateCertificate(p) PROVE CertificateInv'
  <2> DEFINE a == maker[p].attempt
             s == StudentOf(a)
  <2>1. a \in Attempts /\ First(s, a[2])
    BY <1>7, MakerParts DEF CreateCertificate, CertificateInv, MakersFirst
  <2>2. s \in Students /\ a[2] \in 1..MaxAttempts
    BY <2>1, AttemptPair
  <2>3. MakersFirst'
    <3>1. CASE maker' = [maker EXCEPT ![p] = [step |-> "render", student |-> s]]
      BY <1>4, <3>1
    <3>2. CASE maker' = [maker EXCEPT ![p] = Idle]
      BY <1>4, <3>2 DEF Idle
    <3> QED BY <1>7, <3>1, <3>2 DEF CreateCertificate
  <2>4. CertificateFirst'
    <3>1. certificate' = [certificate EXCEPT ![s] = Created(a)]
      BY <1>7 DEF CreateCertificate
    <3>2. ASSUME NEW t \in Students, certificate'[t].number > 0
          PROVE  /\ submitted'[<<t, certificate'[t].number>>]
                 /\ \A k \in 1..(certificate'[t].number - 1) : ~Qualifies(<<t, k>>)'
      <4>1. CASE certificate'[t].number = certificate[t].number
        BY <3>2, <4>1 DEF CertificateInv, CertificateFirst, attemptVars, Qualifies
      <4>2. CASE certificate'[t].number # certificate[t].number
        <5>1. t = s /\ certificate'[t].number = a[2]
          BY <2>2, <3>1, <4>2, TypeParts DEF CertificateTyped, Created
        <5> QED BY <2>1, <5>1 DEF First, attemptVars, Qualifies
      <4> QED BY <4>1, <4>2
    <3> QED BY <3>2 DEF CertificateFirst
  <2> QED BY <1>1, <2>3, <2>4 DEF CertificateInv
<1>8. ASSUME NEW p \in Makers, Render(p) PROVE CertificateInv'
  <2>1. \A s \in Students : certificate'[s].number = certificate[s].number
    BY <1>8, TypeParts DEF Render, CertificateTyped
  <2>2. MakersFirst'
    BY <1>4, <1>8 DEF Render, Idle
  <2> QED BY <1>1, <1>3, <2>1, <2>2 DEF CertificateInv
<1>9. ASSUME NEW p \in Makers, NEW s \in Students, Regenerate(p, s) PROVE CertificateInv'
  <2>1. MakersFirst'
    BY <1>4, <1>9 DEF Regenerate
  <2> QED BY <1>1, <1>3, <1>9, <2>1 DEF Regenerate, CertificateInv
<1> QED BY <1>5, <1>6, <1>7, <1>8, <1>9 DEF CertificateMoves

LEMMA CertificateInvStep == TypeOK /\ CertificateInv /\ [Next]_vars => CertificateInv'
<1> SUFFICES ASSUME TypeOK, CertificateInv, [Next]_vars PROVE CertificateInv'
  OBVIOUS
<1>1. CASE UNCHANGED vars
  BY <1>1, CertificateStep DEF vars, certificateVars, CertificateMoves
<1>2. CASE Next /\ ~UNCHANGED <<maker, certificate>>
  BY <1>2, MovesOfMakers, CertificateStep
<1>3. CASE Next /\ UNCHANGED <<maker, certificate>>
  <2>1. /\ Order' /\ SubmittedFlag'
        /\ \A s \in Students, n \in 1..MaxAttempts : First(s, n) => First(s, n)'
    BY <1>3, Moves, OrderStep DEF CertificateInv
  <2>2. MakersFirst'
    <3> SUFFICES ASSUME NEW p \in Makers, maker[p].step = "create"
                 PROVE  First(StudentOf(maker[p].attempt), maker[p].attempt[2])'
      BY <1>3 DEF MakersFirst
    <3> DEFINE s == StudentOf(maker[p].attempt)
               n == maker[p].attempt[2]
    <3>1. s \in Students /\ n \in 1..MaxAttempts
      BY MakerParts, AttemptPair
    <3>2. First(s, n)
      BY DEF CertificateInv, MakersFirst
    <3>3. maker'[p] = maker[p]
      BY <1>3
    <3> QED BY <2>1, <3>1, <3>2, <3>3 DEF First, Qualifies, StudentOf
  <2>3. CertificateFirst'
    <3> SUFFICES ASSUME NEW s \in Students, certificate[s].number > 0
                 PROVE  /\ submitted'[<<s, certificate[s].number>>]
                        /\ \A k \in 1..(certificate[s].number - 1) : ~Qualifies(<<s, k>>)'
      BY <1>3 DEF CertificateFirst
    <3>1. PICK n \in 1..MaxAttempts : n = certificate[s].number
      BY TypeParts DEF CertificateTyped
    <3>2. First(s, n)
      BY <3>1 DEF CertificateInv, CertificateFirst, First
    <3>3. First(s, n)'
      BY <2>1, <3>2
    <3> QED BY <3>1, <3>3 DEF First
  <2> QED BY <2>1, <2>2, <2>3 DEF CertificateInv
<1> QED BY <1>1, <1>2, <1>3

\* The certificate is of a submitted attempt, and no earlier one qualifies.
THEOREM FirstCertificate == Spec => []CertificateFirst
<1>1. Init => CertificateInv
  BY DEF Init, CertificateInv, Order, SubmittedFlag, MakersFirst, CertificateFirst, Idle,
     NoCertificate, Attempts
<1>2. CertificateInv => CertificateFirst
  BY DEF CertificateInv
<1> QED BY <1>1, <1>2, CertificateInvStep, Typing, PTL DEF Spec

================================================================================
