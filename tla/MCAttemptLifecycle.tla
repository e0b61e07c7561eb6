------------------------- MODULE MCAttemptLifecycle -------------------------
(***************************************************************************)
(* Instances of AttemptLifecycle for TLC.  The full next-state relation is *)
(* checked on a short clock; the part of it that ends attempts by the      *)
(* clock, which leaves out handlers that do not meet the question asked,   *)
(* is checked on a longer one.                                             *)
(***************************************************************************)
EXTENDS AttemptLifecycle

\* The timers: the countdown of a pending termination, and the deadline with its
\* pauses, against everything that may end them.
CountdownNext ==
    \/ StartAttempt \/ Tick
    \/ \E a \in Existing :
          \/ Submit(a) \/ ExplicitTerminate(a) \/ Telemetry(a)
          \/ PollTermination(a) \/ CancelTermination(a) \/ ConnectionLost(a)
          \/ ProctorTerminate(a) \/ PauseAttempt(a) \/ ResumeAttempt(a)
          \/ \E sent \in BrokerOutcomes : FocusLoss(a, sent)
    \/ \E t \in tasks : TerminationTask(t)
    \/ \E w \in Workers, a \in Existing : ReadLapsed(w, a)
    \/ \E w \in Workers : WriteExpired(w)

CountdownSpec == Init /\ [][CountdownNext]_vars /\ Fairness

-------------------------------------------------------------------------------
(* What the repository says and the code does not keep.  No run names these: *)
(* a configuration that does makes TLC show the behaviour of the finding.    *)

\* Several attempts: everything that begins or ends one, at once.
RetakeNext ==
    \/ StartAttempt \/ StartReattempt \/ Tick
    \/ \E a \in Existing :
          \/ Submit(a) \/ ExplicitTerminate(a) \/ ProctorTerminate(a)
          \/ AuthorizeReattempt(a) \/ StartProctoring(a)
          \/ \E w \in Frames : RecordStrike(w, a)
          \/ \E strong \in BOOLEAN, missed \in Misses :
                SecurityCancel(a, strong, missed)
    \/ \E w \in Workers, a \in Existing : ReadLapsed(w, a)
    \/ \E w \in Workers : WriteExpired(w)
    \/ \E w \in Frames : FrameStep(w)
    \/ ArchiveAssessment \/ \E on \in BOOLEAN : SetAssignment(on)

RetakeSpec == Init /\ [][RetakeNext]_vars

\* "Disqualified attempts cannot be resumed or retaken" (start_attempt): an
\* attempt begun beside a disqualified one is paid for by an authorization.
DisqualifiedNotRetaken ==
    [][made' # made /\ (\E a \in Existing : disqualified[a])
          => grant = "AUTHORIZED"]_vars

\* "Effective elapsed time is computed as wall_clock_time minus
\* authorized_pause_seconds", a pause still open included.
EffectiveElapsed(a) ==
    now - startedAt[a] - pauseUsed[a]
        - (IF pausedAt[a] = NoTime THEN 0 ELSE now - pausedAt[a])

\* The timer expires an attempt on its effective elapsed time only.
ExpiresOnEffectiveTime ==
    [][\A a \in Existing :
          InProgress(a) /\ status'[a] = "EXPIRED" =>
              EffectiveElapsed(a) > Duration \/ now > EndTime]_vars

\* "If there is already an active IN_PROGRESS attempt, resume it": a student
\* has one running attempt at a time.
OneRunning ==
    \A a, b \in Attempts : InProgress(a) /\ InProgress(b) => a = b

\* "A third violation will result in immediate disqualification": an attempt
\* still running with Threshold strikes has a frame task about to end it.
ThirdStrikeDisqualifies ==
    \A a \in Attempts :
        InProgress(a) /\ strikes[a] = Threshold => \E w \in Frames : frame[w] = a
================================================================================
