------------------------------ MODULE AttemptSeat ------------------------------
(***************************************************************************)
(* What the attempt service promises about a student's seat at an          *)
(* assessment, without clocks, proctors or requests: attempts are numbered *)
(* in the order they begin, an attempt accepts work from its beginning to  *)
(* its one conclusion and never again, and at most one attempt is begun    *)
(* beyond the limit, on an authorization that is used up by it.            *)
(***************************************************************************)
EXTENDS Integers

CONSTANT AttemptLimit

VARIABLES
    begun,     \* attempts begun so far; they are 1..begun
    writing,   \* the attempts that accept work
    granted    \* the second-chance authorization

seatVars == <<begun, writing, granted>>

SeatInit == begun = 0 /\ writing = {} /\ granted = "NONE"

\* A begin within the limit concludes whatever was still open.
BeginWithinLimit ==
    /\ granted = "NONE" /\ begun < AttemptLimit
    /\ begun' = begun + 1
    /\ writing' = {begun + 1}
    /\ UNCHANGED granted

BeginGranted ==
    /\ granted = "AUTHORIZED"
    /\ begun' = begun + 1
    /\ writing' = writing \cup {begun + 1}
    /\ granted' = "CONSUMED"

Conclude(a) ==
    /\ a \in writing
    /\ writing' = writing \ {a}
    /\ UNCHANGED <<begun, granted>>

\* A second chance is for an attempt that has concluded.
Grant ==
    /\ granted = "NONE" /\ writing # 1..begun
    /\ granted' = "AUTHORIZED"
    /\ UNCHANGED <<begun, writing>>

SeatNext ==
    \/ BeginWithinLimit \/ BeginGranted \/ Grant
    \/ \E a \in writing : Conclude(a)

SeatSpec == SeatInit /\ [][SeatNext]_seatVars

================================================================================
