----------------------- MODULE MCDisconnectCountdown -----------------------
(* DisconnectCountdown for TLC: three connections, so that two closes and a *)
(* reconnection can meet two tasks.                                         *)
EXTENDS DisconnectCountdown, TLC

Symmetry == Permutations(Sockets)

-------------------------------------------------------------------------------
(* What the repository says and the code does not keep.  No run names these: *)
(* a configuration that does makes TLC show the behaviour of the finding.    *)

\* "If the socket reconnects within 10 seconds, the countdown token is
\* cancelled": no task condemns an attempt that has an open connection.
ReconnectHonoured ==
    [][judged' \ judged # {} => \A s \in Sockets : socket[s] # "OPEN"]_vars

\* Nobody's connection is ever lost.
StableNext ==
    \/ \E s \in Sockets :
          \/ Accept(s) \/ Refuse(s) \/ ClearToken(s)
          \/ \E sent \in BrokerOutcomes : HandleClose(s, sent)
    \/ \E t \in tasks : CheckToken(t)
    \/ \E k \in judged : Terminate(k)
    \/ EndOtherwise \/ Tick

StableSpec == Init /\ [][StableNext]_vars

\* The countdown is "initiated when a student WebSocket disconnects": where none
\* does, no task condemns the attempt.
NobodyCondemned == judged = {}
============================================================================
