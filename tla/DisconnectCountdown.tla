------------------------ MODULE DisconnectCountdown ------------------------
(***************************************************************************)
(* The 10 s countdown that follows the loss of an attempt's WebSocket.     *)
(* Every connection to the attempt's room, the student's or an             *)
(* administrator's, is a socket with a consumer of its own, and so is a    *)
(* handshake that is refused.  They share one cache entry                  *)
(* ws_disconnect_<attempt>, which holds the token of the last close.  A    *)
(* consumer runs one handler at a time, but the handlers of different      *)
(* sockets, the tasks and the client interleave freely: the server learns  *)
(* of a lost connection some time after the client does.                   *)
(***************************************************************************)
EXTENDS Integers

CONSTANTS
    Sockets,        \* connections that may be made
    Grace,          \* countdown=10 of the task
    TTL,            \* timeout=60 of the cache entry
    MaxTime,        \* bound: the clock stops here
    BrokerOutcomes  \* whether apply_async may fail (FALSE) or succeed (TRUE)

ASSUME DelayAssumption ==
    Grace \in Nat \ {0} /\ TTL \in Nat /\ MaxTime \in Nat /\ Grace < TTL
ASSUME BrokerAssumption == BrokerOutcomes \subseteq BOOLEAN

VARIABLES
    now,
    socket,    \* a connection: IDLE, REFUSED, ACCEPTED, OPEN, LOST to the client,
               \* CLOSED once disconnect was handled
    issued,    \* how many tokens were drawn; they are 1..issued
    token,     \* the token in the cache entry, or NoToken
    setAt,     \* when the entry was written
    tasks,     \* check_websocket_disconnect_task messages
    judged,    \* tokens whose task has read the cache, but not locked the row
    outcome,   \* status of the attempt; ENDED stands for every other end
    reason,    \* TestAttempt.disqualification_reason
    overlapped \* history: did anyone connect, or try to, while another connection
               \* of the attempt was open, or its close was not yet handled?

cacheVars == <<issued, token, setAt>>
attemptVars == <<outcome, reason>>
vars == <<now, socket, cacheVars, tasks, judged, attemptVars, overlapped>>

NoToken == 0
SocketStates == {"IDLE", "REFUSED", "ACCEPTED", "OPEN", "LOST", "CLOSED"}

TypeOK ==
    /\ now \in 0..MaxTime
    /\ socket \in [Sockets -> SocketStates]
    /\ issued \in Nat /\ token \in 0..issued /\ setAt \in 0..now
    /\ tasks \subseteq [token : 1..issued, eta : Nat]
    /\ judged \subseteq 1..issued
    /\ outcome \in {"IN_PROGRESS", "ENDED", "CANCELLED"}
    /\ reason \in {"NONE", "CONNECTION_LOST", "FOCUS_LOST"}
    /\ overlapped \in BOOLEAN

Init ==
    /\ now = 0 /\ socket = [s \in Sockets |-> "IDLE"]
    /\ issued = 0 /\ token = NoToken /\ setAt = 0 /\ tasks = {} /\ judged = {}
    /\ outcome = "IN_PROGRESS" /\ reason = "NONE" /\ overlapped = FALSE

-------------------------------------------------------------------------------
(* TestAttemptConsumer *)

\* A consumer for the attempt exists.
Connects(s, state) ==
    /\ socket[s] = "IDLE"
    /\ socket' = [socket EXCEPT ![s] = state]
    /\ overlapped' = (overlapped \/ \E r \in Sockets : socket[r] \notin {"IDLE", "CLOSED"})
    /\ UNCHANGED <<now, cacheVars, tasks, judged, attemptVars>>

\* connect, up to accept().
Accept(s) == Connects(s, "ACCEPTED")

\* connect, where the user is not signed in (4001) or the attempt is somebody
\* else's (4003): attempt_id is set by then, the entry is not deleted, and the
\* close that follows is handled like any other.
Refuse(s) == Connects(s, "REFUSED")

\* Mutant: the entry is left in the cache.
Cleared_Kept == token

\* What cache.delete leaves in the entry.
Cleared == NoToken

\* The rest of connect.
ClearToken(s) ==
    /\ socket[s] = "ACCEPTED"
    /\ socket' = [socket EXCEPT ![s] = "OPEN"]
    /\ token' = Cleared
    /\ UNCHANGED <<now, issued, setAt, tasks, judged, attemptVars, overlapped>>

\* The client is gone; the server does not know yet.
Lose(s) ==
    /\ socket[s] = "OPEN"
    /\ socket' = [socket EXCEPT ![s] = "LOST"]
    /\ UNCHANGED <<now, cacheVars, tasks, judged, attemptVars, overlapped>>

\* Mutant: the entry is dated with the end of the countdown.
WrittenAt_Deadline == now + Grace

\* The date of an entry written now.
WrittenAt == now

\* disconnect and _schedule_disconnect_countdown, which ask whether attempt_id is
\* set and not whether the connection was accepted.  When apply_async fails the
\* handler dies after it has written the entry.
HandleClose(s, sent) ==
    /\ socket[s] \in {"LOST", "REFUSED"}
    /\ socket' = [socket EXCEPT ![s] = "CLOSED"]
    /\ \/ /\ outcome = "IN_PROGRESS"
          /\ issued' = issued + 1 /\ token' = issued + 1 /\ setAt' = WrittenAt
          /\ tasks' = IF sent THEN tasks \cup {[token |-> issued + 1, eta |-> now + Grace]}
                              ELSE tasks
       \/ outcome # "IN_PROGRESS" /\ UNCHANGED <<cacheVars, tasks>>
    /\ UNCHANGED <<now, judged, attemptVars, overlapped>>

-------------------------------------------------------------------------------
(* check_websocket_disconnect_task *)

\* Mutant: any entry will do.
Valid_AnyToken(k) == token # NoToken /\ now < setAt + TTL

\* The entry is still there and still holds the task's token.
Valid(k) == token = k /\ now < setAt + TTL

CheckToken(t) ==
    /\ t \in tasks /\ t.eta <= now
    /\ tasks' = tasks \ {t}
    /\ judged' = IF Valid(t.token) THEN judged \cup {t.token} ELSE judged
    /\ UNCHANGED <<now, socket, cacheVars, attemptVars, overlapped>>

\* The transaction.  _execute_expiration_locked sets a reason of its own.
Terminate(k) ==
    /\ k \in judged
    /\ judged' = judged \ {k}
    /\ \/ /\ outcome = "IN_PROGRESS"
          /\ outcome' = "CANCELLED" /\ reason' = "FOCUS_LOST"
       \/ outcome # "IN_PROGRESS" /\ UNCHANGED attemptVars
    /\ UNCHANGED <<now, socket, cacheVars, tasks, overlapped>>

-------------------------------------------------------------------------------

\* The attempt ends in any other way.
EndOtherwise ==
    /\ outcome = "IN_PROGRESS"
    /\ outcome' = "ENDED"
    /\ UNCHANGED <<now, socket, cacheVars, tasks, judged, reason, overlapped>>

Tick ==
    /\ now < MaxTime
    /\ now' = now + 1
    /\ UNCHANGED <<socket, cacheVars, tasks, judged, attemptVars, overlapped>>

Next ==
    \/ \E s \in Sockets :
          \/ Accept(s) \/ Refuse(s) \/ ClearToken(s) \/ Lose(s)
          \/ \E sent \in BrokerOutcomes : HandleClose(s, sent)
    \/ \E t \in tasks : CheckToken(t)
    \/ \E k \in judged : Terminate(k)
    \/ EndOtherwise \/ Tick

Spec == Init /\ [][Next]_vars

-------------------------------------------------------------------------------
(* Properties *)

\* A task condemns an attempt only when the last close is a full grace period
\* old: a close in between starts the countdown anew (the token comparison).
FullGrace ==
    [][\A k \in judged' \ judged : k = issued /\ now >= setAt + Grace]_vars

\* As long as every close, a refused connection's included, was handled before
\* anyone connected or tried to, a task that condemns the attempt does so while
\* no connection is open.
CondemnedOffline ==
    [][judged' \ judged # {} /\ ~overlapped =>
          \A s \in Sockets : socket[s] # "OPEN"]_vars

================================================================================
