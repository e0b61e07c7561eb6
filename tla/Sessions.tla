-------------------------------- MODULE Sessions --------------------------------
(***************************************************************************)
(* Signing in, the idle time-out of the sessions and the password of an    *)
(* account.  A session is a row that a request loads when it arrives and   *)
(* stores as a whole when it is answered; in between the row may have been *)
(* deleted by an administrator who resets the password or disables the     *)
(* account, and the account may have changed.                              *)
(*                                                                         *)
(* A password stands for one hash: setting it again, even to the same      *)
(* text, gives another one, so the passwords of an account are numbered in *)
(* the order they were set.  The key of a session is never used twice.     *)
(* The window between two writes of one request that are next to each      *)
(* other is kept where it is named below, and nowhere else.                *)
(***************************************************************************)
EXTENDS Naturals

CONSTANTS
    Users,        \* students: they alone have attempts, which suspend the time-out
    Requests,     \* requests that may be served at the same time
    Timeout,      \* SESSION_IDLE_TIMEOUT_SECONDS
    MaxSessions,  \* bound on the sessions made
    MaxPasswords, \* bound on the passwords an account is given
    MaxTime       \* bound on the clock

ASSUME UsersAssumption == Users # {}
ASSUME BoundsAssumption == /\ {Timeout, MaxSessions, MaxTime} \subseteq Nat
                           /\ MaxPasswords \in Nat \ {0}

VARIABLES
    account,  \* of a user: the password, and the flags the code keeps beside it
    attempt,  \* users with an attempt in progress
    sockets,  \* users whose test room has a WebSocket
    session,  \* contents of the session rows, by key
    open,     \* keys of the rows that exist
    made,     \* sessions made so far
    request,  \* requests being served, and what they loaded
    now,
    used,     \* history: when a session last did something; a poll is nothing but the first time
    knows     \* history: the passwords the holder of a session gave or chose
vars == <<account, attempt, sockets, session, open, made, request, now, used, knows>>

Keys == 1..MaxSessions
Passwords == 1..MaxPasswords
Times == 0..MaxTime
Never == MaxTime + 1   \* no activity is recorded
NoKey == 0

Account == [password : Passwords, assigned : BOOLEAN, active : BOOLEAN,
            user : BOOLEAN, profile : BOOLEAN]
Session == [user : Users, password : Passwords, last : Times \cup {Never}]
Steps == {"free", "login", "page", "poll", "logout", "change", "changed", "profiled", "revoke"}
Within == {"page", "poll", "logout", "change", "changed", "profiled"}
Request == [step : Steps, key : Keys \cup {NoKey}, user : Users, password : Passwords,
            last : Times \cup {Never}, save : BOOLEAN]

Shape ==
    /\ account \in [Users -> Account]
    /\ attempt \in SUBSET Users /\ sockets \in SUBSET Users
    /\ session \in [Keys -> Session]
    /\ made \in 0..MaxSessions
    /\ open \in SUBSET (1..made)
    /\ request \in [Requests -> Request]
    /\ now \in Times
    /\ used \in [Keys -> Times \cup {Never}]
    /\ knows \in [Keys -> SUBSET Passwords]
KeysMade == \A r \in Requests : request[r].step \in Within => request[r].key \in 1..made
TypeOK == Shape /\ KeysMade

Free == [step |-> "free", key |-> NoKey, user |-> CHOOSE u \in Users : TRUE, password |-> 1,
         last |-> Never, save |-> FALSE]

\* An account begins with a password that an administrator chose, and says so twice.
Init ==
    /\ account = [u \in Users |-> [password |-> 1, assigned |-> TRUE, active |-> TRUE,
                                   user |-> TRUE, profile |-> TRUE]]
    /\ attempt = {} /\ sockets = {}
    /\ session = [k \in Keys |-> [user |-> CHOOSE u \in Users : TRUE, password |-> 1, last |-> Never]]
    /\ open = {}
    /\ made = 0
    /\ request = [r \in Requests |-> Free]
    /\ now = 0
    /\ used = [k \in Keys |-> Never]
    /\ knows = [k \in Keys |-> {}]

-----------------------------------------------------------------------------
(* Reading a session. *)
Of(u) == {k \in open : session[k].user = u}
Matches(k) == session[k].password = account[session[k].user].password
Authenticated(k) == account[session[k].user].active /\ Matches(k)
Elapsed(k) == IF session[k].last = Never THEN 0 ELSE now - session[k].last
Expired(k) == session[k].user \notin attempt /\ Elapsed(k) >= Timeout

\* Mutant: asking for the status counts as activity.
CountsAlways(kind, last) == TRUE

\* A request counts as activity, unless it only asks for the status of a session that
\* has recorded one; what counts leaves the time in the session.
Counts(kind, last) == kind # "poll" \/ last = Never
Touched(kind, last) == IF Counts(kind, last) THEN now ELSE last

Serve(r, step, k, u, password, last, save) ==
    request' = [request EXCEPT ![r] = [step |-> step, key |-> k, user |-> u,
                    password |-> password, last |-> last, save |-> save]]
Answer(r) == request' = [request EXCEPT ![r] = Free]
Is(r, step) == request[r].step = step

\* A row with a new key; the row of the key it replaces goes.
Make(k, u, password, last, known, use) ==
    /\ made < MaxSessions
    /\ made' = made + 1
    /\ open' = (open \ {k}) \cup {made + 1}
    /\ session' = [session EXCEPT ![made + 1] = [user |-> u, password |-> password, last |-> last]]
    /\ knows' = [knows EXCEPT ![made + 1] = known]
    /\ used' = [used EXCEPT ![made + 1] = use]

-----------------------------------------------------------------------------
(* Signing in, with the cookie of session k or none (NoKey). *)

\* The credentials are checked against the account as it is now.
Login(r, u, k) ==
    /\ Is(r, "free") /\ account[u].active
    /\ k \in open \cup {NoKey}
    /\ Serve(r, "login", k, u, account[u].password, Never, FALSE)
    /\ UNCHANGED <<account, sockets, attempt, session, open, made, now, used, knows>>

\* A session of the same user and password is kept, with its last activity.
Kept(q) == /\ q.key \in open
           /\ session[q.key].user = q.user
           /\ session[q.key].password = q.password

\* Mutant: the account is read again when the session is made.
SignInAgain(r) ==
    /\ Is(r, "login")
    /\ LET q == request[r]
           last == IF Kept(q) THEN session[q.key].last ELSE Never
       IN Make(q.key, q.user, account[q.user].password, last, {q.password},
               IF last = Never THEN Never ELSE used[q.key])
    /\ Answer(r)
    /\ UNCHANGED <<account, sockets, attempt, now>>

\* The session is made for the account that was loaded, with the password it then had.
SignIn(r) ==
    /\ Is(r, "login")
    /\ LET q == request[r]
           last == IF Kept(q) THEN session[q.key].last ELSE Never
       IN Make(q.key, q.user, q.password, last, {q.password},
               IF last = Never THEN Never ELSE used[q.key])
    /\ Answer(r)
    /\ UNCHANGED <<account, sockets, attempt, now>>

-----------------------------------------------------------------------------
(* A request with a session. *)

\* A session whose password is no longer the account's is emptied.
Stale(k) ==
    /\ k \in open /\ account[session[k].user].active /\ ~Matches(k)
    /\ open' = open \ {k}
    /\ UNCHANGED <<account, sockets, attempt, session, made, request, now, used, knows>>

\* An idle session ends at the next request, a poll too.
Expire(k) ==
    /\ k \in open /\ Authenticated(k) /\ Expired(k)
    /\ open' = open \ {k}
    /\ UNCHANGED <<account, sockets, attempt, session, made, request, now, used, knows>>

Accept(r, k, kind) ==
    /\ Is(r, "free") /\ k \in open /\ Authenticated(k) /\ ~Expired(k)
    /\ kind \in {"page", "poll", "logout", "change"}
    /\ LET s == session[k]
       IN /\ Serve(r, kind, k, s.user, s.password, Touched(kind, s.last), Counts(kind, s.last))
          /\ used' = IF kind # "poll" \/ s.last = Never THEN [used EXCEPT ![k] = now] ELSE used
    /\ UNCHANGED <<account, sockets, attempt, session, open, made, now, knows>>

\* The handshake of a WebSocket passes AuthMiddlewareStack and no other middleware: it
\* neither looks at the time of the session nor leaves one, and the connection outlives
\* the session.
Handshake(k) ==
    /\ k \in open /\ Authenticated(k) /\ session[k].user \notin sockets
    /\ sockets' = sockets \cup {session[k].user}
    /\ UNCHANGED <<account, attempt, session, open, made, request, now, used, knows>>
HangUp(u) ==
    /\ u \in sockets /\ sockets' = sockets \ {u}
    /\ UNCHANGED <<account, attempt, session, open, made, request, now, used, knows>>

\* The answer stores the session as it was loaded, if its row is still there.
Store(r) ==
    /\ Is(r, "page") \/ Is(r, "poll")
    /\ LET q == request[r]
       IN session' = IF q.save /\ q.key \in open
                     THEN [session EXCEPT ![q.key] = [user |-> q.user, password |-> q.password, last |-> q.last]]
                     ELSE session
    /\ Answer(r)
    /\ UNCHANGED <<account, sockets, attempt, open, made, now, used, knows>>

\* A request that ends in a server error stores nothing.
Fail(r) ==
    /\ Is(r, "page")
    /\ Answer(r)
    /\ UNCHANGED <<account, sockets, attempt, session, open, made, now, used, knows>>

Logout(r) ==
    /\ Is(r, "logout")
    /\ open' = open \ {request[r].key}
    /\ Answer(r)
    /\ UNCHANGED <<account, sockets, attempt, session, made, now, used, knows>>

\* A student whose profile asks for no change of password begins an attempt.
Begin(r) ==
    /\ Is(r, "page")
    /\ account[request[r].user].active /\ ~account[request[r].user].profile
    /\ attempt' = attempt \cup {request[r].user}
    /\ UNCHANGED <<account, sockets, session, open, made, request, now, used, knows>>
Finish(u) ==
    /\ attempt' = attempt \ {u}
    /\ UNCHANGED <<account, sockets, session, open, made, request, now, used, knows>>

-----------------------------------------------------------------------------
(* The user changes the password: the account, then the profile, then the session. *)
Given(u, assigned, profile) ==
    /\ account[u].password < MaxPasswords
    /\ account' = [account EXCEPT ![u] =
           [password |-> account[u].password + 1, assigned |-> assigned,
            active |-> account[u].active, user |-> assigned, profile |-> profile]]

ChangeAccount(r) ==
    /\ Is(r, "change")
    /\ LET q == request[r]
       IN /\ Given(q.user, FALSE, account[q.user].profile)
          /\ Serve(r, "changed", q.key, q.user, account[q.user].password + 1, q.last, TRUE)
    /\ UNCHANGED <<attempt, sockets, session, open, made, now, used, knows>>

ChangeProfile(r) ==
    /\ Is(r, "changed")
    /\ LET q == request[r]
       IN /\ account' = [account EXCEPT ![q.user].profile = FALSE]
          /\ Serve(r, "profiled", q.key, q.user, q.password, q.last, TRUE)
    /\ UNCHANGED <<attempt, sockets, session, open, made, now, used, knows>>

\* The session goes on under a new key, whether or not its row was still there.
ChangeSession(r) ==
    /\ Is(r, "profiled")
    /\ LET q == request[r]
       IN Make(q.key, q.user, q.password, q.last, knows[q.key] \cup {q.password}, used[q.key])
    /\ Answer(r)
    /\ UNCHANGED <<account, sockets, attempt, now>>

-----------------------------------------------------------------------------
(* The administrator. *)

Reset(u) ==
    /\ Given(u, TRUE, TRUE)
    /\ open' = open \ Of(u)
    /\ UNCHANGED <<attempt, sockets, session, made, request, now, used, knows>>

Enable(u) ==
    /\ ~account[u].active
    /\ account' = [account EXCEPT ![u].active = TRUE]
    /\ UNCHANGED <<attempt, sockets, session, open, made, request, now, used, knows>>

\* The account is stored first, and its sessions are deleted after that.
Disable(r, u) ==
    /\ Is(r, "free") /\ account[u].active
    /\ account' = [account EXCEPT ![u].active = FALSE]
    /\ Serve(r, "revoke", NoKey, u, account[u].password, Never, FALSE)
    /\ UNCHANGED <<attempt, sockets, session, open, made, now, used, knows>>
Revoke(r) ==
    /\ Is(r, "revoke")
    /\ open' = open \ Of(request[r].user)
    /\ Answer(r)
    /\ UNCHANGED <<account, sockets, attempt, session, made, now, used, knows>>

Tick ==
    /\ now < MaxTime
    /\ now' = now + 1
    /\ UNCHANGED <<account, sockets, attempt, session, open, made, request, used, knows>>

Next ==
    \/ \E r \in Requests :
          \/ \E u \in Users, k \in Keys \cup {NoKey} : Login(r, u, k)
          \/ SignIn(r)
          \/ \E k \in Keys, kind \in {"page", "poll", "logout", "change"} : Accept(r, k, kind)
          \/ Store(r) \/ Fail(r) \/ Logout(r) \/ Begin(r)
          \/ ChangeAccount(r) \/ ChangeProfile(r) \/ ChangeSession(r)
          \/ \E u \in Users : Disable(r, u)
          \/ Revoke(r)
    \/ \E k \in Keys : Stale(k) \/ Expire(k) \/ Handshake(k)
    \/ \E u \in Users : HangUp(u) \/ Finish(u) \/ Reset(u) \/ Enable(u)
    \/ Tick
Spec == Init /\ [][Next]_vars

-----------------------------------------------------------------------------
(* Properties *)

\* Whatever requests overlap with a reset or a change of the password (session rows
\* stored late, sessions made from an account that was loaded earlier, a session that
\* goes on under a new key), a session that is accepted is one whose holder gave or
\* chose the password the account has now.
KnownPassword == \A k \in open : Matches(k) => account[session[k].user].password \in knows[k]

\* As long as the password is one an administrator chose, the account asks its user to
\* change it, even when the user was changing the password when it was reset: the
\* answer to the page is drawn from both flags, which are stored at different times.
AskedToChange == \A u \in Users : account[u].assigned => account[u].user \/ account[u].profile

\* An idle session does nothing more over HTTP: unless an attempt is in progress, a
\* session that has recorded an activity is accepted only within the time-out of the
\* last thing its user did in it, however often the page asked for the status meanwhile,
\* in whatever order the answers stored their copies of the row, and whatever WebSockets
\* were opened with it: these are accepted without this check.
IdleEnds == [][\A r \in Requests, k \in Keys :
    (request[r].step = "free" /\ request'[r].step \in {"page", "poll", "logout", "change"}
         /\ request'[r].key = k /\ session[k].last # Never /\ session[k].user \notin attempt)
    => now - used[k] < Timeout]_vars

=============================================================================
