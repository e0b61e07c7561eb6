--------------------------- MODULE AccountsApp_proofs ---------------------------
(* Proofs about the two models of the accounts application: Sessions, for any users,   *)
(* requests and bounds, and Accounts, for any files, calls and bounds.                 *)
EXTENDS Sessions, Accounts, FiniteSetTheorems, TLAPS

-----------------------------------------------------------------------------
(* Sessions.                                                               *)
-----------------------------------------------------------------------------
(* What the operators give. *)

LEMMA FreeIsRequest == Free \in Request
  <1>1. (CHOOSE u \in Users : TRUE) \in Users
    BY UsersAssumption
  <1>2. 1 \in Passwords
    BY BoundsAssumption DEF Passwords
  <1> QED
    BY <1>1, <1>2 DEF Free, Request, Steps, NoKey

LEMMA NewKey == ASSUME made \in 0..MaxSessions, made < MaxSessions
                PROVE  made + 1 \in Keys /\ made + 1 \in 0..MaxSessions
  BY BoundsAssumption DEF Keys

LEMMA ServeTypes ==
  ASSUME request \in [Requests -> Request], NEW r \in Requests, NEW step \in Steps,
         NEW k \in Keys \cup {NoKey}, NEW u \in Users, NEW password \in Passwords,
         NEW last \in Times \cup {Never}, NEW save \in BOOLEAN,
         Serve(r, step, k, u, password, last, save)
  PROVE  request' \in [Requests -> Request]
  BY DEF Serve, Request

LEMMA AnswerTypes ==
  ASSUME request \in [Requests -> Request], NEW r \in Requests, Answer(r)
  PROVE  request' \in [Requests -> Request]
  BY FreeIsRequest DEF Answer

LEMMA MakeTypes ==
  ASSUME Shape, NEW k, NEW u \in Users, NEW password \in Passwords,
         NEW last \in Times \cup {Never}, NEW known \in SUBSET Passwords,
         NEW use \in Times \cup {Never}, Make(k, u, password, last, known, use)
  PROVE  /\ session' \in [Keys -> Session] /\ made' \in 0..MaxSessions
         /\ open' \in SUBSET (1..made') /\ used' \in [Keys -> Times \cup {Never}]
         /\ knows' \in [Keys -> SUBSET Passwords]
  <1>1. made + 1 \in Keys /\ made' \in 0..MaxSessions
    BY NewKey DEF Make, Shape
  <1>2. open' \in SUBSET (1..made')
    <2> SUFFICES ASSUME NEW x \in open' PROVE x \in 1..made'
      OBVIOUS
    <2>1. x \in open \/ x = made + 1
      BY DEF Make
    <2>2. made \in Nat /\ made' = made + 1
      BY BoundsAssumption DEF Make, Shape
    <2>3. CASE x \in open
      <3>1. x \in 1..made
        BY <2>3 DEF Shape
      <3> QED
        BY <2>2, <3>1
    <2>4. CASE x = made + 1
      BY <2>2, <2>4
    <2> QED
      BY <2>1, <2>3, <2>4
  <1>3. session' \in [Keys -> Session]
    BY <1>1 DEF Make, Shape, Session
  <1> QED
    BY <1>1, <1>2, <1>3 DEF Make, Shape

LEMMA OpenKeys == ASSUME Shape PROVE open \subseteq Keys
  BY BoundsAssumption DEF Shape, Keys

LEMMA GivenTypes ==
  ASSUME account \in [Users -> Account], NEW u \in Users, NEW assigned \in BOOLEAN,
         NEW profile \in BOOLEAN, Given(u, assigned, profile)
  PROVE  account' \in [Users -> Account] /\ account[u].password + 1 \in Passwords
  <1>1. account[u].password + 1 \in Passwords
    BY BoundsAssumption DEF Given, Account, Passwords
  <1> QED
    BY <1>1 DEF Given, Account

(* Type correctness. *)

LEMMA Typing == Spec => []TypeOK
  <1>1. Init => Shape
    <2> SUFFICES ASSUME Init PROVE Shape
      OBVIOUS
    <2>1. (CHOOSE u \in Users : TRUE) \in Users
      BY UsersAssumption
    <2>2. 1 \in Passwords /\ 0 \in Times
      BY BoundsAssumption DEF Passwords, Times
    <2>3. account \in [Users -> Account]
      BY <2>2 DEF Init, Account
    <2>4. session \in [Keys -> Session]
      BY <2>1, <2>2 DEF Init, Session
    <2>5. request \in [Requests -> Request]
      BY FreeIsRequest DEF Init
    <2>6. made \in 0..MaxSessions /\ open \in SUBSET (1..made)
      BY BoundsAssumption DEF Init
    <2>7. /\ attempt \in SUBSET Users /\ sockets \in SUBSET Users /\ now \in Times
          /\ used \in [Keys -> Times \cup {Never}] /\ knows \in [Keys -> SUBSET Passwords]
      BY <2>2 DEF Init
    <2> QED
      BY <2>3, <2>4, <2>5, <2>6, <2>7 DEF Shape
  <1>2. TypeOK /\ [Next]_vars => Shape'
    <2> SUFFICES ASSUME Shape, KeysMade, [Next]_vars PROVE Shape'
      BY DEF TypeOK
    <2>0. open \subseteq Keys
      BY OpenKeys
    <2>1. ASSUME NEW r \in Requests, NEW u \in Users, NEW k \in Keys \cup {NoKey}, Login(r, u, k)
          PROVE  Shape'
      <3>1. account[u].password \in Passwords
        BY DEF Shape, Account
      <3>2. request' \in [Requests -> Request]
        <4> DEFINE password == account[u].password
        <4>1. Serve(r, "login", k, u, password, Never, FALSE) /\ "login" \in Steps
          BY <2>1 DEF Login, Steps
        <4>2. request \in [Requests -> Request]
          BY DEF Shape
        <4> HIDE DEF password
        <4> QED
          BY <3>1, <4>1, <4>2, ServeTypes DEF password
      <3> QED
        BY <2>1, <3>2 DEF Login, Shape
    <2>2. ASSUME NEW r \in Requests, SignIn(r)
          PROVE  Shape'
      <3> DEFINE q == request[r]
                 last == IF Kept(q) THEN session[q.key].last ELSE Never
                 use == IF last = Never THEN Never ELSE used[q.key]
      <3>1. q.user \in Users /\ q.password \in Passwords /\ {q.password} \in SUBSET Passwords
        BY DEF Shape, Request
      <3>2. Kept(q) => q.key \in Keys
        BY <2>0 DEF Kept
      <3>3. last \in Times \cup {Never}
        BY <3>2 DEF Shape, Session
      <3>4. use \in Times \cup {Never}
        BY <3>2, <3>3 DEF Shape
      <3>5. Make(q.key, q.user, q.password, last, {q.password}, use) /\ Answer(r)
        BY <2>2 DEF SignIn
      <3>6. /\ session' \in [Keys -> Session] /\ made' \in 0..MaxSessions
            /\ open' \in SUBSET (1..made') /\ used' \in [Keys -> Times \cup {Never}]
            /\ knows' \in [Keys -> SUBSET Passwords]
        <4> HIDE DEF q, last, use
        <4> QED
          BY <3>1, <3>3, <3>4, <3>5, MakeTypes
      <3>7. request' \in [Requests -> Request]
        BY <3>5, AnswerTypes DEF Shape
      <3> QED
        BY <2>2, <3>6, <3>7 DEF SignIn, Shape
    <2>3. ASSUME NEW r \in Requests, NEW k \in Keys,
                 NEW kind \in {"page", "poll", "logout", "change"}, Accept(r, k, kind)
          PROVE  Shape'
      <3> DEFINE s == session[k]
                 last == Touched(kind, s.last)
                 save == Counts(kind, s.last)
      <3>1. s.user \in Users /\ s.password \in Passwords /\ s.last \in Times \cup {Never}
        BY DEF Shape, Session
      <3>2. last \in Times \cup {Never} /\ save \in BOOLEAN
        BY <3>1 DEF Shape, Touched, Counts
      <3>3. Serve(r, kind, k, s.user, s.password, last, save) /\ kind \in Steps
        BY <2>3 DEF Accept, Steps
      <3>4. request' \in [Requests -> Request]
        <4> HIDE DEF s, last, save
        <4>1. request \in [Requests -> Request]
          BY DEF Shape
        <4>2. s.user \in Users /\ s.password \in Passwords
          BY <3>1
        <4> DEFINE u == s.user
                   password == s.password
        <4> HIDE DEF u, password
        <4> QED
          BY <3>2, <3>3, <4>1, <4>2, ServeTypes DEF u, password
      <3>5. used' \in [Keys -> Times \cup {Never}]
        BY <2>3 DEF Accept, Shape
      <3> QED
        BY <2>3, <3>4, <3>5 DEF Accept, Shape
    <2>4. ASSUME NEW r \in Requests, Store(r)
          PROVE  Shape'
      <3>1. request[r] \in Request
        BY DEF Shape
      <3>2. session' \in [Keys -> Session]
        BY <2>4, <3>1 DEF Store, Shape, Session, Request
      <3>3. request' \in [Requests -> Request]
        BY <2>4, AnswerTypes DEF Store, Shape
      <3> QED
        BY <2>4, <3>2, <3>3 DEF Store, Shape
    <2>5. ASSUME NEW r \in Requests, Fail(r) \/ Logout(r) \/ Revoke(r)
          PROVE  Shape'
      <3>1. request' \in [Requests -> Request]
        BY <2>5, AnswerTypes DEF Fail, Logout, Revoke, Shape
      <3> QED
        BY <2>5, <3>1 DEF Fail, Logout, Revoke, Shape
    <2>6. ASSUME NEW r \in Requests, Begin(r)
          PROVE  Shape'
      <3>1. request[r].user \in Users
        BY DEF Shape, Request
      <3> QED
        BY <2>6, <3>1 DEF Begin, Shape
    <2>7. ASSUME NEW r \in Requests, ChangeAccount(r)
          PROVE  Shape'
      <3>1. request[r] \in Request
        BY DEF Shape
      <3> DEFINE u == request[r].user
                 k == request[r].key
                 last == request[r].last
                 profile == account[u].profile
                 password == account[u].password + 1
      <3>2. /\ u \in Users /\ k \in Keys \cup {NoKey} /\ last \in Times \cup {Never}
            /\ "changed" \in Steps
        BY <3>1 DEF Request, Steps
      <3>3. profile \in BOOLEAN
        BY <3>2 DEF Shape, Account
      <3>4. Given(u, FALSE, profile) /\ Serve(r, "changed", k, u, password, last, TRUE)
        BY <2>7 DEF ChangeAccount
      <3>5. account' \in [Users -> Account] /\ password \in Passwords
        <4>1. account \in [Users -> Account]
          BY DEF Shape
        <4> QED
          BY <3>2, <3>3, <3>4, <4>1, GivenTypes
      <3>6. request' \in [Requests -> Request]
        <4>1. request \in [Requests -> Request]
          BY DEF Shape
        <4> HIDE DEF u, k, last, password, profile
        <4> QED
          BY <3>2, <3>4, <3>5, <4>1, ServeTypes
      <3> QED
        BY <2>7, <3>5, <3>6 DEF ChangeAccount, Shape
    <2>8. ASSUME NEW r \in Requests, ChangeProfile(r)
          PROVE  Shape'
      <3>1. request[r] \in Request
        BY DEF Shape
      <3>2. account' \in [Users -> Account]
        BY ZenonT(40), <2>8, <3>1 DEF ChangeProfile, Shape, Account, Request
      <3> DEFINE u == request[r].user
                 k == request[r].key
                 last == request[r].last
                 password == request[r].password
      <3>3. /\ u \in Users /\ k \in Keys \cup {NoKey} /\ last \in Times \cup {Never}
            /\ password \in Passwords /\ "profiled" \in Steps
        BY <3>1 DEF Request, Steps
      <3>4. Serve(r, "profiled", k, u, password, last, TRUE)
        BY <2>8 DEF ChangeProfile
      <3>5. request' \in [Requests -> Request]
        <4>1. request \in [Requests -> Request]
          BY DEF Shape
        <4> HIDE DEF u, k, last, password
        <4> QED
          BY <3>3, <3>4, <4>1, ServeTypes
      <3> QED
        BY <2>8, <3>2, <3>5 DEF ChangeProfile, Shape
    <2>9. ASSUME NEW r \in Requests, ChangeSession(r)
          PROVE  Shape'
      <3> DEFINE u == request[r].user
                 k == request[r].key
                 last == request[r].last
                 password == request[r].password
                 known == knows[k] \cup {password}
                 use == used[k]
      <3>1. request[r] \in Request
        BY DEF Shape
      <3>2. /\ u \in Users /\ last \in Times \cup {Never} /\ password \in Passwords
        BY <3>1 DEF Request
      <3>7. k \in Keys
        <4>1. k \in 1..made
          BY <2>9 DEF ChangeSession, Is, KeysMade, Within
        <4> QED
          BY <4>1, BoundsAssumption DEF Keys, Shape
      <3>3. known \in SUBSET Passwords /\ use \in Times \cup {Never}
        BY <3>2, <3>7 DEF Shape
      <3>4. Make(k, u, password, last, known, use) /\ Answer(r)
        BY <2>9 DEF ChangeSession
      <3>5. /\ session' \in [Keys -> Session] /\ made' \in 0..MaxSessions
            /\ open' \in SUBSET (1..made') /\ used' \in [Keys -> Times \cup {Never}]
            /\ knows' \in [Keys -> SUBSET Passwords]
        <4> HIDE DEF u, k, last, password, known, use
        <4> QED
          BY <3>2, <3>3, <3>4, MakeTypes
      <3>6. request' \in [Requests -> Request]
        BY <3>4, AnswerTypes DEF Shape
      <3> QED
        BY <2>9, <3>5, <3>6 DEF ChangeSession, Shape
    <2>10. ASSUME NEW u \in Users, Reset(u)
          PROVE  Shape'
      <3>1. Given(u, TRUE, TRUE) /\ account \in [Users -> Account]
        BY <2>10 DEF Reset, Shape
      <3>2. account' \in [Users -> Account]
        BY <3>1, GivenTypes
      <3> QED
        BY <2>10, <3>2 DEF Reset, Shape
    <2>11. ASSUME NEW u \in Users, Enable(u)
           PROVE  Shape'
      BY <2>11 DEF Enable, Shape, Account
    <2>12. ASSUME NEW r \in Requests, NEW u \in Users, Disable(r, u)
           PROVE  Shape'
      <3>1. account' \in [Users -> Account]
        BY <2>12 DEF Disable, Shape, Account
      <3> DEFINE password == account[u].password
      <3>2. password \in Passwords /\ request \in [Requests -> Request]
        BY DEF Shape, Account
      <3>3. Serve(r, "revoke", NoKey, u, password, Never, FALSE) /\ "revoke" \in Steps
        BY <2>12 DEF Disable, Steps
      <3>4. request' \in [Requests -> Request]
        <4> HIDE DEF password
        <4> QED
          BY <3>2, <3>3, ServeTypes
      <3> QED
        BY <2>12, <3>1, <3>4 DEF Disable, Shape
    <2>13. ASSUME NEW k \in Keys, Stale(k) \/ Expire(k) \/ Handshake(k)
           PROVE  Shape'
      BY <2>13 DEF Stale, Expire, Handshake, Session, Shape
    <2>14. ASSUME NEW u \in Users, HangUp(u) \/ Finish(u)
           PROVE  Shape'
      BY <2>14 DEF HangUp, Finish, Shape
    <2>15. CASE Tick
      BY <2>15, BoundsAssumption DEF Tick, Shape, Times
    <2>16. CASE UNCHANGED vars
      BY <2>16 DEF vars, Shape
    <2> QED
      BY <2>1, <2>2, <2>3, <2>4, <2>5, <2>6, <2>7, <2>8, <2>9, <2>10, <2>11, <2>12, <2>13,
         <2>14, <2>15, <2>16 DEF Next
  <1>3. TypeOK /\ [Next]_vars => KeysMade'
    <2> SUFFICES ASSUME Shape, KeysMade, [Next]_vars PROVE KeysMade'
      BY DEF TypeOK
    <2>1. Free.step \notin Within
      BY DEF Free, Within
    <2>2. made \in Nat /\ request \in [Requests -> Request]
      BY BoundsAssumption DEF Shape
    <2>3. ASSUME NEW r \in Requests, Answer(r), made' \in {made, made + 1}
          PROVE  KeysMade'
      BY <2>1, <2>2, <2>3 DEF Answer, KeysMade
    <2>4. ASSUME NEW r \in Requests, NEW step, NEW k, NEW u, NEW password, NEW last, NEW save,
                 Serve(r, step, k, u, password, last, save), made' = made,
                 step \in Within => k \in 1..made
          PROVE  KeysMade'
      BY <2>2, <2>4 DEF Serve, KeysMade
    <2>5. ASSUME NEW r \in Requests, NEW u \in Users, NEW k \in Keys \cup {NoKey},
                 Login(r, u, k)
          PROVE  KeysMade'
      <3>1. /\ Serve(r, "login", k, u, account[u].password, Never, FALSE) /\ made' = made
            /\ "login" \notin Within
        BY <2>5 DEF Login, Within
      <3> QED
        BY <2>4, <3>1
    <2>6. ASSUME NEW r \in Requests,
                 SignIn(r) \/ Store(r) \/ Fail(r) \/ Logout(r) \/ ChangeSession(r) \/ Revoke(r)
          PROVE  KeysMade'
      <3>1. Answer(r) /\ made' \in {made, made + 1}
        BY <2>6 DEF SignIn, Store, Fail, Logout, ChangeSession, Revoke, Make
      <3> QED
        BY <2>3, <3>1
    <2>7. ASSUME NEW r \in Requests, NEW k \in Keys,
                 NEW kind \in {"page", "poll", "logout", "change"}, Accept(r, k, kind)
          PROVE  KeysMade'
      <3>1. k \in 1..made /\ made' = made
        BY <2>7 DEF Accept, Shape
      <3>2. Serve(r, kind, k, session[k].user, session[k].password,
                  Touched(kind, session[k].last), Counts(kind, session[k].last))
        BY <2>7 DEF Accept
      <3> QED
        BY <2>4, <3>1, <3>2
    <2>8. ASSUME NEW r \in Requests, ChangeAccount(r)
          PROVE  KeysMade'
      <3>1. request[r].key \in 1..made /\ made' = made
        BY <2>8 DEF ChangeAccount, Is, KeysMade, Within
      <3>2. Serve(r, "changed", request[r].key, request[r].user,
                  account[request[r].user].password + 1, request[r].last, TRUE)
        BY <2>8 DEF ChangeAccount
      <3> QED
        BY <2>4, <3>1, <3>2
    <2>9. ASSUME NEW r \in Requests, ChangeProfile(r)
          PROVE  KeysMade'
      <3>1. request[r].key \in 1..made /\ made' = made
        BY <2>9 DEF ChangeProfile, Is, KeysMade, Within
      <3>2. Serve(r, "profiled", request[r].key, request[r].user, request[r].password,
                  request[r].last, TRUE)
        BY <2>9 DEF ChangeProfile
      <3> QED
        BY <2>4, <3>1, <3>2
    <2>10. ASSUME NEW r \in Requests, NEW u \in Users, Disable(r, u)
           PROVE  KeysMade'
      <3>1. /\ Serve(r, "revoke", NoKey, u, account[u].password, Never, FALSE) /\ made' = made
            /\ "revoke" \notin Within
        BY <2>10 DEF Disable, Within
      <3> QED
        BY <2>4, <3>1
    <2>11. CASE \/ \E r \in Requests : Begin(r)
                \/ \E k \in Keys : Stale(k) \/ Expire(k) \/ Handshake(k)
                \/ \E u \in Users : HangUp(u) \/ Finish(u) \/ Reset(u) \/ Enable(u)
                \/ Tick \/ UNCHANGED vars
      <3>1. UNCHANGED <<request, made>>
        BY <2>11 DEF Begin, Stale, Expire, Handshake, HangUp, Finish, Reset, Enable, Tick, vars
      <3> QED
        BY <3>1 DEF KeysMade
    <2> QED
      BY <2>5, <2>6, <2>7, <2>8, <2>9, <2>10, <2>11 DEF Next
  <1>4. Init => KeysMade
    BY DEF Init, KeysMade, Free, Within
  <1> QED
    BY <1>1, <1>2, <1>3, <1>4, PTL DEF Spec, TypeOK

-----------------------------------------------------------------------------
(* What a session and a request hold of the past. *)

\* An activity that is recorded is not later than the last one of the session.
Backed(k, last) == last = Never \/ (last <= used[k] /\ used[k] <= now)

SessionsBacked == \A k \in open : Backed(k, session[k].last)
RequestsBacked == \A r \in Requests : request[r].step \in Within => Backed(request[r].key, request[r].last)
SessionsKnown == \A k \in open : session[k].password \in knows[k]
RequestsKnown == \A r \in Requests :
    request[r].step \in {"page", "poll", "logout", "change"} => request[r].password \in knows[request[r].key]
Past == SessionsBacked /\ RequestsBacked /\ SessionsKnown /\ RequestsKnown

(* What is known of a key that was made stays, and its activity only grows. *)
LEMMA Older ==
  ASSUME Shape, [Next]_vars, NEW k \in 1..made
  PROVE  /\ knows'[k] = knows[k]
         /\ used'[k] = used[k] \/ used'[k] = now
         /\ now' \in {now, now + 1}
         /\ now \in Nat
  <1>1. made \in Nat /\ k # made + 1 /\ now \in Nat
    BY BoundsAssumption DEF Shape, Times
  <1>2. k \in Keys
    BY BoundsAssumption DEF Shape, Keys
  <1>3. ASSUME NEW j, NEW u, NEW password, NEW last, NEW known, NEW use,
               Make(j, u, password, last, known, use)
        PROVE  knows'[k] = knows[k] /\ used'[k] = used[k]
    BY <1>1, <1>2, <1>3 DEF Make, Shape
  <1>4. ASSUME NEW r \in Requests, SignIn(r) \/ ChangeSession(r)
        PROVE  knows'[k] = knows[k] /\ used'[k] = used[k] /\ now' = now
    BY <1>3, <1>4 DEF SignIn, ChangeSession
  <1>5. ASSUME NEW r \in Requests, NEW j \in Keys,
               NEW kind \in {"page", "poll", "logout", "change"}, Accept(r, j, kind)
        PROVE  /\ knows' = knows /\ now' = now
               /\ used'[k] = used[k] \/ used'[k] = now
    BY <1>2, <1>5 DEF Accept, Shape
  <1>6. CASE \/ \E r \in Requests :
                 \/ \E u \in Users, j \in Keys \cup {NoKey} : Login(r, u, j)
                 \/ Store(r) \/ Fail(r) \/ Logout(r) \/ Begin(r) \/ ChangeAccount(r)
                 \/ ChangeProfile(r) \/ (\E u \in Users : Disable(r, u)) \/ Revoke(r)
             \/ \E j \in Keys : Stale(j) \/ Expire(j) \/ Handshake(j)
             \/ \E u \in Users : HangUp(u) \/ Finish(u) \/ Reset(u) \/ Enable(u)
             \/ UNCHANGED vars
    <2>1. knows' = knows /\ used' = used /\ now' = now
      BY <1>6 DEF Login, Store, Fail, Logout, Begin, ChangeAccount, ChangeProfile, Disable,
                  Revoke, Stale, Expire, Handshake, HangUp, Finish, Reset, Enable, vars
    <2> QED
      BY <1>1, <2>1
  <1>7. CASE Tick
    BY <1>1, <1>7 DEF Tick
  <1> QED
    BY <1>1, <1>4, <1>5, <1>6, <1>7 DEF Next

LEMMA StaysBacked ==
  ASSUME Shape, [Next]_vars, NEW k \in 1..made, NEW last \in Times \cup {Never}, Backed(k, last)
  PROVE  Backed(k, last)'
  <1>1. /\ used'[k] = used[k] \/ used'[k] = now
        /\ now' \in {now, now + 1} /\ now \in Nat
    BY Older
  <1>2. k \in Keys
    BY BoundsAssumption DEF Shape, Keys
  <1>3. used[k] \in Nat /\ last \in Nat
    BY <1>2, BoundsAssumption DEF Shape, Times, Never
  <1> QED
    BY <1>1, <1>3 DEF Backed

\* What holds of an open session or of a request holds of it after a step that leaves it alone.
LEMMA SessionStays ==
  ASSUME Shape, Past, [Next]_vars, NEW k \in open, session'[k] = session[k]
  PROVE  Backed(k, session[k].last)' /\ session'[k].password \in knows'[k]
  <1>1. k \in 1..made /\ k \in Keys
    BY OpenKeys DEF Shape
  <1> DEFINE last == session[k].last
  <1>2. last \in Times \cup {Never} /\ Backed(k, last) /\ session[k].password \in knows[k]
    BY <1>1 DEF Shape, Session, Past, SessionsBacked, SessionsKnown
  <1>3. PICK before : before = session[k].last
    OBVIOUS
  <1>4. Backed(k, before)'
    BY <1>1, <1>2, <1>3, StaysBacked
  <1>5. knows'[k] = knows[k]
    BY <1>1, Older
  <1> QED
    BY <1>2, <1>3, <1>4, <1>5 DEF Backed

LEMMA RequestStays ==
  ASSUME Shape, KeysMade, Past, [Next]_vars, NEW r \in Requests, request[r].step \in Within,
         NEW last \in Times \cup {Never}, last = request[r].last
  PROVE  /\ Backed(request[r].key, last) /\ used'[request[r].key] \in {used[request[r].key], now}
         /\ knows'[request[r].key] = knows[request[r].key]
         /\ \A k : k = request[r].key => Backed(k, last)'
  <1>1. PICK k : k = request[r].key
    OBVIOUS
  <1>2. k \in 1..made
    BY <1>1 DEF KeysMade
  <1>3. Backed(k, last)
    BY <1>1 DEF Past, RequestsBacked
  <1>4. Backed(k, last)'
    BY <1>2, <1>3, StaysBacked
  <1>5. knows'[k] = knows[k] /\ used'[k] \in {used[k], now}
    BY <1>2, Older
  <1> QED
    BY <1>1, <1>3, <1>4, <1>5

LEMMA PastInit == Init => Past
  <1> SUFFICES ASSUME Init PROVE Past
    OBVIOUS
  <1>1. \A r \in Requests : request[r].step = "free"
    BY DEF Init, Free
  <1>2. open = {}
    BY DEF Init
  <1> QED
    BY <1>1, <1>2 DEF Past, SessionsBacked, RequestsBacked, SessionsKnown, RequestsKnown, Within

LEMMA SessionsStep ==
  ASSUME TypeOK, Past, [Next]_vars
  PROVE  SessionsBacked' /\ SessionsKnown'
  <1> USE DEF TypeOK
  <1> SUFFICES ASSUME NEW k \in open'
               PROVE  Backed(k, session[k].last)' /\ session'[k].password \in knows'[k]
    BY DEF SessionsBacked, SessionsKnown
  <1>1. ASSUME k \in open, session'[k] = session[k]
        PROVE  Backed(k, session[k].last)' /\ session'[k].password \in knows'[k]
    BY <1>1, SessionStays
  <1>2. made \in Nat /\ open \subseteq 1..made /\ open \subseteq Keys
    BY OpenKeys, BoundsAssumption DEF Shape
  <1>3. ASSUME NEW r \in Requests, SignIn(r)
        PROVE  Backed(k, session[k].last)' /\ session'[k].password \in knows'[k]
    <2> DEFINE q == request[r]
               last == IF Kept(q) THEN session[q.key].last ELSE Never
               use == IF last = Never THEN Never ELSE used[q.key]
    <2>1. Make(q.key, q.user, q.password, last, {q.password}, use) /\ now' = now
      BY <1>3 DEF SignIn
    <2>2. made + 1 \in Keys
      BY <2>1, NewKey DEF Make, Shape
    <2>3. CASE k = made + 1
      <3>1. /\ session'[k].last = last /\ session'[k].password = q.password
            /\ knows'[k] = {q.password} /\ used'[k] = use
        BY <2>1, <2>2, <2>3 DEF Make, Shape
      <3>2. last # Never => Backed(q.key, last)
        BY DEF Kept, Past, SessionsBacked
      <3>3. last # Never => last <= use /\ use <= now
        BY <3>2 DEF Backed
      <3>4. session'[k].password \in knows'[k]
        BY <3>1
      <3>5. session'[k].last = Never \/ (session'[k].last <= used'[k] /\ used'[k] <= now')
        <4> HIDE DEF last, use, q
        <4> QED
          BY <2>1, <3>1, <3>3
      <3> QED
        BY <3>4, <3>5 DEF Backed
    <2>4. CASE k # made + 1
      <3>1. k \in open
        BY <2>1, <2>4 DEF Make
      <3>2. session'[k] = session[k]
        BY <1>2, <2>1, <2>4, <3>1 DEF Make, Shape
      <3> QED
        BY <1>1, <3>1, <3>2
    <2> QED
      BY <2>3, <2>4
  <1>4. ASSUME NEW r \in Requests, ChangeSession(r)
        PROVE  Backed(k, session[k].last)' /\ session'[k].password \in knows'[k]
    <2> DEFINE q == request[r]
               known == knows[q.key] \cup {q.password}
    <2>1. Make(q.key, q.user, q.password, q.last, known, used[q.key]) /\ now' = now
      BY <1>4 DEF ChangeSession
    <2>2. made + 1 \in Keys
      BY <2>1, NewKey DEF Make, Shape
    <2>3. CASE k = made + 1
      <3>1. /\ session'[k].last = q.last /\ session'[k].password = q.password
            /\ knows'[k] = known /\ used'[k] = used[q.key]
        BY <2>1, <2>2, <2>3 DEF Make, Shape
      <3>2. Backed(q.key, q.last)
        BY <1>4 DEF ChangeSession, Is, Within, Past, RequestsBacked
      <3> QED
        BY <2>1, <3>1, <3>2 DEF Backed
    <2>4. CASE k # made + 1
      <3>1. k \in open
        BY <2>1, <2>4 DEF Make
      <3>2. session'[k] = session[k]
        BY <1>2, <2>1, <2>4, <3>1 DEF Make, Shape
      <3> QED
        BY <1>1, <3>1, <3>2
    <2> QED
      BY <2>3, <2>4
  <1>5. ASSUME NEW r \in Requests, Store(r)
        PROVE  Backed(k, session[k].last)' /\ session'[k].password \in knows'[k]
    <2> DEFINE q == request[r]
    <2>1. k \in open /\ open' = open /\ now' = now /\ used' = used /\ knows' = knows
      BY <1>5 DEF Store
    <2>2. CASE q.save /\ q.key \in open /\ k = q.key
      <3>1. session'[k].last = q.last /\ session'[k].password = q.password
        BY <1>2, <1>5, <2>1, <2>2 DEF Store, Shape
      <3>2. Backed(k, q.last) /\ q.password \in knows[k]
        BY <1>5, <2>2 DEF Store, Is, Within, Past, RequestsBacked, RequestsKnown
      <3> QED
        BY <2>1, <3>1, <3>2 DEF Backed
    <2>3. CASE ~(q.save /\ q.key \in open /\ k = q.key)
      <3>1. session'[k] = session[k]
        BY <1>2, <1>5, <2>1, <2>3 DEF Store, Shape
      <3> QED
        BY <1>1, <2>1, <3>1
    <2> QED
      BY <2>2, <2>3
  <1>6. CASE \/ \E r \in Requests :
                 \/ \E u \in Users, j \in Keys \cup {NoKey} : Login(r, u, j)
                 \/ \E j \in Keys, kind \in {"page", "poll", "logout", "change"} : Accept(r, j, kind)
                 \/ Fail(r) \/ Logout(r) \/ Begin(r) \/ ChangeAccount(r)
                 \/ ChangeProfile(r) \/ (\E u \in Users : Disable(r, u)) \/ Revoke(r)
             \/ \E j \in Keys : Stale(j) \/ Expire(j) \/ Handshake(j)
             \/ \E u \in Users : HangUp(u) \/ Finish(u) \/ Reset(u) \/ Enable(u)
             \/ Tick \/ UNCHANGED vars
    <2>1. session' = session /\ open' \subseteq open
      BY <1>6 DEF Login, Accept, Fail, Logout, Begin, ChangeAccount, ChangeProfile, Disable,
                  Revoke, Stale, Expire, Handshake, HangUp, Finish, Reset, Enable, Tick, vars
    <2> QED
      BY <1>1, <2>1
  <1> QED
    BY <1>3, <1>4, <1>5, <1>6 DEF Next

LEMMA RequestsStep ==
  ASSUME TypeOK, Past, [Next]_vars
  PROVE  RequestsBacked' /\ RequestsKnown'
  <1> USE DEF TypeOK
  <1> DEFINE Fine(r) ==
        /\ request'[r].step \in Within => Backed(request[r].key, request[r].last)'
        /\ request'[r].step \in {"page", "poll", "logout", "change"}
               => request'[r].password \in knows'[request'[r].key]
  <1>0. request \in [Requests -> Request] /\ Free.step = "free" /\ "free" \notin Within
    BY DEF Shape, Free, Within
  <1>1. ASSUME NEW r \in Requests, request'[r] = request[r]
        PROVE  Fine(r)
    <2>1. PICK last : last = request[r].last
      OBVIOUS
    <2>2. last \in Times \cup {Never}
      BY <1>0, <2>1 DEF Request
    <2>3. CASE request[r].step \in Within
      <3>1. PICK k : k = request[r].key
        OBVIOUS
      <3>2. Backed(k, last)' /\ knows'[k] = knows[k]
        BY <2>1, <2>2, <2>3, <3>1, RequestStays
      <3>3. request[r].step \in {"page", "poll", "logout", "change"} => request[r].password \in knows[k]
        BY <3>1 DEF Past, RequestsKnown
      <3> QED
        BY <1>1, <2>1, <3>1, <3>2, <3>3 DEF Backed
    <2>4. CASE request[r].step \notin Within
      BY <1>1, <2>4 DEF Within
    <2> QED
      BY <2>3, <2>4
  <1>2. ASSUME NEW r \in Requests, Answer(r), NEW x \in Requests
        PROVE  Fine(x)
    <2>1. CASE x = r
      <3>1. request'[x].step = "free"
        BY <1>0, <1>2, <2>1 DEF Answer
      <3> QED
        BY <3>1 DEF Within
    <2>2. CASE x # r
      BY <1>0, <1>1, <1>2, <2>2 DEF Answer
    <2> QED
      BY <2>1, <2>2
  <1>3. ASSUME NEW r \in Requests, NEW step, NEW k, NEW u, NEW password, NEW last, NEW save,
               Serve(r, step, k, u, password, last, save), NEW x \in Requests,
               step \in Within => Backed(k, last)',
               step \in {"page", "poll", "logout", "change"} => password \in knows'[k]
        PROVE  Fine(x)
    <2>1. CASE x = r
      <3>1. /\ request'[x].step = step /\ request'[x].key = k
            /\ request'[x].password = password /\ request'[x].last = last
        BY <1>0, <1>3, <2>1 DEF Serve
      <3>2. ASSUME request'[x].step \in Within
            PROVE  Backed(request[x].key, request[x].last)'
        <4>1. Backed(k, last)'
          BY <1>3, <3>1, <3>2
        <4> QED
          BY <3>1, <4>1 DEF Backed
      <3>3. ASSUME request'[x].step \in {"page", "poll", "logout", "change"}
            PROVE  request'[x].password \in knows'[request'[x].key]
        BY <1>3, <3>1, <3>3
      <3> QED
        BY <3>2, <3>3
    <2>2. CASE x # r
      BY <1>0, <1>1, <1>3, <2>2 DEF Serve
    <2> QED
      BY <2>1, <2>2
  <1> SUFFICES ASSUME NEW x \in Requests PROVE Fine(x)
    BY DEF RequestsBacked, RequestsKnown
  <1> HIDE DEF Fine
  <1>4. ASSUME NEW r \in Requests, NEW u \in Users, NEW k \in Keys \cup {NoKey}, Login(r, u, k)
        PROVE  Fine(x)
    <2>1. PICK password : password = account[u].password
      OBVIOUS
    <2>2. Serve(r, "login", k, u, password, Never, FALSE)
      BY <1>4, <2>1 DEF Login
    <2>3. "login" \notin Within /\ "login" \notin {"page", "poll", "logout", "change"}
      BY DEF Within
    <2> QED
      BY <1>3, <2>2, <2>3
  <1>5. ASSUME NEW r \in Requests,
               SignIn(r) \/ Store(r) \/ Fail(r) \/ Logout(r) \/ ChangeSession(r) \/ Revoke(r)
        PROVE  Fine(x)
    <2>1. Answer(r)
      BY <1>5 DEF SignIn, Store, Fail, Logout, ChangeSession, Revoke
    <2> QED
      BY <1>2, <2>1
  <1>6. ASSUME NEW r \in Requests, NEW k \in Keys,
               NEW kind \in {"page", "poll", "logout", "change"}, Accept(r, k, kind)
        PROVE  Fine(x)
    <2>1. PICK u, password, old, last, save :
             /\ u = session[k].user /\ password = session[k].password /\ old = session[k].last
             /\ last = Touched(kind, old) /\ save = Counts(kind, old)
      OBVIOUS
    <2>2. Serve(r, kind, k, u, password, last, save) /\ k \in open /\ knows' = knows /\ now' = now
      BY <1>6, <2>1 DEF Accept
    <2>3. password \in knows'[k]
      BY <2>1, <2>2 DEF Past, SessionsKnown
    <2>4. used' = IF Counts(kind, old) THEN [used EXCEPT ![k] = now] ELSE used
      BY <1>6, <2>1 DEF Accept, Counts
    <2>5. Backed(k, last)'
      <3>1. CASE Counts(kind, old)
        <4>1. last = now /\ used'[k] = now /\ now \in Nat
          BY <2>1, <2>4, <3>1, BoundsAssumption DEF Touched, Shape, Times
        <4> QED
          BY <2>2, <4>1 DEF Backed
      <3>2. CASE ~Counts(kind, old)
        <4>1. last = old /\ used' = used /\ Backed(k, old)
          BY <2>1, <2>2, <2>4, <3>2 DEF Touched, Past, SessionsBacked
        <4> QED
          BY <2>2, <4>1 DEF Backed
      <3> QED
        BY <3>1, <3>2
    <2> QED
      BY <1>3, <2>2, <2>3, <2>5
  <1>7. ASSUME NEW r \in Requests, ChangeAccount(r) \/ ChangeProfile(r)
        PROVE  Fine(x)
    <2>1. PICK step, k, u, password, last :
             /\ step \in {"changed", "profiled"} /\ Serve(r, step, k, u, password, last, TRUE)
             /\ k = request[r].key /\ last = request[r].last
      BY <1>7 DEF ChangeAccount, ChangeProfile
    <2>2. request[r].step \in Within
      BY <1>7 DEF ChangeAccount, ChangeProfile, Is, Within
    <2>3. last \in Times \cup {Never}
      BY <1>0, <2>1 DEF Request
    <2>4. Backed(k, last)'
      BY <2>1, <2>2, <2>3, RequestStays
    <2>5. step \notin {"page", "poll", "logout", "change"}
      BY <2>1
    <2> QED
      BY <1>3, <2>1, <2>4, <2>5
  <1>8. ASSUME NEW r \in Requests, NEW u \in Users, Disable(r, u)
        PROVE  Fine(x)
    <2>1. PICK password : Serve(r, "revoke", NoKey, u, password, Never, FALSE)
      BY <1>8 DEF Disable
    <2>3. "revoke" \notin Within /\ "revoke" \notin {"page", "poll", "logout", "change"}
      BY DEF Within
    <2> QED
      BY <1>3, <2>1, <2>3
  <1>9. CASE \/ \E r \in Requests : Begin(r)
             \/ \E j \in Keys : Stale(j) \/ Expire(j) \/ Handshake(j)
             \/ \E u \in Users : HangUp(u) \/ Finish(u) \/ Reset(u) \/ Enable(u)
             \/ Tick \/ UNCHANGED vars
    <2>1. request' = request
      BY <1>9 DEF Begin, Stale, Expire, Handshake, HangUp, Finish, Reset, Enable, Tick, vars
    <2> QED
      BY <1>1, <2>1
  <1> QED
    BY <1>4, <1>5, <1>6, <1>7, <1>8, <1>9 DEF Next

LEMMA PastHolds == Spec => []Past
  <1>1. TypeOK /\ Past /\ [Next]_vars => Past'
    BY SessionsStep, RequestsStep DEF Past
  <1> QED
    BY <1>1, PastInit, Typing, PTL DEF Spec

-----------------------------------------------------------------------------
(* The theorems. *)

\* The state is well typed, and a request being served holds the key of a session that was
\* made.
THEOREM Sessions_TypeOK == Spec => []TypeOK
  BY Typing, PTL

\* A password that was assigned asks its user to change it: no step takes the last of the
\* two flags from an assigned password, for the change that clears the one on the account
\* gives the account a password of the user's.
THEOREM Sessions_AskedToChange == Spec => []AskedToChange
  <1> DEFINE Asked == \A u \in Users : account[u].assigned => account[u].user
  <1>1. Init => Asked
    BY DEF Init
  <1>2. TypeOK /\ Asked /\ [Next]_vars => Asked'
    <2> SUFFICES ASSUME TypeOK, Asked, [Next]_vars, NEW u \in Users, account'[u].assigned
                 PROVE  account'[u].user
      OBVIOUS
    <2>0. account \in [Users -> Account]
      BY DEF TypeOK, Shape
    <2>1. ASSUME account'[u] = account[u]
          PROVE  account'[u].user
      BY <2>1
    <2>2. ASSUME NEW x \in Users, NEW assigned, NEW profile, Given(x, assigned, profile)
          PROVE  account'[u].user
      BY <2>0, <2>1, <2>2 DEF Given
    <2>3. ASSUME NEW r \in Requests, ChangeAccount(r)
          PROVE  account'[u].user
      <3>1. request[r].user \in Users
        BY DEF TypeOK, Shape, Request
      <3> QED
        BY <2>2, <2>3, <3>1 DEF ChangeAccount
    <2>4. ASSUME NEW x \in Users, Reset(x)
          PROVE  account'[u].user
      BY <2>2, <2>4 DEF Reset
    <2>5. ASSUME NEW r \in Requests, ChangeProfile(r)
          PROVE  account'[u].user
      <3>1. account'[u].user = account[u].user /\ account'[u].assigned = account[u].assigned
        BY <2>0, <2>5 DEF ChangeProfile, Account
      <3> QED
        BY <3>1
    <2>6. ASSUME NEW x \in Users, Enable(x) \/ \E r \in Requests : Disable(r, x)
          PROVE  account'[u].user
      <3>1. account'[u].user = account[u].user /\ account'[u].assigned = account[u].assigned
        BY <2>0, <2>6 DEF Enable, Disable, Account
      <3> QED
        BY <3>1
    <2>7. CASE \/ \E r \in Requests :
                   \/ \E x \in Users, k \in Keys \cup {NoKey} : Login(r, x, k)
                   \/ SignIn(r)
                   \/ \E k \in Keys, kind \in {"page", "poll", "logout", "change"} : Accept(r, k, kind)
                   \/ Store(r) \/ Fail(r) \/ Logout(r) \/ Begin(r) \/ ChangeSession(r) \/ Revoke(r)
               \/ \E k \in Keys : Stale(k) \/ Expire(k) \/ Handshake(k)
               \/ \E x \in Users : HangUp(x) \/ Finish(x)
               \/ Tick \/ UNCHANGED vars
      <3>1. account' = account
        BY <2>7 DEF Login, SignIn, Accept, Store, Fail, Logout, Begin, ChangeSession, Revoke,
                    Stale, Expire, Handshake, HangUp, Finish, Tick, vars
      <3> QED
        BY <2>1, <3>1
    <2> QED
      BY <2>3, <2>4, <2>5, <2>6, <2>7 DEF Next
  <1>3. Asked => AskedToChange
    BY DEF AskedToChange
  <1> QED
    BY <1>1, <1>2, <1>3, Typing, PTL DEF Spec

\* A session that is accepted is one whose holder gave or chose the present password.
THEOREM Sessions_KnownPassword == Spec => []KnownPassword
  <1>1. Past => KnownPassword
    BY DEF Past, SessionsKnown, KnownPassword, Matches
  <1> QED
    BY <1>1, PastHolds, PTL

\* An idle session is accepted no more over HTTP, unless an attempt is in progress: no
\* request, answer or WebSocket leaves a time in it later than that of its last use.
THEOREM Sessions_IdleEnds == Spec => IdleEnds
  <1> DEFINE kinds == {"page", "poll", "logout", "change"}
             Step == \A r \in Requests, k \in Keys :
                (request[r].step = "free" /\ request'[r].step \in kinds /\ request'[r].key = k
                    /\ session[k].last # Never /\ session[k].user \notin attempt)
                => now - used[k] < Timeout
  <1>1. TypeOK /\ Past /\ Next => Step
    <2> SUFFICES ASSUME TypeOK, Past, Next, NEW x \in Requests, NEW k \in Keys,
                        request[x].step = "free", request'[x].step \in kinds,
                        request'[x].key = k, session[k].last # Never, session[k].user \notin attempt
                 PROVE  now - used[k] < Timeout
      BY Zenon
    <2>0. Shape /\ request \in [Requests -> Request] /\ Free.step = "free"
      BY DEF TypeOK, Shape, Free
    <2>1. \E r \in Requests, j \in Keys, kind \in kinds : Accept(r, j, kind)
      <3> SUFFICES ASSUME ~\E r \in Requests, j \in Keys, kind \in kinds : Accept(r, j, kind)
                   PROVE  FALSE
        OBVIOUS
      <3>1. ASSUME NEW r \in Requests, NEW step, NEW j, NEW u, NEW password, NEW last, NEW save,
                   Serve(r, step, j, u, password, last, save), step \notin kinds
            PROVE  FALSE
        BY <2>0, <3>1 DEF Serve
      <3>2. ASSUME NEW r \in Requests, Answer(r)
            PROVE  FALSE
        BY <2>0, <3>2 DEF Answer
      <3>3. ASSUME request' = request
            PROVE  FALSE
        BY <3>3
      <3>4. ASSUME NEW r \in Requests, NEW u \in Users, NEW j \in Keys \cup {NoKey}, Login(r, u, j)
            PROVE  FALSE
        BY <3>1, <3>4 DEF Login
      <3>5. ASSUME NEW r \in Requests,
                   SignIn(r) \/ Store(r) \/ Fail(r) \/ Logout(r) \/ ChangeSession(r) \/ Revoke(r)
            PROVE  FALSE
        BY <3>2, <3>5 DEF SignIn, Store, Fail, Logout, ChangeSession, Revoke
      <3>6. ASSUME NEW r \in Requests, ChangeAccount(r) \/ ChangeProfile(r)
            PROVE  FALSE
        BY <3>1, <3>6 DEF ChangeAccount, ChangeProfile
      <3>7. ASSUME NEW r \in Requests, NEW u \in Users, Disable(r, u)
            PROVE  FALSE
        BY <3>1, <3>7 DEF Disable
      <3>8. CASE \/ \E r \in Requests : Begin(r)
                 \/ \E j \in Keys : Stale(j) \/ Expire(j) \/ Handshake(j)
                 \/ \E u \in Users : HangUp(u) \/ Finish(u) \/ Reset(u) \/ Enable(u)
                 \/ Tick
        BY <3>3, <3>8 DEF Begin, Stale, Expire, Handshake, HangUp, Finish, Reset, Enable, Tick
      <3> QED
        BY <3>4, <3>5, <3>6, <3>7, <3>8 DEF Next
    <2>2. PICK r \in Requests, j \in Keys, kind \in kinds : Accept(r, j, kind)
      BY <2>1
    <2>3. j = k
      BY <2>0, <2>2 DEF Accept, Serve
    <2>4. k \in open /\ ~Expired(k)
      BY <2>2, <2>3 DEF Accept
    <2>5. now - session[k].last < Timeout
      BY <2>0, <2>4, BoundsAssumption DEF Expired, Elapsed, Shape, Session, Times
    <2>6. session[k].last <= used[k]
      BY <2>4 DEF Past, SessionsBacked, Backed
    <2>7. now \in Nat /\ Timeout \in Nat /\ session[k].last \in Nat /\ used[k] \in Nat
      BY <2>0, BoundsAssumption DEF Shape, Session, Times, Never
    <2> QED
      BY <2>5, <2>6, <2>7
  <1>2. TypeOK /\ Past /\ [Next]_vars => [Step]_vars
    BY <1>1
  <1>3. IdleEnds <=> [][Step]_vars
    BY DEF IdleEnds
  <1> HIDE DEF Step
  <1> QED
    BY <1>2, <1>3, PastHolds, Typing, PTL DEF Spec


-----------------------------------------------------------------------------
(* Accounts.                                                               *)
-----------------------------------------------------------------------------
(* Types. *)
Student == [id : Nat, roll : Rolls, email : Rolls \cup Addresses, section : Sections \cup {NoSection}]
Admin == [id : Nat, number : Nat \cup Old, email : Addresses \cup {"primary", "earlier"}, active : BOOLEAN]
Entry == ({"created"} \X Nat \X Nat) \cup ({"deleted"} \X Nat)
ShownRow == [roll : Rolls, plain : BOOLEAN, email : Rolls \cup Addresses, generated : BOOLEAN]
ShownRows == UNION {[D -> ShownRow] : D \in SUBSET Nat}
Deleting == [step : {"checked", "logged"}, id : Nat, left : Seq(Nat)]
ImportPage == [step : {"importing", "imported"}, rows : ShownRows, left : SUBSET Nat,
               failed : SUBSET Nat, mine : SUBSET (Rolls \cup Addresses)]
CallState ==
    [step : {"free"}]
    \cup [step : {"empty"}, section : Sections]
    \cup [step : {"register"}, roll : Rolls, email : Addresses, section : Sections \cup {NoSection}]
    \cup [step : {"reassign"}, id : Nat, section : Sections \cup {NoSection}]
    \cup [step : {"several"}, left : Seq(Nat) \ {<<>>}]
    \cup Deleting
    \cup [step : {"previewed"}, rows : ShownRows]
    \cup ImportPage

SectionsOK == /\ sections \in [Sections -> {"none", "active", "inactive", "deleted"}]
              /\ targeted \subseteq Sections
PeopleOK == /\ students \subseteq Student
            /\ admins \subseteq Admin /\ IsFiniteSet(admins)
            /\ sequence \in Nat \ {0} /\ entered \in Nat
TrailOK == records \subseteq Nat /\ held \subseteq Nat /\ audit \subseteq Entry
CallsOK == call \in [Calls -> CallState] /\ taken \in [Calls -> SUBSET (Rolls \cup Addresses)]
\* What is left of an import, and what failed, are rows of the preview.
LeftShown == \A r \in Calls : call[r].step \in {"importing", "imported"} =>
    call[r].left \cup call[r].failed \subseteq DOMAIN call[r].rows
AccountsTypeOK == SectionsOK /\ PeopleOK /\ TrailOK /\ CallsOK

LEMMA Least ==
    ASSUME NEW S, S \subseteq Nat, S # {}
    PROVE  \E m \in S : \A n \in S : m <= n
<1>1. IsWellFoundedOn(OpToRel(<, Nat), Nat)
    BY NatLessThanWellFounded
<1>2. PICK m \in S : \A n \in S : <<n, m>> \notin OpToRel(<, Nat)
    BY <1>1, WFMin
<1>3. \A n \in S : ~(n < m)
    BY <1>2 DEF OpToRel
<1>q. QED
    BY <1>3

LEMMA SomeNumberFree ==
    ASSUME NEW A, IsFiniteSet(A), NEW lo \in Nat
    PROVE  \E n \in lo..(lo + Cardinality(A)) : n \notin {a.number : a \in A}
<1> DEFINE N == {a.number : a \in A}
           hi == lo + Cardinality(A)
<1>1. IsFiniteSet(N) /\ Cardinality(N) <= Cardinality(A) /\ Cardinality(N) \in Nat /\ Cardinality(A) \in Nat
  <2> DEFINE f == [a \in A |-> a.number]
  <2>1. f \in Surjection(A, N)
    BY DEF Surjection
  <2>2. IsFiniteSet(N) /\ Cardinality(N) <= Cardinality(A)
    BY <2>1, FS_Surjection DEF ExistsSurjection
  <2>q. QED BY <2>2, FS_CardinalityType
<1>2. lo \in Int /\ hi \in Int /\ ~(lo > hi) /\ hi - lo + 1 = Cardinality(A) + 1
    BY <1>1
<1> HIDE DEF hi
<1>3. IsFiniteSet(lo..hi) /\ Cardinality(lo..hi) = Cardinality(A) + 1
    BY <1>2, FS_Interval
<1> HIDE DEF N
<1>4. ASSUME lo..hi \subseteq N PROVE FALSE
  <2>1. lo..hi \in SUBSET N
    BY <1>4
  <2>2. Cardinality(lo..hi) <= Cardinality(N)
    BY <1>1, <2>1, FS_Subset
  <2>q. QED BY <2>2, <1>1, <1>3
<1>q. QED
    BY <1>4 DEF N, hi

\* The search for the number of a new administrator ends: the least free one from the sequence on
\* exists, and no account has it.
THEOREM NumberFound ==
    ASSUME PeopleOK
    PROVE  /\ NextNumber \in Nat /\ NextNumber >= sequence
           /\ NextNumber \notin {a.number : a \in admins}
           /\ \A m \in sequence..(NextNumber - 1) : m \in {a.number : a \in admins}
<1> DEFINE I == sequence..(sequence + Cardinality(admins))
           N == {a.number : a \in admins}
           First(n) == /\ n \notin N
                       /\ \A m \in sequence..(n - 1) : m \in N
<1>1. sequence \in Nat /\ IsFiniteSet(admins) /\ Cardinality(admins) \in Nat
    BY FS_CardinalityType DEF PeopleOK
<1>2. I \ N # {} /\ I \ N \subseteq Nat
    BY <1>1, SomeNumberFree
<1>3. PICK n \in I \ N : \A m \in I \ N : n <= m
    BY <1>2, Least
<1>4. \A m \in sequence..(n - 1) : m \in N
    BY <1>1, <1>3
<1>5. \E k \in I : First(k)
    BY <1>3, <1>4
<1>6. NextNumber \in I /\ First(NextNumber)
    BY <1>5 DEF NextNumber
<1>q. QED
    BY <1>1, <1>6

-----------------------------------------------------------------------------
(* Types. *)

LEMMA PutTypes ==
  ASSUME CallsOK, NEW r \in Calls, NEW q \in CallState, Put(r, q)
  PROVE  call' \in [Calls -> CallState]
BY DEF CallsOK, Put

LEMMA TakeTypes ==
  ASSUME CallsOK, NEW pages, NEW ids \in SUBSET (Rolls \cup Addresses), Take(pages, ids)
  PROVE  taken' \in [Calls -> SUBSET (Rolls \cup Addresses)]
<1>1. \A x \in Calls : taken[x] \cup (ids \cap Named(x)) \subseteq Rolls \cup Addresses
  BY DEF CallsOK
<1> QED
  BY <1>1 DEF Take, CallsOK

LEMMA CallAt ==
  ASSUME CallsOK, NEW r \in Calls
  PROVE  /\ At(r, "empty") => call[r] \in [step : {"empty"}, section : Sections]
         /\ At(r, "register") => call[r] \in [step : {"register"}, roll : Rolls, email : Addresses,
                                              section : Sections \cup {NoSection}]
         /\ At(r, "reassign") => call[r] \in [step : {"reassign"}, id : Nat, section : Sections \cup {NoSection}]
         /\ At(r, "several") => call[r] \in [step : {"several"}, left : Seq(Nat) \ {<<>>}]
         /\ At(r, "checked") \/ At(r, "logged") => call[r] \in Deleting
         /\ At(r, "previewed") => call[r] \in [step : {"previewed"}, rows : ShownRows]
         /\ At(r, "importing") \/ At(r, "imported") => call[r] \in ImportPage
<1>1. call[r] \in CallState
  BY DEF CallsOK
<1> QED
  BY <1>1 DEF At, CallState, Deleting, ImportPage

LEMMA NewStates ==
  /\ NoCall \in CallState
  /\ \A s \in Sections : [step |-> "empty", section |-> s] \in CallState
  /\ \A roll \in Rolls, email \in Addresses, s \in Sections \cup {NoSection} :
        [step |-> "register", roll |-> roll, email |-> email, section |-> s] \in CallState
  /\ \A id \in Nat, s \in Sections \cup {NoSection} :
        [step |-> "reassign", id |-> id, section |-> s] \in CallState
  /\ \A left \in Seq(Nat) : ToDelete(left) \in CallState
  /\ \A step \in {"checked", "logged"}, id \in Nat, left \in Seq(Nat) :
        [step |-> step, id |-> id, left |-> left] \in CallState
  /\ \A rows \in ShownRows : Show(rows) \in CallState
  /\ \A rows \in ShownRows, left, failed \in SUBSET Nat, mine \in SUBSET (Rolls \cup Addresses) :
        Import(rows, left, failed, mine) \in CallState
<1>1. NoCall \in CallState
  BY DEF CallState, NoCall
<1>2. \A s \in Sections : [step |-> "empty", section |-> s] \in CallState
  BY DEF CallState
<1>3. \A roll \in Rolls, email \in Addresses, s \in Sections \cup {NoSection} :
        [step |-> "register", roll |-> roll, email |-> email, section |-> s] \in CallState
  BY DEF CallState
<1>4. \A id \in Nat, s \in Sections \cup {NoSection} :
        [step |-> "reassign", id |-> id, section |-> s] \in CallState
  BY DEF CallState
<1>5. \A left \in Seq(Nat) : ToDelete(left) \in CallState
  BY <1>1 DEF CallState, ToDelete
<1>6. \A step \in {"checked", "logged"}, id \in Nat, left \in Seq(Nat) :
        [step |-> step, id |-> id, left |-> left] \in CallState
  BY DEF CallState, Deleting
<1>7. \A rows \in ShownRows : Show(rows) \in CallState
  BY DEF CallState, Show
<1>8. \A rows \in ShownRows, left, failed \in SUBSET Nat, mine \in SUBSET (Rolls \cup Addresses) :
        Import(rows, left, failed, mine) \in CallState
  BY DEF CallState, Import, ImportPage
<1> QED
  BY <1>1, <1>2, <1>3, <1>4, <1>5, <1>6, <1>7, <1>8

LEMMA RowShown ==
  ASSUME NEW rows \in ShownRows, NEW i \in DOMAIN rows
  PROVE  rows[i] \in ShownRow /\ i \in Nat
BY DEF ShownRows

LEMMA ValidRowsShown ==
  ASSUME NEW file \in Files, LET parsed == ParseFile(file)
                             IN \A i \in DOMAIN parsed.rows : parsed.rows[i].roll # Void
  PROVE  ValidRows(ParseFile(file)) \in ShownRows
<1> DEFINE Line == [roll : Rolls \cup {Blank, Void}, plain : BOOLEAN,
                    email : Rolls \cup Addresses \cup {Blank}, section : Sections \cup {Blank}]
           parsed == ParseFile(file)
           D == {i \in DOMAIN parsed.rows : Valid(parsed, i)}
<1>1. file.lines \in Seq(Line)
  BY RowsAssumption
<1>2. \A i \in DOMAIN file.lines : file.lines[i] \in Line /\ i \in Nat
  <2> HIDE DEF Line
  <2> QED
    BY <1>1
<1>3. \A l \in Line : Cells(file, l) \in Line
  BY DEF Cells
<1>4. \A i \in DOMAIN parsed.rows : parsed.rows[i] \in Line /\ i \in Nat
  BY <1>2, <1>3 DEF ParseFile
<1>5. \A i \in D : parsed.rows[i].roll # Blank /\ parsed.rows[i].roll # Void
  BY DEF Valid
<1>6. \A i \in D : Carried(parsed.rows[i]) \in ShownRow
  BY <1>4, <1>5 DEF Carried, ShownRow, Address
<1>7. D \in SUBSET Nat
  BY <1>4
<1>8. ValidRows(parsed) = [i \in D |-> Carried(parsed.rows[i])]
  BY DEF ValidRows
<1> QED
  BY <1>6, <1>7, <1>8 DEF ShownRows

LEMMA SectionsStep ==
  ASSUME AccountsTypeOK, [AccountsNext]_accountsVars
  PROVE  SectionsOK'
<1> USE DEF AccountsTypeOK
<1>1. ASSUME NEW s \in Sections, NEW state \in {"active", "inactive"}, CreateSection(s, state)
      PROVE  SectionsOK'
  BY <1>1 DEF CreateSection, SectionsOK
<1>2. ASSUME NEW s \in Sections, SetSection(s)
      PROVE  SectionsOK'
  BY <1>2 DEF SetSection, SectionsOK
<1>3. ASSUME NEW s \in Sections, Target(s)
      PROVE  SectionsOK'
  BY <1>3 DEF Target, SectionsOK
<1>4. ASSUME NEW r \in Calls, DeleteSection(r)
      PROVE  SectionsOK'
  BY <1>4, CallAt DEF DeleteSection, SectionsOK
<1>5. CASE UNCHANGED <<sections, targeted>>
  BY <1>5 DEF SectionsOK
<1> QED
  BY ZenonT(40), <1>1, <1>2, <1>3, <1>4, <1>5
     DEF AccountsNext, accountsVars, CheckSection, Register, CreateStudent, UpdateEmail, Reassign,
         ChangeSection, CreateAdmin, SetAdminStatus, Record, Hold, Release, CheckDelete,
         DeleteStudents, DeleteAdmins, TryNext, LogDelete, Delete, Preview, Confirm, ImportRow,
         LoseImport, Close, Crash

LEMMA EnterTypes ==
  ASSUME PeopleOK, TrailOK, NEW roll \in Rolls, NEW email \in Rolls \cup Addresses,
         NEW s \in Sections \cup {NoSection}, Enter(roll, email, s)
  PROVE  /\ students' \subseteq Student /\ entered' \in Nat /\ audit' \subseteq Entry
<1>1. entered + 1 \in Nat
  BY DEF PeopleOK
<1>2. [id |-> entered + 1, roll |-> roll, email |-> email, section |-> s] \in Student
  BY <1>1 DEF Student
<1>3. <<"created", entered + 1, NoNumber>> \in Entry
  BY <1>1 DEF Entry, NoNumber
<1> QED
  BY <1>1, <1>2, <1>3 DEF Enter, PeopleOK, TrailOK

LEMMA ImportedRow ==
  ASSUME CallsOK, NEW r \in Calls, NEW i, ImportRow(r, i), i \in DOMAIN call[r].rows
  PROVE  /\ call[r] \in ImportPage
         /\ call[r].rows[i] \in ShownRow
         /\ i \in Nat
<1>1. call[r] \in ImportPage
  BY CallAt DEF ImportRow
<1> QED
  BY <1>1, RowShown DEF ImportPage

LEMMA PeopleStep ==
  ASSUME AccountsTypeOK, LeftShown, [AccountsNext]_accountsVars
  PROVE  PeopleOK'
<1> USE DEF AccountsTypeOK
<1>1. ASSUME NEW r \in Calls, DeleteSection(r)
      PROVE  PeopleOK'
  <2>1. \A x \in Student : [x EXCEPT !.section = NoSection] \in Student
    BY DEF Student
  <2> QED
    BY <1>1, <2>1 DEF DeleteSection, PeopleOK
<1>2. ASSUME NEW r \in Calls, CreateStudent(r)
      PROVE  PeopleOK'
  <2>1. CASE Enter(call[r].roll, call[r].email, call[r].section)
    <3>1. call[r].roll \in Rolls /\ call[r].email \in Rolls \cup Addresses
          /\ call[r].section \in Sections \cup {NoSection}
      BY <1>2, CallAt DEF CreateStudent
    <3> QED
      BY <1>2, <2>1, <3>1, EnterTypes DEF CreateStudent, PeopleOK
  <2>2. CASE UNCHANGED <<students, entered>>
    BY <1>2, <2>2 DEF CreateStudent, PeopleOK
  <2> QED
    BY <1>2, <2>1, <2>2 DEF CreateStudent
<1>3. ASSUME NEW x \in students, NEW email \in Addresses, UpdateEmail(x, email)
      PROVE  PeopleOK'
  <2>1. [x EXCEPT !.email = email] \in Student
    BY DEF Student, PeopleOK
  <2> QED
    BY <1>3, <2>1 DEF UpdateEmail, PeopleOK
<1>4. ASSUME NEW r \in Calls, ChangeSection(r)
      PROVE  PeopleOK'
  <2>1. call[r].section \in Sections \cup {NoSection}
    BY <1>4, CallAt DEF ChangeSection
  <2>2. \A x \in Student : [x EXCEPT !.section = call[r].section] \in Student
    BY <2>1 DEF Student
  <2> QED
    BY <1>4, <2>2 DEF ChangeSection, PeopleOK
<1>5. ASSUME NEW email \in Addresses, NEW active \in BOOLEAN, CreateAdmin(email, active)
      PROVE  PeopleOK'
  <2>1. NextNumber \in Nat /\ NextNumber >= sequence
    BY NumberFound
  <2> DEFINE new == [id |-> entered + 1, number |-> NextNumber, email |-> email, active |-> active]
  <2>2. new \in Admin
    BY <2>1 DEF PeopleOK, Admin
  <2>3. admins' = admins \cup {new} /\ sequence' = NextNumber + 1 /\ entered' = entered + 1 /\ students' = students
    BY <1>5 DEF CreateAdmin, Gives
  <2> HIDE DEF new
  <2>4. IsFiniteSet(admins')
    BY <2>3, FS_AddElement DEF PeopleOK
  <2> QED
    BY <2>1, <2>2, <2>3, <2>4 DEF PeopleOK
<1>6. ASSUME NEW a \in admins, SetAdminStatus(a)
      PROVE  PeopleOK'
  <2> DEFINE new == [a EXCEPT !.active = ~@]
  <2>1. new \in Admin
    BY DEF PeopleOK, Admin
  <2>2. admins' = (admins \ {a}) \cup {new}
    BY <1>6 DEF SetAdminStatus
  <2> HIDE DEF new
  <2>3. IsFiniteSet(admins')
    BY <2>2, FS_AddElement, FS_RemoveElement DEF PeopleOK
  <2> QED
    BY <1>6, <2>1, <2>2, <2>3 DEF SetAdminStatus, PeopleOK
<1>7. ASSUME NEW r \in Calls, Delete(r)
      PROVE  PeopleOK'
  <2>1. admins' \in SUBSET admins /\ students' \subseteq students
    BY <1>7 DEF Delete
  <2>2. IsFiniteSet(admins')
    BY <2>1, FS_Subset DEF PeopleOK
  <2> QED
    BY <1>7, <2>1, <2>2 DEF Delete, PeopleOK
<1>8. ASSUME NEW r \in Calls, NEW i \in call[r].left, At(r, "importing"), ImportRow(r, i)
      PROVE  PeopleOK'
  <2>0. i \in DOMAIN call[r].rows
    BY <1>8 DEF LeftShown, At
  <2>1. call[r].rows[i] \in ShownRow
    BY <1>8, <2>0, ImportedRow
  <2>2. CASE Enter(call[r].rows[i].roll, call[r].rows[i].email, NoSection)
    BY <1>8, <2>1, <2>2, EnterTypes DEF ImportRow, PeopleOK, ShownRow
  <2>3. CASE UNCHANGED <<students, entered>>
    BY <1>8, <2>3 DEF ImportRow, PeopleOK
  <2> QED
    BY <1>8, <2>2, <2>3 DEF ImportRow
<1>9. CASE UNCHANGED <<students, admins, sequence, entered>>
  BY <1>9 DEF PeopleOK
<1> QED
  BY <1>1, <1>2, <1>3, <1>4, <1>5, <1>6, <1>7, <1>8, <1>9
     DEF AccountsNext, accountsVars, CreateSection, SetSection, Target, CheckSection, Register, Reassign,
         Record, Hold, Release, CheckDelete, DeleteStudents, DeleteAdmins, TryNext, LogDelete,
         Preview, Confirm, LoseImport, Close, Crash

LEMMA TrailStep ==
  ASSUME AccountsTypeOK, LeftShown, [AccountsNext]_accountsVars
  PROVE  TrailOK'
<1> USE DEF AccountsTypeOK
<1>0. Existing \subseteq Nat
  BY DEF Existing, Ids, PeopleOK, Student, Admin
<1>1. ASSUME NEW r \in Calls, CreateStudent(r)
      PROVE  TrailOK'
  <2>1. CASE Enter(call[r].roll, call[r].email, call[r].section)
    <3>1. call[r].roll \in Rolls /\ call[r].email \in Rolls \cup Addresses
          /\ call[r].section \in Sections \cup {NoSection}
      BY <1>1, CallAt DEF CreateStudent
    <3> QED
      BY <1>1, <2>1, <3>1, EnterTypes DEF CreateStudent, TrailOK
  <2>2. CASE UNCHANGED audit
    BY <1>1, <2>2 DEF CreateStudent, TrailOK
  <2> QED
    BY <1>1, <2>1, <2>2 DEF CreateStudent
<1>2. ASSUME NEW r \in Calls, NEW i \in call[r].left, At(r, "importing"), ImportRow(r, i)
      PROVE  TrailOK'
  <2>0. i \in DOMAIN call[r].rows
    BY <1>2 DEF LeftShown, At
  <2>1. call[r].rows[i] \in ShownRow
    BY <1>2, <2>0, ImportedRow
  <2>2. CASE Enter(call[r].rows[i].roll, call[r].rows[i].email, NoSection)
    BY <1>2, <2>1, <2>2, EnterTypes DEF ImportRow, TrailOK, ShownRow
  <2>3. CASE UNCHANGED audit
    BY <1>2, <2>3 DEF ImportRow, TrailOK
  <2> QED
    BY <1>2, <2>2, <2>3 DEF ImportRow
<1>3. ASSUME NEW email \in Addresses, NEW active \in BOOLEAN, CreateAdmin(email, active)
      PROVE  TrailOK'
  <2>1. <<"created", entered + 1, NextNumber>> \in Entry
    BY NumberFound DEF Entry, PeopleOK
  <2> QED
    BY <1>3, <2>1 DEF CreateAdmin, TrailOK
<1>4. ASSUME NEW r \in Calls, LogDelete(r)
      PROVE  TrailOK'
  <2>1. call[r].id \in Nat
    BY <1>4, CallAt DEF LogDelete, Deleting
  <2> QED
    BY <1>4, <2>1 DEF LogDelete, TrailOK, Entry
<1>5. ASSUME NEW r \in Calls, Delete(r)
      PROVE  TrailOK'
  BY <1>5 DEF Delete, TrailOK
<1>6. ASSUME NEW i \in Existing, Record(i) \/ Hold(i) \/ Release(i)
      PROVE  TrailOK'
  BY <1>0, <1>6 DEF Record, Hold, Release, TrailOK
<1>7. CASE UNCHANGED <<records, held, audit>>
  BY <1>7 DEF TrailOK
<1> QED
  BY <1>1, <1>2, <1>3, <1>4, <1>5, <1>6, <1>7
     DEF AccountsNext, accountsVars, CreateSection, SetSection, Target, CheckSection, DeleteSection, Register,
         UpdateEmail, Reassign, ChangeSection, SetAdminStatus, CheckDelete, DeleteStudents, DeleteAdmins,
         TryNext, Preview, Confirm, LoseImport, Close, Crash

LEMMA CallsStep ==
  ASSUME AccountsTypeOK, LeftShown, [AccountsNext]_accountsVars
  PROVE  CallsOK'
<1> USE DEF AccountsTypeOK
<1>0. Ids(students) \subseteq Nat /\ Existing \subseteq Nat
  BY DEF Existing, Ids, PeopleOK, Student, Admin
<1>a. ASSUME NEW r \in Calls, NEW q \in CallState, Put(r, q), UNCHANGED taken
      PROVE  CallsOK'
  BY <1>a, PutTypes DEF CallsOK
<1>1. ASSUME NEW r \in Calls, NEW s \in Sections, CheckSection(r, s)
      PROVE  CallsOK'
  BY <1>1, <1>a, NewStates DEF CheckSection
<1>2. ASSUME NEW r \in Calls, DeleteSection(r) \/ ChangeSection(r) \/ Crash(r)
      PROVE  CallsOK'
  BY <1>2, <1>a, NewStates DEF DeleteSection, ChangeSection, Crash
<1>3. ASSUME NEW r \in Calls, NEW roll \in Rolls, NEW email \in Addresses,
             NEW s \in Sections \cup {NoSection}, Register(r, roll, email, s)
      PROVE  CallsOK'
  BY <1>3, <1>a, NewStates DEF Register
<1>4. ASSUME NEW r \in Calls, CreateStudent(r)
      PROVE  CallsOK'
  <2>1. call[r].roll \in Rolls /\ call[r].email \in Rolls \cup Addresses
    BY <1>4, CallAt DEF CreateStudent
  <2>2. call' \in [Calls -> CallState]
    BY <1>4, PutTypes, NewStates DEF CreateStudent
  <2>3. taken' \in [Calls -> SUBSET (Rolls \cup Addresses)]
    BY <1>4, <2>1, TakeTypes DEF CreateStudent, CallsOK
  <2> QED
    BY <2>2, <2>3 DEF CallsOK
<1>5. ASSUME NEW r \in Calls, NEW x \in students, NEW s \in Sections \cup {NoSection}, Reassign(r, x, s)
      PROVE  CallsOK'
  <2>1. x.id \in Nat
    BY DEF PeopleOK, Student
  <2> QED
    BY <1>5, <1>a, <2>1, NewStates DEF Reassign
<1>6. ASSUME NEW r \in Calls, NEW i \in Existing, NEW j \in Existing,
             DeleteStudents(r, i, j) \/ DeleteAdmins(r, i, j)
      PROVE  CallsOK'
  <2>1. <<i, j>> \in Seq(Nat)
    BY <1>0
  <2> QED
    BY <1>6, <1>a, <2>1, NewStates DEF DeleteStudents, DeleteAdmins
<1>7. ASSUME NEW r \in Calls, TryNext(r)
      PROVE  CallsOK'
  <2>1. call[r].left \in Seq(Nat) /\ call[r].left # <<>>
    BY <1>7, CallAt DEF TryNext
  <2>2. Head(call[r].left) \in Nat /\ Tail(call[r].left) \in Seq(Nat)
    BY <2>1
  <2>3. [step |-> "checked", id |-> Head(call[r].left), left |-> Tail(call[r].left)] \in CallState
        /\ ToDelete(Tail(call[r].left)) \in CallState
    BY <2>2, NewStates
  <2> QED
    BY <1>7, <1>a, <2>3 DEF TryNext
<1>8. ASSUME NEW r \in Calls, LogDelete(r)
      PROVE  CallsOK'
  <2>1. call[r].id \in Nat /\ call[r].left \in Seq(Nat)
    BY <1>8, CallAt DEF LogDelete, Deleting
  <2> QED
    BY <1>8, <1>a, <2>1, NewStates DEF LogDelete
<1>9. ASSUME NEW r \in Calls, Delete(r)
      PROVE  CallsOK'
  <2>1. call[r].left \in Seq(Nat)
    BY <1>9, CallAt DEF Delete, Deleting
  <2> QED
    BY <1>9, <1>a, <2>1, NewStates DEF Delete
<1>10. ASSUME NEW r \in Calls, NEW file \in Files, Preview(r, file)
       PROVE  CallsOK'
  <2>1. ValidRows(ParseFile(file)) \in ShownRows
    BY <1>10, ValidRowsShown DEF Preview
  <2>2. call' \in [Calls -> CallState]
    BY <1>10, <2>1, PutTypes, NewStates DEF Preview
  <2> QED
    BY <1>10, <2>2 DEF Preview, CallsOK
<1>11. ASSUME NEW r \in Calls, Confirm(r)
       PROVE  CallsOK'
  <2>1. call[r].rows \in ShownRows
    BY <1>11, CallAt DEF Confirm
  <2>2. DOMAIN call[r].rows \in SUBSET Nat
    BY <2>1, RowShown
  <2>3. Import(call[r].rows, DOMAIN call[r].rows, {}, {}) \in CallState
    BY <2>1, <2>2, NewStates
  <2> QED
    BY <1>11, <1>a, <2>3 DEF Confirm
<1>12. ASSUME NEW r \in Calls, NEW i \in call[r].left, At(r, "importing"), ImportRow(r, i)
       PROVE  CallsOK'
  <2>0. i \in DOMAIN call[r].rows
    BY <1>12 DEF LeftShown, At
  <2>1. call[r] \in ImportPage /\ call[r].rows[i] \in ShownRow /\ i \in Nat
    BY <1>12, <2>0, ImportedRow
  <2> DEFINE row == call[r].rows[i]
             q == call[r]
             created == Import(q.rows, q.left \ {i}, q.failed, q.mine \cup {row.roll, row.email})
             failed == Import(q.rows, q.left \ {i}, q.failed \cup {i}, q.mine)
  <2>2. {row.roll, row.email} \in SUBSET (Rolls \cup Addresses)
    BY <2>1 DEF ShownRow
  <2>3. /\ q.rows \in ShownRows /\ q.left \ {i} \in SUBSET Nat
        /\ q.failed \in SUBSET Nat /\ q.failed \cup {i} \in SUBSET Nat
        /\ q.mine \in SUBSET (Rolls \cup Addresses)
        /\ q.mine \cup {row.roll, row.email} \in SUBSET (Rolls \cup Addresses)
    BY <2>1, <2>2 DEF ImportPage
  <2>4. created \in CallState /\ failed \in CallState
    BY <2>3, NewStates
  <2>5. call' \in [Calls -> CallState]
    <3>1. Put(r, created) \/ Put(r, failed)
      BY <1>12 DEF ImportRow
    <3> QED
      BY <2>4, <3>1, PutTypes
  <2>6. taken' \in [Calls -> SUBSET (Rolls \cup Addresses)]
    <3>1. Take(Calls \ {r}, {row.roll, row.email}) \/ UNCHANGED taken
      BY <1>12 DEF ImportRow
    <3> QED
      BY <2>2, <3>1, TakeTypes DEF CallsOK
  <2> QED
    BY <2>5, <2>6 DEF CallsOK
<1>13. ASSUME NEW r \in Calls, LoseImport(r)
       PROVE  CallsOK'
  <2>1. call[r] \in ImportPage
    BY <1>13, CallAt DEF LoseImport, At
  <2>2. call' \in [Calls -> CallState]
    BY <1>13, <2>1, PutTypes, NewStates DEF LoseImport, ImportPage
  <2> QED
    BY <1>13, <2>1, <2>2 DEF LoseImport, ImportPage, CallsOK
<1>14. ASSUME NEW r \in Calls, Close(r)
       PROVE  CallsOK'
  <2>1. call' \in [Calls -> CallState]
    BY <1>14, PutTypes, NewStates DEF Close
  <2> QED
    BY <1>14, <2>1 DEF Close, CallsOK
<1>15. ASSUME NEW email \in Addresses, Take(Calls, {email}), UNCHANGED call
       PROVE  CallsOK'
  BY <1>15, TakeTypes DEF CallsOK
<1>16. ASSUME NEW r \in Calls, NEW i \in Existing, CheckDelete(r, i)
       PROVE  CallsOK'
  <2>1. i \in Nat /\ <<>> \in Seq(Nat)
    BY <1>0
  <2> QED
    BY <1>16, <1>a, <2>1, NewStates DEF CheckDelete
<1>17. CASE UNCHANGED <<call, taken>>
  BY <1>17 DEF CallsOK
<1> QED
  BY <1>1, <1>2, <1>3, <1>4, <1>5, <1>6, <1>7, <1>8, <1>9, <1>10, <1>11, <1>12, <1>13, <1>14, <1>15, <1>16, <1>17
     DEF AccountsNext, accountsVars, CreateSection, SetSection, Target, UpdateEmail, CreateAdmin,
         SetAdminStatus, Record, Hold, Release

LEMMA LeftStep ==
  ASSUME AccountsTypeOK, LeftShown, [AccountsNext]_accountsVars
  PROVE  LeftShown'
<1> DEFINE P(q) == q.step \in {"importing", "imported"} => q.left \cup q.failed \subseteq DOMAIN q.rows
<1>a. ASSUME NEW r \in Calls, NEW q, P(q), Put(r, q)
      PROVE  LeftShown'
  BY <1>a DEF LeftShown, Put, AccountsTypeOK, CallsOK
<1>b. ASSUME NEW r \in Calls, NEW q, q.step \notin {"importing", "imported"}, Put(r, q)
      PROVE  LeftShown'
  BY <1>a, <1>b
<1>c. /\ NoCall.step = "free"
      /\ \A left : ToDelete(left).step \notin {"importing", "imported"}
      /\ \A rows : Show(rows).step = "previewed"
  BY DEF NoCall, ToDelete, Show
<1>1. ASSUME NEW r \in Calls, NEW s \in Sections, CheckSection(r, s)
      PROVE  LeftShown'
  BY <1>1, <1>b DEF CheckSection
<1>2. ASSUME NEW r \in Calls, Put(r, NoCall)
      PROVE  LeftShown'
  BY <1>2, <1>b, <1>c
<1>3. ASSUME NEW r \in Calls, NEW roll \in Rolls, NEW email \in Addresses,
             NEW s \in Sections \cup {NoSection}, Register(r, roll, email, s)
      PROVE  LeftShown'
  BY <1>3, <1>b DEF Register
<1>4. ASSUME NEW r \in Calls, NEW x \in students, NEW s \in Sections \cup {NoSection}, Reassign(r, x, s)
      PROVE  LeftShown'
  BY <1>4, <1>b DEF Reassign
<1>5. ASSUME NEW r \in Calls, NEW left, Put(r, ToDelete(left))
      PROVE  LeftShown'
  BY <1>5, <1>b, <1>c
<1>6. ASSUME NEW r \in Calls, NEW i, NEW left, Put(r, [step |-> "checked", id |-> i, left |-> left])
      PROVE  LeftShown'
  BY <1>6, <1>b
<1>7. ASSUME NEW r \in Calls, LogDelete(r)
      PROVE  LeftShown'
  BY <1>7, <1>b DEF LogDelete
<1>8. ASSUME NEW r \in Calls, NEW rows, Put(r, Show(rows))
      PROVE  LeftShown'
  BY <1>8, <1>b, <1>c
<1>9. ASSUME NEW r \in Calls, Confirm(r)
      PROVE  LeftShown'
  <2>1. P(Import(call[r].rows, DOMAIN call[r].rows, {}, {}))
    BY DEF Import
  <2> QED
    BY <1>9, <1>a, <2>1 DEF Confirm
<1>10. ASSUME NEW r \in Calls, NEW i \in call[r].left, At(r, "importing"), ImportRow(r, i)
       PROVE  LeftShown'
  <2>1. call[r].left \cup call[r].failed \subseteq DOMAIN call[r].rows
    BY <1>10 DEF LeftShown, At
  <2>2. \A failed, mine : failed \subseteq DOMAIN call[r].rows
                          => P(Import(call[r].rows, call[r].left \ {i}, failed, mine))
    BY <2>1 DEF Import
  <2>3. \E failed, mine : /\ failed \subseteq DOMAIN call[r].rows
                          /\ Put(r, Import(call[r].rows, call[r].left \ {i}, failed, mine))
    BY <1>10, <2>1 DEF ImportRow
  <2> QED
    BY <1>a, <2>2, <2>3
<1>11. CASE UNCHANGED call
  BY <1>11 DEF LeftShown
<1>12. ASSUME NEW r \in Calls, TryNext(r)
       PROVE  LeftShown'
  BY <1>12, <1>5, <1>6 DEF TryNext
<1> QED
  BY <1>1, <1>2, <1>3, <1>4, <1>5, <1>6, <1>7, <1>8, <1>9, <1>10, <1>11, <1>12
     DEF AccountsNext, accountsVars, CreateSection, SetSection, Target, DeleteSection, CreateStudent, UpdateEmail,
         ChangeSection, CreateAdmin, SetAdminStatus, Record, Hold, Release, CheckDelete,
         DeleteStudents, DeleteAdmins, Delete, Preview, LoseImport, Close, Crash

(* The types are kept, whatever the requests and however many. *)
THEOREM AccountsTyping == AccountsSpec => [](AccountsTypeOK /\ LeftShown)
<1>1. AccountsInit => AccountsTypeOK /\ LeftShown
  <2> SUFFICES ASSUME AccountsInit PROVE AccountsTypeOK /\ LeftShown
    OBVIOUS
  <2>1. SectionsOK /\ TrailOK
    BY DEF AccountsInit, SectionsOK, TrailOK
  <2>2. CallsOK /\ LeftShown
    BY NewStates DEF AccountsInit, CallsOK, LeftShown, NoCall
  <2>3. PeopleOK
    <3> DEFINE primary == [id |-> Primary, number |-> NoNumber, email |-> "primary", active |-> TRUE]
               earlier(n) == [id |-> Earlier, number |-> n, email |-> "earlier", active |-> TRUE]
    <3>1. PICK n \in Old : admins = {primary, earlier(n)}
      BY DEF AccountsInit
    <3>2. primary \in Admin /\ earlier(n) \in Admin
      BY DEF Admin, Primary, Earlier, NoNumber
    <3>3. IsFiniteSet({} \cup {primary})
      BY FS_EmptySet, FS_AddElement
    <3>4. IsFiniteSet(({} \cup {primary}) \cup {earlier(n)})
      BY <3>3, FS_AddElement
    <3>5. admins = ({} \cup {primary}) \cup {earlier(n)}
      BY <3>1
    <3> HIDE DEF primary, earlier
    <3>6. admins \subseteq Admin /\ IsFiniteSet(admins)
      BY <3>2, <3>4, <3>5
    <3> QED
      BY <3>6 DEF AccountsInit, PeopleOK, Earlier
  <2> QED
    BY <2>1, <2>2, <2>3 DEF AccountsTypeOK
<1>2. (AccountsTypeOK /\ LeftShown) /\ [AccountsNext]_accountsVars => (AccountsTypeOK /\ LeftShown)'
  BY SectionsStep, PeopleStep, TrailStep, CallsStep, LeftStep DEF AccountsTypeOK
<1> QED
  BY <1>1, <1>2, PTL DEF AccountsSpec

-----------------------------------------------------------------------------
(* The import. *)

\* The rows of a confirmed preview that became accounts.
CreatedRows(q) == IF q.step = "previewed" THEN {} ELSE DOMAIN q.rows \ (q.left \cup q.failed)

\* Two rows of a preview differ in roll number, and in address unless the system made one.
RowsDiffer(rows) == \A i, j \in DOMAIN rows : i # j =>
    /\ rows[i].roll # rows[j].roll
    /\ rows[i].email = rows[j].email => rows[i].generated \/ rows[j].generated

\* Who took the roll number, or the address, of a row: others, or an earlier row of the import.
Explained(r) ==
    LET q == call[r]
    IN \A i \in DOMAIN q.rows : q.rows[i].plain =>
          /\ q.rows[i].roll \in UsedRolls =>
                q.rows[i].roll \in taken[r] \/ \E j \in CreatedRows(q) : q.rows[j].roll = q.rows[i].roll
          /\ q.rows[i].email \in Emails =>
                q.rows[i].email \in taken[r] \/ \E j \in CreatedRows(q) : q.rows[j].email = q.rows[i].email
MineKnown(q) == \A j \in CreatedRows(q) : {q.rows[j].roll, q.rows[j].email} \subseteq q.mine

FailedExplained(r) == \A i \in call[r].failed :
    LET row == call[r].rows[i]
    IN ~row.plain \/ MadeElsewhere(call[r], i) \/ {row.roll, row.email} \cap taken[r] # {}
PageInv(r) ==
    /\ call[r].step \in Importing => RowsDiffer(call[r].rows) /\ Explained(r) /\ MineKnown(call[r])
    /\ call[r].step \in {"importing", "imported"} =>
          FailedExplained(r) /\ call[r].left \cap call[r].failed = {}
ImportInv == \A r \in Calls : PageInv(r)

-----------------------------------------------------------------------------
(* The audit trail. *)
Numbered(i, n) == <<"created", i, n>> \in audit
GoneLogged == \A i \in 1..entered \ Existing : <<"deleted", i>> \in audit /\ i \notin records
LogsFirst == \A r \in Calls : call[r].step = "logged" => <<"deleted", call[r].id>> \in audit
MadeLogged == \A i \in (Earlier + 1)..entered : \E n \in NoNumber..sequence : Numbered(i, n)
GivenBelow == \A i, n \in Nat : Numbered(i, n) => n < sequence
GivenOnce == \A i, j, n \in Nat : Numbered(i, n) /\ Numbered(j, n) /\ n # NoNumber => i = j
AuditInv == GoneLogged /\ LogsFirst /\ MadeLogged /\ GivenBelow /\ GivenOnce

LEMMA Entered ==
  ASSUME NEW roll, NEW email, NEW s, Enter(roll, email, s)
  PROVE  /\ students' = students \cup {[id |-> entered + 1, roll |-> roll, email |-> email, section |-> s]}
         /\ Ids(students') = Ids(students) \cup {entered + 1}
         /\ {x.roll : x \in students'} = UsedRolls \cup {roll}
         /\ {x.email : x \in students'} = {x.email : x \in students} \cup {email}
<1> DEFINE new == [id |-> entered + 1, roll |-> roll, email |-> email, section |-> s]
<1>1. students' = students \cup {new} /\ new.id = entered + 1 /\ new.roll = roll /\ new.email = email
  BY DEF Enter
<1> HIDE DEF new
<1>2. Ids(students') = Ids(students) \cup {entered + 1}
  BY <1>1 DEF Ids
<1>3. {x.roll : x \in students'} = UsedRolls \cup {roll}
  BY <1>1 DEF UsedRolls
<1>4. {x.email : x \in students'} = {x.email : x \in students} \cup {email}
  BY <1>1
<1> QED
  BY <1>1, <1>2, <1>3, <1>4 DEF new

LEMMA Moved ==
  ASSUME PeopleOK, NEW r \in Calls, DeleteSection(r) \/ ChangeSection(r)
  PROVE  /\ Ids(students') = Ids(students)
         /\ {x.roll : x \in students'} = UsedRolls
         /\ {x.email : x \in students'} = {x.email : x \in students}
<1>1. ASSUME NEW f, students' = {f[x] : x \in students},
             \A x \in students : f[x].id = x.id /\ f[x].roll = x.roll /\ f[x].email = x.email
      PROVE  /\ Ids(students') = Ids(students)
             /\ {x.roll : x \in students'} = UsedRolls
             /\ {x.email : x \in students'} = {x.email : x \in students}
  <2>1. Ids(students') = Ids(students)
    <3>1. \A x \in students' : x.id \in {y.id : y \in students}
      BY <1>1
    <3>2. \A x \in students : x.id \in {y.id : y \in students'}
      BY <1>1
    <3> QED
      BY <3>1, <3>2 DEF Ids
  <2>2. {x.roll : x \in students'} = UsedRolls
    <3>1. \A x \in students' : x.roll \in {y.roll : y \in students}
      BY <1>1
    <3>2. \A x \in students : x.roll \in {y.roll : y \in students'}
      BY <1>1
    <3> QED
      BY <3>1, <3>2 DEF UsedRolls
  <2>3. {x.email : x \in students'} = {x.email : x \in students}
    <3>1. \A x \in students' : x.email \in {y.email : y \in students}
      BY <1>1
    <3>2. \A x \in students : x.email \in {y.email : y \in students'}
      BY <1>1
    <3> QED
      BY <3>1, <3>2
  <2> QED
    BY <2>1, <2>2, <2>3
<1>2. \A x \in students : \A s : /\ [x EXCEPT !.section = s].id = x.id
                                 /\ [x EXCEPT !.section = s].roll = x.roll
                                 /\ [x EXCEPT !.section = s].email = x.email
  BY DEF PeopleOK, Student
<1>3. CASE DeleteSection(r)
  <2> DEFINE f == [x \in students |-> IF x.section = call[r].section THEN [x EXCEPT !.section = NoSection] ELSE x]
  <2>1. students' = {f[x] : x \in students}
    BY <1>3 DEF DeleteSection
  <2>2. \A x \in students : f[x].id = x.id /\ f[x].roll = x.roll /\ f[x].email = x.email
    BY <1>2
  <2> HIDE DEF f
  <2> QED
    BY <1>1, <2>1, <2>2
<1>4. CASE ChangeSection(r)
  <2> DEFINE f == [x \in students |-> IF x.id = call[r].id /\ Present(call[r].section)
                                      THEN [x EXCEPT !.section = call[r].section] ELSE x]
  <2>1. students' = {f[x] : x \in students}
    BY <1>4 DEF ChangeSection
  <2>2. \A x \in students : f[x].id = x.id /\ f[x].roll = x.roll /\ f[x].email = x.email
    BY <1>2
  <2> HIDE DEF f
  <2> QED
    BY <1>1, <2>1, <2>2
<1> QED
  BY <1>3, <1>4

LEMMA AuditKept ==
  ASSUME PeopleOK, AuditInv, UNCHANGED <<entered, sequence, audit>>, Existing' = Existing,
         records' \subseteq records \cup Existing,
         \A r \in Calls : call'[r].step = "logged" => call'[r] = call[r]
  PROVE  AuditInv'
<1>1. GoneLogged'
  BY DEF AuditInv, GoneLogged
<1>2. LogsFirst'
  BY DEF AuditInv, LogsFirst
<1>3. MadeLogged'
  BY DEF AuditInv, MadeLogged, Numbered
<1>4. GivenBelow'
  BY DEF AuditInv, GivenBelow, Numbered
<1>5. GivenOnce'
  BY DEF AuditInv, GivenOnce, Numbered
<1> QED
  BY <1>1, <1>2, <1>3, <1>4, <1>5 DEF AuditInv

LEMMA AuditGrows ==
  ASSUME PeopleOK, AuditInv, NEW n \in Nat, n < sequence', n # NoNumber => n >= sequence,
         sequence' \in Nat, sequence <= sequence', entered' = entered + 1,
         Existing' = Existing \cup {entered + 1},
         audit' = audit \cup {<<"created", entered + 1, n>>}, UNCHANGED records,
         \A r \in Calls : call'[r].step = "logged" => call'[r] = call[r]
  PROVE  AuditInv'
<1>0. entered \in Nat /\ sequence \in Nat
  BY DEF PeopleOK
<1>1. GoneLogged'
  <2> SUFFICES ASSUME NEW i \in 1..(entered + 1), i \notin Existing \cup {entered + 1}
               PROVE  <<"deleted", i>> \in audit' /\ i \notin records
    BY DEF GoneLogged
  <2>1. i \in 1..entered \ Existing
    BY <1>0
  <2> QED
    BY <2>1 DEF AuditInv, GoneLogged
<1>2. LogsFirst'
  BY DEF AuditInv, LogsFirst
<1>a. \A i, m : Numbered(i, m)' <=> Numbered(i, m) \/ (i = entered + 1 /\ m = n)
  BY DEF Numbered
<1>3. MadeLogged'
  <2> SUFFICES ASSUME NEW i \in (Earlier + 1)..(entered + 1)
               PROVE  \E m \in NoNumber..sequence' : Numbered(i, m)'
    BY DEF MadeLogged, Earlier
  <2>1. CASE i = entered + 1
    BY <1>a, <2>1 DEF NoNumber
  <2>2. CASE i # entered + 1
    <3>1. i \in (Earlier + 1)..entered
      BY <1>0, <2>2 DEF Earlier
    <3>2. PICK m \in NoNumber..sequence : Numbered(i, m)
      BY <3>1 DEF AuditInv, MadeLogged
    <3>3. m \in NoNumber..sequence'
      BY <1>0 DEF NoNumber
    <3> QED
      BY <1>a, <3>2, <3>3
  <2> QED
    BY <2>1, <2>2
<1>4. GivenBelow'
  <2> SUFFICES ASSUME NEW i \in Nat, NEW m \in Nat, Numbered(i, m)' PROVE m < sequence'
    BY DEF GivenBelow
  <2> QED
    BY <1>0, <1>a DEF AuditInv, GivenBelow
<1>5. GivenOnce'
  <2> SUFFICES ASSUME NEW i \in Nat, NEW j \in Nat, NEW m \in Nat, Numbered(i, m)', Numbered(j, m)', m # NoNumber
               PROVE  i = j
    BY DEF GivenOnce
  <2>1. CASE Numbered(i, m) /\ Numbered(j, m)
    BY <2>1 DEF AuditInv, GivenOnce
  <2>2. CASE Numbered(i, m) /\ m = n
    BY <1>0, <2>2 DEF AuditInv, GivenBelow
  <2>3. CASE Numbered(j, m) /\ m = n
    BY <1>0, <2>3 DEF AuditInv, GivenBelow
  <2> QED
    BY <1>a, <2>1, <2>2, <2>3
<1> QED
  BY <1>1, <1>2, <1>3, <1>4, <1>5 DEF AuditInv

LEMMA AuditStep ==
  ASSUME AccountsTypeOK, AuditInv, [AccountsNext]_accountsVars
  PROVE  AuditInv'
<1> USE DEF AccountsTypeOK
<1> DEFINE LogsKept == \A r \in Calls : call'[r].step = "logged" => call'[r] = call[r]
           PeopleKept == UNCHANGED <<entered, sequence, audit>> /\ records' \subseteq records \cup Existing
<1>a. ASSUME NEW r \in Calls, NEW q, q.step # "logged", Put(r, q)
      PROVE  LogsKept
  BY <1>a DEF Put, CallsOK
<1>b. /\ NoCall.step # "logged"
      /\ \A left : ToDelete(left).step # "logged"
      /\ \A rows : Show(rows).step # "logged"
      /\ \A rows, left, failed, mine : Import(rows, left, failed, mine).step # "logged"
  BY DEF NoCall, ToDelete, Show, Import
<1>c. UNCHANGED call => LogsKept
  OBVIOUS
<1>d. ASSUME PeopleKept, Existing' = Existing, LogsKept
      PROVE  AuditInv'
  BY <1>d, AuditKept
<1>e. UNCHANGED <<students, admins>> => Existing' = Existing
  BY DEF Existing, Ids
<1>1. ASSUME NEW r \in Calls, DeleteSection(r) \/ ChangeSection(r)
      PROVE  AuditInv'
  <2>2. Ids(students') = Ids(students)
    BY <1>1, Moved
  <2> QED
    BY <1>1, <1>a, <1>b, <1>d, <2>2 DEF DeleteSection, ChangeSection, Existing
<1>2. ASSUME NEW x \in students, NEW email \in Addresses, UpdateEmail(x, email)
      PROVE  AuditInv'
  <2>1. [x EXCEPT !.email = email].id = x.id
    BY DEF PeopleOK, Student
  <2>2. Ids(students') = Ids(students)
    BY <1>2, <2>1 DEF UpdateEmail, Ids
  <2> QED
    BY <1>2, <1>d, <2>2 DEF UpdateEmail, Existing
<1>3. ASSUME NEW a \in admins, SetAdminStatus(a)
      PROVE  AuditInv'
  <2>1. [a EXCEPT !.active = ~@].id = a.id
    BY DEF PeopleOK, Admin
  <2>2. Ids(admins') = Ids(admins)
    BY <1>3, <2>1 DEF SetAdminStatus, Ids
  <2> QED
    BY <1>3, <1>d, <2>2 DEF SetAdminStatus, Existing
<1>4. ASSUME NEW roll, NEW email, NEW s, Enter(roll, email, s), UNCHANGED <<admins, sequence, records>>, LogsKept
      PROVE  AuditInv'
  <2>1. Existing' = Existing \cup {entered + 1}
    BY <1>4, Entered DEF Existing, Ids
  <2>2. NoNumber \in Nat /\ NoNumber < sequence /\ sequence \in Nat
    BY DEF NoNumber, PeopleOK
  <2> QED
    BY <1>4, <2>1, <2>2, AuditGrows DEF Enter
<1>5. ASSUME NEW r \in Calls, CreateStudent(r)
      PROVE  AuditInv'
  <2>1. LogsKept
    BY <1>5, <1>a, <1>b DEF CreateStudent
  <2>2. CASE Enter(call[r].roll, call[r].email, call[r].section)
    BY <1>4, <1>5, <2>1, <2>2 DEF CreateStudent
  <2>3. CASE UNCHANGED <<students, entered, audit>>
    BY <1>5, <1>d, <1>e, <2>1, <2>3 DEF CreateStudent
  <2> QED
    BY <1>5, <2>2, <2>3 DEF CreateStudent
<1>6. ASSUME NEW r \in Calls, NEW i, ImportRow(r, i)
      PROVE  AuditInv'
  <2>1. LogsKept
    BY <1>6, <1>a, <1>b DEF ImportRow
  <2>2. CASE Enter(call[r].rows[i].roll, call[r].rows[i].email, NoSection)
    BY <1>4, <1>6, <2>1, <2>2 DEF ImportRow
  <2>3. CASE UNCHANGED <<students, entered, audit>>
    BY <1>6, <1>d, <1>e, <2>1, <2>3 DEF ImportRow
  <2> QED
    BY <1>6, <2>2, <2>3 DEF ImportRow
<1>7. ASSUME NEW email \in Addresses, NEW active \in BOOLEAN, CreateAdmin(email, active)
      PROVE  AuditInv'
  <2>1. NextNumber \in Nat /\ NextNumber >= sequence /\ sequence \in Nat
    BY NumberFound DEF PeopleOK
  <2>2. sequence' = NextNumber + 1 /\ entered' = entered + 1
        /\ audit' = audit \cup {<<"created", entered + 1, NextNumber>>} /\ UNCHANGED records
    BY <1>7 DEF CreateAdmin, Gives
  <2>3. Existing' = Existing \cup {entered + 1}
    <3> DEFINE new == [id |-> entered + 1, number |-> NextNumber, email |-> email, active |-> active]
    <3>1. admins' = admins \cup {new} /\ students' = students /\ new.id = entered + 1
      BY <1>7 DEF CreateAdmin
    <3> HIDE DEF new
    <3> QED
      BY <3>1 DEF Existing, Ids
  <2>4. LogsKept
    BY <1>7, <1>c DEF CreateAdmin
  <2> QED
    BY <2>1, <2>2, <2>3, <2>4, AuditGrows
<1>8. ASSUME NEW r \in Calls, LogDelete(r)
      PROVE  AuditInv'
  <2>1. audit' = audit \cup {<<"deleted", call[r].id>>} /\ UNCHANGED <<entered, sequence, records>> /\ Existing' = Existing
    BY <1>8, <1>e DEF LogDelete
  <2>2. \A i, m : Numbered(i, m)' <=> Numbered(i, m)
    BY <2>1 DEF Numbered
  <2>3. \A p \in Calls : call'[p].step = "logged" => call'[p].id = call[r].id \/ call'[p] = call[p]
    BY <1>8 DEF LogDelete, Put, CallsOK
  <2>4. GoneLogged'
    BY <2>1 DEF AuditInv, GoneLogged
  <2>5. LogsFirst'
    BY <2>1, <2>3 DEF AuditInv, LogsFirst
  <2>6. MadeLogged'
    BY <2>1, <2>2 DEF AuditInv, MadeLogged
  <2>7. GivenBelow'
    BY <2>1, <2>2 DEF AuditInv, GivenBelow
  <2>8. GivenOnce'
    BY <2>2 DEF AuditInv, GivenOnce
  <2> QED
    BY <2>4, <2>5, <2>6, <2>7, <2>8 DEF AuditInv
<1>9. ASSUME NEW r \in Calls, Delete(r)
      PROVE  AuditInv'
  <2>1. UNCHANGED <<entered, sequence, audit, records>>
    BY <1>9 DEF Delete
  <2>2. LogsKept
    BY <1>9, <1>a, <1>b DEF Delete
  <2>3. <<"deleted", call[r].id>> \in audit
    BY <1>9 DEF Delete, At, AuditInv, LogsFirst
  <2>4. CASE call[r].id \in records
    BY <1>9, <1>d, <1>e, <2>1, <2>2, <2>4 DEF Delete
  <2>5. CASE call[r].id \notin records
    <3>1. Existing' = Existing \ {call[r].id}
      BY <1>9, <2>5 DEF Delete, Existing, Ids
    <3>2. GoneLogged'
      BY <2>1, <2>3, <2>5, <3>1 DEF AuditInv, GoneLogged
    <3>3. LogsFirst'
      BY <2>1, <2>2 DEF AuditInv, LogsFirst
    <3>4. MadeLogged' /\ GivenBelow' /\ GivenOnce'
      BY <2>1 DEF AuditInv, MadeLogged, GivenBelow, GivenOnce, Numbered
    <3> QED
      BY <3>2, <3>3, <3>4 DEF AuditInv
  <2> QED
    BY <2>4, <2>5
<1>10. ASSUME NEW i \in Existing, Record(i)
       PROVE  AuditInv'
  BY <1>10, <1>c, <1>d, <1>e DEF Record
<1>11. ASSUME NEW r \in Calls, NEW q, q.step # "logged", Put(r, q),
              UNCHANGED <<students, admins, entered, sequence, audit, records>>
       PROVE  AuditInv'
  BY <1>11, <1>a, <1>d, <1>e
<1>12. CASE UNCHANGED <<students, admins, entered, sequence, audit, records, call>>
  BY <1>12, <1>c, <1>d, <1>e
<1>13. ASSUME NEW r \in Calls, TryNext(r)
       PROVE  AuditInv'
  BY <1>11, <1>13, <1>b DEF TryNext
<1>14. ASSUME NEW r \in Calls,
              \/ \E s \in Sections : CheckSection(r, s)
              \/ \E roll \in Rolls, email \in Addresses, s \in Sections \cup {NoSection} : Register(r, roll, email, s)
              \/ \E x \in students, s \in Sections \cup {NoSection} : Reassign(r, x, s)
              \/ \E i, j \in Existing : DeleteStudents(r, i, j) \/ DeleteAdmins(r, i, j)
              \/ \E i \in Existing : CheckDelete(r, i)
       PROVE  AuditInv'
  BY <1>11, <1>14, <1>b DEF CheckSection, Register, Reassign, DeleteStudents, DeleteAdmins, CheckDelete
<1>15. ASSUME NEW r \in Calls, (\E file \in Files : Preview(r, file)) \/ Confirm(r) \/ LoseImport(r) \/ Close(r) \/ Crash(r)
       PROVE  AuditInv'
  BY <1>11, <1>15, <1>b DEF Preview, Confirm, LoseImport, Close, Crash
<1>16. ASSUME \/ \E s \in Sections, state \in {"active", "inactive"} : CreateSection(s, state)
              \/ \E s \in Sections : SetSection(s) \/ Target(s)
              \/ \E i \in Existing : Hold(i) \/ Release(i)
       PROVE  AuditInv'
  BY <1>12, <1>16 DEF CreateSection, SetSection, Target, Hold, Release
<1>17. CASE UNCHANGED accountsVars
  BY <1>12, <1>17 DEF accountsVars
<1> HIDE DEF LogsKept, PeopleKept
<1> QED
  BY <1>1, <1>2, <1>3, <1>5, <1>6, <1>7, <1>8, <1>9, <1>10, <1>13, <1>14, <1>15, <1>16, <1>17 DEF AccountsNext

(* Whatever requests overlap, are cut off or are refused, an account that is gone has its *)
(* entry in the audit trail, and no two administrators were ever given the same number.   *)
THEOREM TrailTellsAll == AccountsSpec => []AuditTrailSound
<1>1. AccountsInit => AuditInv
  <2> SUFFICES ASSUME AccountsInit PROVE AuditInv
    OBVIOUS
  <2>1. 1 \in Existing /\ 2 \in Existing /\ entered = 2
    BY DEF AccountsInit, Existing, Ids, Primary, Earlier
  <2>2. GoneLogged
    BY <2>1 DEF GoneLogged
  <2> QED
    BY <2>1, <2>2 DEF AccountsInit, AuditInv, LogsFirst, MadeLogged, GivenBelow, GivenOnce, Numbered, NoCall, Earlier
<1>2. AccountsTypeOK /\ AuditInv /\ [AccountsNext]_accountsVars => AuditInv'
  BY AuditStep
<1>3. AccountsTypeOK /\ AuditInv => AuditTrailSound
  <2> SUFFICES ASSUME AccountsTypeOK, AuditInv PROVE AuditTrailSound
    OBVIOUS
  <2>1. \A e \in audit : e[1] = "created" => e = <<"created", e[2], e[3]>> /\ e[2] \in Nat /\ e[3] \in Nat
    BY DEF AccountsTypeOK, TrailOK, Entry
  <2>2. \A e, f \in {entry \in audit : entry[1] = "created"} : e[3] = f[3] /\ e[3] # NoNumber => e[2] = f[2]
    BY <2>1 DEF AuditInv, GivenOnce, Numbered
  <2> QED
    BY <2>2 DEF AuditInv, GoneLogged, MadeLogged, Numbered, AuditTrailSound
<1> QED
  BY <1>1, <1>2, <1>3, AccountsTyping, PTL DEF AccountsSpec

LEMMA PageKept ==
  ASSUME NEW p \in Calls, NEW ids, PageInv(p), call'[p] = call[p],
         UsedRolls' \subseteq UsedRolls \cup ids, Emails' \subseteq Emails \cup ids,
         call[p].step \in Importing => taken[p] \cup (ids \cap Named(p)) \subseteq taken'[p]
  PROVE  PageInv(p)'
<1>1. CASE call[p].step \notin Importing
  BY <1>1 DEF PageInv, Importing
<1>2. CASE call[p].step \in Importing
  <2>1. RowsDiffer(call'[p].rows) /\ MineKnown(call'[p])
    BY <1>2 DEF PageInv
  <2>2. \A i \in DOMAIN call[p].rows : call[p].rows[i].roll \in Named(p) /\ call[p].rows[i].email \in Named(p)
    BY DEF Named
  <2>3. Explained(p)'
    BY <1>2, <2>2 DEF PageInv, Explained
  <2>4. call[p].step \in {"importing", "imported"} => FailedExplained(p)'
    BY <1>2 DEF PageInv, FailedExplained
  <2> QED
    BY <1>2, <2>1, <2>3, <2>4 DEF PageInv
<1> QED
  BY <1>1, <1>2

LEMMA PreviewSound ==
  ASSUME NEW r \in Calls, NEW file \in Files, Preview(r, file), AccountsTypeOK
  PROVE  PageInv(r)'
<1> DEFINE parsed == ParseFile(file)
           rows == ValidRows(parsed)
<1>1. call'[r] = Show(rows)
  BY DEF Preview, Put, AccountsTypeOK, CallsOK
<1>2. rows = [i \in {j \in DOMAIN parsed.rows : Valid(parsed, j)} |-> Carried(parsed.rows[i])]
  BY DEF ValidRows
<1>3. \A i \in DOMAIN parsed.rows : i \in Nat
  BY RowsAssumption DEF ParseFile
<1> HIDE DEF parsed
<1>4. \A i \in DOMAIN rows :
         /\ i \in DOMAIN parsed.rows /\ i \in Nat /\ ~Duplicate(parsed.rows, i)
         /\ rows[i].roll = parsed.rows[i].roll /\ rows[i].plain = parsed.rows[i].plain
         /\ rows[i].email = Address(parsed.rows[i]) /\ rows[i].generated = (parsed.rows[i].email = Blank)
  BY <1>2, <1>3 DEF Valid, Carried
<1> HIDE DEF rows
<1>5. ASSUME NEW i \in DOMAIN rows, NEW j \in DOMAIN rows, j < i
      PROVE  /\ rows[i].roll # rows[j].roll
             /\ rows[i].email = rows[j].email => rows[i].generated \/ rows[j].generated
  <2> DEFINE u == parsed.rows[i]
             v == parsed.rows[j]
  <2>1. v.roll # u.roll /\ ~(v.email = u.email /\ u.email # Blank)
    BY <1>4, <1>5 DEF Duplicate
  <2>2. ASSUME u.email # Blank, v.email # Blank PROVE rows[i].email # rows[j].email
    BY <1>4, <2>1, <2>2 DEF Address
  <2>3. u.email = Blank => rows[i].generated
    BY <1>4
  <2>4. v.email = Blank => rows[j].generated
    BY <1>4
  <2> QED
    BY <1>4, <2>1, <2>2, <2>3, <2>4
<1>6. RowsDiffer(rows)
  <2> SUFFICES ASSUME NEW i \in DOMAIN rows, NEW j \in DOMAIN rows, i # j
               PROVE  /\ rows[i].roll # rows[j].roll
                      /\ rows[i].email = rows[j].email => rows[i].generated \/ rows[j].generated
    BY DEF RowsDiffer
  <2>1. i < j \/ j < i
    BY <1>4
  <2> QED
    BY <1>5, <2>1
<1>7. \A i \in DOMAIN rows : rows[i].plain => rows[i].roll \notin UsedRolls /\ rows[i].email \notin Emails
  BY <1>4 DEF Duplicate, LookedUpRolls, LookedUpEmails
<1>8. UsedRolls' = UsedRolls /\ Emails' = Emails
  BY DEF Preview, UsedRolls, Emails
<1> QED
  BY <1>1, <1>6, <1>7, <1>8 DEF PageInv, Show, Explained, MineKnown, CreatedRows

LEMMA ConfirmSound ==
  ASSUME NEW r \in Calls, Confirm(r), AccountsTypeOK, PageInv(r)
  PROVE  PageInv(r)'
<1> DEFINE rows == call[r].rows
<1>1. call'[r] = Import(rows, DOMAIN rows, {}, {}) /\ taken' = taken
  BY DEF Confirm, Put, AccountsTypeOK, CallsOK
<1>2. call[r].step = "previewed" /\ RowsDiffer(rows) /\ Explained(r)
  BY DEF Confirm, At, PageInv, Importing
<1>3. UsedRolls' = UsedRolls /\ Emails' = Emails
  BY DEF Confirm, UsedRolls, Emails
<1>4. call'[r].rows = rows /\ call'[r].failed = {} /\ CreatedRows(call'[r]) = {} /\ CreatedRows(call[r]) = {}
  BY <1>1, <1>2 DEF Import, CreatedRows
<1>5. Explained(r)'
  BY <1>1, <1>2, <1>3, <1>4 DEF Explained
<1>6. RowsDiffer(call'[r].rows) /\ MineKnown(call'[r]) /\ FailedExplained(r)'
  BY <1>2, <1>4 DEF MineKnown, FailedExplained
<1> QED
  BY <1>4, <1>5, <1>6 DEF PageInv

LEMMA LoseSound ==
  ASSUME NEW r \in Calls, LoseImport(r), AccountsTypeOK, PageInv(r)
  PROVE  PageInv(r)'
<1> DEFINE rows == call[r].rows
<1>1. call'[r] = Show(rows) /\ taken'[r] = taken[r] \cup call[r].mine
  BY DEF LoseImport, Put, AccountsTypeOK, CallsOK
<1>2. RowsDiffer(rows) /\ Explained(r) /\ MineKnown(call[r])
  BY DEF LoseImport, PageInv, Importing
<1>3. UsedRolls' = UsedRolls /\ Emails' = Emails
  BY DEF LoseImport, UsedRolls, Emails
<1>4. call'[r].rows = rows /\ CreatedRows(call'[r]) = {} /\ call'[r].step = "previewed"
  BY <1>1 DEF Show, CreatedRows
<1>5. \A j \in CreatedRows(call[r]) : {rows[j].roll, rows[j].email} \subseteq taken'[r]
  BY <1>1, <1>2 DEF MineKnown
<1>6. Explained(r)'
  BY <1>1, <1>2, <1>3, <1>4, <1>5 DEF Explained
<1> QED
  BY <1>2, <1>4, <1>6 DEF PageInv, MineKnown

LEMMA ImportSound ==
  ASSUME NEW r \in Calls, NEW i \in call[r].left, At(r, "importing"), ImportRow(r, i),
         AccountsTypeOK, LeftShown, PageInv(r)
  PROVE  PageInv(r)'
<1> DEFINE q == call[r]
           rows == q.rows
           row == rows[i]
<1>1. /\ RowsDiffer(rows) /\ Explained(r) /\ MineKnown(q) /\ FailedExplained(r)
      /\ q.left \cap q.failed = {} /\ q.left \cup q.failed \subseteq DOMAIN rows
  BY DEF PageInv, At, LeftShown, Importing
<1>2. i \in DOMAIN rows /\ i \notin q.failed
  BY <1>1
<1>3. CreatedRows(q) = DOMAIN rows \ (q.left \cup q.failed)
  BY DEF At, CreatedRows
<1>4. CASE Admits(row.roll, row.email, NoSection)
  <2>1. /\ call'[r] = Import(rows, q.left \ {i}, q.failed, q.mine \cup {row.roll, row.email})
        /\ Enter(row.roll, row.email, NoSection) /\ Take(Calls \ {r}, {row.roll, row.email})
        /\ admins' = admins
    BY <1>4 DEF ImportRow, Put, AccountsTypeOK, CallsOK
  <2>2. taken'[r] = taken[r]
    BY <2>1 DEF Take
  <2>3. UsedRolls' = UsedRolls \cup {row.roll} /\ Emails' = Emails \cup {row.email}
    BY <2>1, Entered DEF UsedRolls, Emails
  <2>4. /\ call'[r].rows = rows /\ call'[r].left = q.left \ {i} /\ call'[r].failed = q.failed
        /\ call'[r].mine = q.mine \cup {row.roll, row.email}
        /\ CreatedRows(call'[r]) = CreatedRows(q) \cup {i}
    BY <1>1, <1>2, <1>3, <2>1 DEF Import, CreatedRows
  <2> HIDE DEF q
  <2>5. Explained(r)'
    BY <1>1, <2>2, <2>3, <2>4, SMTT(30) DEF Explained, q
  <2>6. MineKnown(call'[r])
    BY <1>1, <2>4 DEF MineKnown
  <2>7. FailedExplained(r)'
    BY <1>1, <2>2, <2>4 DEF FailedExplained, MadeElsewhere, q
  <2> QED
    BY <1>1, <2>4, <2>5, <2>6, <2>7 DEF PageInv
<1>5. CASE ~Admits(row.roll, row.email, NoSection)
  <2>1. call'[r] = Import(rows, q.left \ {i}, q.failed \cup {i}, q.mine) /\ UNCHANGED <<students, admins, taken>>
    BY <1>5 DEF ImportRow, Put, AccountsTypeOK, CallsOK
  <2>2. UsedRolls' = UsedRolls /\ Emails' = Emails
    BY <2>1 DEF UsedRolls, Emails
  <2>3. /\ call'[r].rows = rows /\ call'[r].left = q.left \ {i} /\ call'[r].failed = q.failed \cup {i}
        /\ call'[r].mine = q.mine /\ CreatedRows(call'[r]) = CreatedRows(q)
    BY <1>1, <1>2, <1>3, <2>1 DEF Import, CreatedRows
  <2>4. row.roll \in UsedRolls \/ row.email \in Emails
    BY <1>5 DEF Admits, Present
  <2>5. ~row.plain \/ MadeElsewhere(q, i) \/ {row.roll, row.email} \cap taken[r] # {}
    <3>1. i \notin CreatedRows(q)
      BY <1>3
    <3> SUFFICES ASSUME row.plain, row.roll \notin taken[r], row.email \notin taken[r]
                 PROVE  MadeElsewhere(q, i)
      OBVIOUS
    <3>2. ASSUME row.roll \in UsedRolls PROVE FALSE
      <4>1. PICK j \in CreatedRows(q) : rows[j].roll = row.roll
        BY <1>1, <1>2, <3>2 DEF Explained
      <4>2. j \in DOMAIN rows /\ j # i
        BY <1>3, <3>1
      <4> QED
        BY <1>1, <1>2, <4>1, <4>2 DEF RowsDiffer
    <3>3. PICK j \in CreatedRows(q) : rows[j].email = row.email
      BY <1>1, <1>2, <2>4, <3>2 DEF Explained
    <3>4. j \in DOMAIN rows \ {i}
      BY <1>3, <3>1
    <3> QED
      BY <1>1, <1>2, <3>3, <3>4 DEF RowsDiffer, MadeElsewhere
  <2> HIDE DEF q
  <2>6. Explained(r)'
    <3>1. taken' = taken
      BY <2>1
    <3>2. /\ call'[r].rows = call[r].rows /\ UsedRolls' = UsedRolls /\ Emails' = Emails
          /\ CreatedRows(call'[r]) = CreatedRows(call[r])
      BY <2>2, <2>3 DEF q
    <3> QED
      BY <1>1, <3>1, <3>2 DEF Explained
  <2>7. MineKnown(call'[r])
    BY <1>1, <2>3 DEF MineKnown
  <2>8. FailedExplained(r)'
    <3>1. \A k : MadeElsewhere(call'[r], k) <=> MadeElsewhere(q, k)
      BY <2>3 DEF MadeElsewhere
    <3> QED
      BY <1>1, <2>1, <2>3, <2>5, <3>1 DEF FailedExplained, q
  <2> QED
    BY <1>1, <2>3, <2>6, <2>7, <2>8 DEF PageInv
<1> QED
  BY <1>4, <1>5

LEMMA ImportStep ==
  ASSUME AccountsTypeOK, LeftShown, ImportInv, [AccountsNext]_accountsVars
  PROVE  ImportInv'
<1> USE DEF AccountsTypeOK
<1> SUFFICES ASSUME NEW p \in Calls PROVE PageInv(p)'
  BY DEF ImportInv
<1>0. PageInv(p)
  BY DEF ImportInv
<1>a. ASSUME NEW r \in Calls, NEW q, q.step \notin Importing, Put(r, q),
             UsedRolls' \subseteq UsedRolls, Emails' \subseteq Emails, UNCHANGED taken
      PROVE  PageInv(p)'
  <2>1. CASE p = r
    BY <1>a, <2>1 DEF Put, CallsOK, PageInv, Importing
  <2>2. CASE p # r
    BY <1>0, <1>a, <2>2, PageKept DEF Put, CallsOK
  <2> QED
    BY <2>1, <2>2
<1>b. ASSUME UNCHANGED <<call, taken>>, UsedRolls' \subseteq UsedRolls, Emails' \subseteq Emails
      PROVE  PageInv(p)'
  BY <1>0, <1>b, PageKept
<1>c. ASSUME NEW ids, Take(Calls, ids), UNCHANGED call,
             UsedRolls' \subseteq UsedRolls \cup ids, Emails' \subseteq Emails \cup ids
      PROVE  PageInv(p)'
  BY <1>0, <1>c, PageKept DEF Take
<1>d. ASSUME NEW r \in Calls, NEW q, Put(r, q), p # r, NEW ids, Take(Calls \ {r}, ids),
             UsedRolls' \subseteq UsedRolls \cup ids, Emails' \subseteq Emails \cup ids
      PROVE  PageInv(p)'
  BY <1>0, <1>d, PageKept DEF Take, Put, CallsOK
<1>e. ASSUME NEW r \in Calls, NEW q, Put(r, q), p # r, NEW t, UNCHANGED <<students, admins>>,
             taken' = [taken EXCEPT ![r] = t] \/ taken' = taken
      PROVE  PageInv(p)'
  <2>1. UsedRolls' = UsedRolls /\ Emails' = Emails
    BY <1>e DEF UsedRolls, Emails
  <2> QED
    BY <1>0, <1>e, <2>1, PageKept DEF Put, CallsOK
<1>f. UNCHANGED <<students, admins>> => UsedRolls' = UsedRolls /\ Emails' = Emails
  BY DEF UsedRolls, Emails
<1>g. /\ NoCall.step \notin Importing
      /\ \A left : ToDelete(left).step \notin Importing
  BY DEF NoCall, ToDelete, Importing
<1>h. Emails = {x.email : x \in students} \cup {a.email : a \in admins}
      /\ Emails' = {x.email : x \in students'} \cup {a.email : a \in admins'}
      /\ UsedRolls' = {x.roll : x \in students'}
  BY DEF Emails, UsedRolls
<1>1. ASSUME NEW r \in Calls, DeleteSection(r) \/ ChangeSection(r)
      PROVE  PageInv(p)'
  <2>1. UsedRolls' = UsedRolls /\ Emails' = Emails
    BY <1>1, <1>h, Moved DEF DeleteSection, ChangeSection
  <2> QED
    BY <1>1, <1>a, <1>g, <2>1 DEF DeleteSection, ChangeSection
<1>2. ASSUME NEW x \in students, NEW email \in Addresses, UpdateEmail(x, email)
      PROVE  PageInv(p)'
  <2> DEFINE new == [x EXCEPT !.email = email]
  <2>1. new.email = email /\ new.roll = x.roll
    BY DEF PeopleOK, Student
  <2>2. students' = (students \ {x}) \cup {new} /\ admins' = admins
    BY <1>2 DEF UpdateEmail
  <2> HIDE DEF new
  <2>3. UsedRolls' \subseteq UsedRolls \cup {email} /\ Emails' \subseteq Emails \cup {email}
    BY <2>1, <2>2 DEF UsedRolls, Emails
  <2> QED
    BY <1>2, <1>c, <2>3 DEF UpdateEmail
<1>3. ASSUME NEW a \in admins, SetAdminStatus(a)
      PROVE  PageInv(p)'
  <2> DEFINE new == [a EXCEPT !.active = ~@]
  <2>1. new.email = a.email
    BY DEF PeopleOK, Admin
  <2>2. admins' = (admins \ {a}) \cup {new} /\ students' = students
    BY <1>3 DEF SetAdminStatus
  <2> HIDE DEF new
  <2>3. UsedRolls' \subseteq UsedRolls /\ Emails' \subseteq Emails
    BY <2>1, <2>2 DEF UsedRolls, Emails
  <2> QED
    BY <1>3, <1>b, <2>3 DEF SetAdminStatus
<1>4. ASSUME NEW email \in Addresses, NEW active \in BOOLEAN, CreateAdmin(email, active)
      PROVE  PageInv(p)'
  <2> DEFINE new == [id |-> entered + 1, number |-> NextNumber, email |-> email, active |-> active]
  <2>1. admins' = admins \cup {new} /\ students' = students /\ new.email = email
    BY <1>4 DEF CreateAdmin
  <2> HIDE DEF new
  <2>2. UsedRolls' \subseteq UsedRolls \cup {email} /\ Emails' \subseteq Emails \cup {email}
    BY <2>1 DEF UsedRolls, Emails
  <2> QED
    BY <1>4, <1>c, <2>2 DEF CreateAdmin
<1>5. ASSUME NEW r \in Calls, Delete(r)
      PROVE  PageInv(p)'
  <2>1. students' \subseteq students /\ admins' \subseteq admins
    BY <1>5 DEF Delete
  <2>2. UsedRolls' \subseteq UsedRolls /\ Emails' \subseteq Emails
    BY <2>1 DEF UsedRolls, Emails
  <2> QED
    BY <1>5, <1>a, <1>g, <2>2 DEF Delete
<1>6. ASSUME NEW r \in Calls, CreateStudent(r)
      PROVE  PageInv(p)'
  <2>1. CASE Enter(call[r].roll, call[r].email, call[r].section) /\ Take(Calls \ {r}, {call[r].roll, call[r].email})
    <3>1. UsedRolls' \subseteq UsedRolls \cup {call[r].roll, call[r].email}
          /\ Emails' \subseteq Emails \cup {call[r].roll, call[r].email}
      BY <1>6, <1>h, <2>1, Entered DEF CreateStudent
    <3>2. CASE p = r
      BY <1>6, <1>g, <3>2 DEF CreateStudent, Put, CallsOK, PageInv, Importing
    <3>3. CASE p # r
      BY <1>6, <1>d, <2>1, <3>1, <3>3 DEF CreateStudent
    <3> QED
      BY <3>2, <3>3
  <2>2. CASE UNCHANGED <<students, entered, audit, taken>>
    BY <1>6, <1>a, <1>f, <1>g, <2>2 DEF CreateStudent
  <2> QED
    BY <1>6, <2>1, <2>2 DEF CreateStudent
<1>7. ASSUME NEW r \in Calls, NEW i \in call[r].left, At(r, "importing"), ImportRow(r, i)
      PROVE  PageInv(p)'
  <2> DEFINE row == call[r].rows[i]
  <2>1. CASE p = r
    BY <1>0, <1>7, <2>1, ImportSound
  <2>2. CASE p # r /\ Enter(row.roll, row.email, NoSection) /\ Take(Calls \ {r}, {row.roll, row.email})
    <3>1. UsedRolls' \subseteq UsedRolls \cup {row.roll, row.email}
          /\ Emails' \subseteq Emails \cup {row.roll, row.email}
      BY <1>7, <1>h, <2>2, Entered DEF ImportRow
    <3> QED
      BY <1>7, <1>d, <2>2, <3>1 DEF ImportRow
  <2>3. CASE p # r /\ UNCHANGED <<students, entered, audit, taken>>
    BY <1>7, <1>e, <2>3 DEF ImportRow
  <2> QED
    BY <1>7, <2>1, <2>2, <2>3 DEF ImportRow
<1>8. ASSUME NEW r \in Calls, NEW file \in Files, Preview(r, file)
      PROVE  PageInv(p)'
  <2>1. CASE p = r
    BY <1>8, <2>1, PreviewSound
  <2>2. CASE p # r
    BY <1>8, <1>e, <2>2 DEF Preview
  <2> QED
    BY <2>1, <2>2
<1>9. ASSUME NEW r \in Calls, Confirm(r)
      PROVE  PageInv(p)'
  <2>1. CASE p = r
    BY <1>0, <1>9, <2>1, ConfirmSound
  <2>2. CASE p # r
    BY <1>9, <1>e, <2>2 DEF Confirm
  <2> QED
    BY <2>1, <2>2
<1>10. ASSUME NEW r \in Calls, LoseImport(r)
       PROVE  PageInv(p)'
  <2>1. CASE p = r
    BY <1>0, <1>10, <2>1, LoseSound
  <2>2. CASE p # r
    BY <1>10, <1>e, <2>2 DEF LoseImport
  <2> QED
    BY <2>1, <2>2
<1>11. ASSUME NEW r \in Calls, Close(r)
       PROVE  PageInv(p)'
  <2>1. CASE p = r
    BY <1>11, <1>g, <2>1 DEF Close, Put, CallsOK, PageInv, Importing
  <2>2. CASE p # r
    BY <1>11, <1>e, <2>2 DEF Close
  <2> QED
    BY <2>1, <2>2
<1>12. ASSUME NEW r \in Calls, NEW q, q.step \notin Importing, Put(r, q), UNCHANGED <<students, admins, taken>>
       PROVE  PageInv(p)'
  BY <1>12, <1>a, <1>f
<1>13. ASSUME NEW r \in Calls, TryNext(r)
       PROVE  PageInv(p)'
  <2>1. \A i, left : [step |-> "checked", id |-> i, left |-> left].step \notin Importing
    BY DEF Importing
  <2> QED
    BY <1>12, <1>13, <1>g, <2>1 DEF TryNext
<1>14. ASSUME NEW r \in Calls,
              \/ \E s \in Sections : CheckSection(r, s)
              \/ \E roll \in Rolls, email \in Addresses, s \in Sections \cup {NoSection} : Register(r, roll, email, s)
              \/ \E x \in students, s \in Sections \cup {NoSection} : Reassign(r, x, s)
              \/ \E i, j \in Existing : DeleteStudents(r, i, j) \/ DeleteAdmins(r, i, j)
              \/ \E i \in Existing : CheckDelete(r, i)
              \/ LogDelete(r) \/ Crash(r)
       PROVE  PageInv(p)'
  <2>1. \E q : q.step \notin Importing /\ Put(r, q)
    BY <1>14, <1>g DEF CheckSection, Register, Reassign, DeleteStudents, DeleteAdmins, CheckDelete, LogDelete, Crash, Importing
  <2>2. UNCHANGED <<students, admins, taken>>
    BY <1>14 DEF CheckSection, Register, Reassign, DeleteStudents, DeleteAdmins, CheckDelete, LogDelete, Crash
  <2> QED
    BY <1>12, <2>1, <2>2
<1>15. CASE UNCHANGED <<students, admins, call, taken>>
  BY <1>15, <1>b, <1>f
<1>16. ASSUME \/ \E s \in Sections, state \in {"active", "inactive"} : CreateSection(s, state)
              \/ \E s \in Sections : SetSection(s) \/ Target(s)
              \/ \E i \in Existing : Record(i) \/ Hold(i) \/ Release(i)
              \/ UNCHANGED accountsVars
       PROVE  PageInv(p)'
  BY <1>15, <1>16 DEF CreateSection, SetSection, Target, Record, Hold, Release, accountsVars
<1> QED
  BY <1>1, <1>2, <1>3, <1>4, <1>5, <1>6, <1>7, <1>8, <1>9, <1>10, <1>11, <1>13, <1>14, <1>16 DEF AccountsNext

(* A row that the preview calls valid is created when it is confirmed, unless somebody took its *)
(* roll number or address in the meantime, with the two exceptions the code makes.              *)
THEOREM ImportsExplained == AccountsSpec => []ImportExplained
<1>1. AccountsInit => ImportInv
  BY DEF AccountsInit, ImportInv, PageInv, NoCall, Importing
<1>2. (AccountsTypeOK /\ LeftShown) /\ ImportInv /\ [AccountsNext]_accountsVars => ImportInv'
  BY ImportStep
<1>3. ImportInv => ImportExplained
  BY DEF ImportInv, PageInv, FailedExplained, ImportExplained
<1> QED
  BY <1>1, <1>2, <1>3, AccountsTyping, PTL DEF AccountsSpec

=================================================================================
