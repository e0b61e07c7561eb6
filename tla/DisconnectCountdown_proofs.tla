-------------------- MODULE DisconnectCountdown_proofs --------------------
(***************************************************************************)
(* Theorems about DisconnectCountdown, for any number of connections, any  *)
(* delays and whatever the broker does.                                    *)
(***************************************************************************)
EXTENDS DisconnectCountdown, TLAPS

LEMMA TypeInit == Init => TypeOK
<1> SUFFICES ASSUME Init PROVE TypeOK
  OBVIOUS
<1>1. socket \in [Sockets -> SocketStates]
  BY DEF Init, SocketStates
<1>2. now \in 0..MaxTime /\ issued \in Nat /\ token \in 0..issued /\ setAt \in 0..now
  BY DelayAssumption DEF Init, NoToken
<1> QED
  BY <1>1, <1>2 DEF Init, TypeOK

LEMMA TypeStep == TypeOK /\ [Next]_vars => TypeOK'
<1> SUFFICES ASSUME TypeOK, [Next]_vars PROVE TypeOK'
  OBVIOUS
<1>1. ASSUME NEW s \in Sockets, Accept(s) \/ Refuse(s) \/ Lose(s) PROVE TypeOK'
  BY <1>1 DEF TypeOK, SocketStates, Accept, Refuse, Connects, Lose, cacheVars, attemptVars
<1>2. ASSUME NEW s \in Sockets, ClearToken(s) PROVE TypeOK'
  BY <1>2 DEF TypeOK, SocketStates, ClearToken, Cleared, NoToken, cacheVars,
                attemptVars
<1>3. ASSUME NEW s \in Sockets, NEW sent \in BrokerOutcomes, HandleClose(s, sent)
      PROVE  TypeOK'
  <2>1. CASE outcome = "IN_PROGRESS"
    <3>1. issued' = issued + 1 /\ token' = issued + 1 /\ setAt' = now /\ now' = now
      BY <1>3, <2>1 DEF HandleClose, WrittenAt
    <3>2. issued' \in Nat /\ token' \in 0..issued' /\ setAt' \in 0..now'
      BY <3>1, DelayAssumption DEF TypeOK
    <3>3. [token : 1..issued, eta : Nat] \subseteq [token : 1..issued', eta : Nat]
      BY <3>1 DEF TypeOK
    <3>4. [token |-> issued + 1, eta |-> now + Grace] \in [token : 1..issued', eta : Nat]
      BY <3>1, DelayAssumption DEF TypeOK
    <3>5. tasks' \subseteq tasks \cup {[token |-> issued + 1, eta |-> now + Grace]}
      BY <1>3, <2>1 DEF HandleClose
    <3>6. tasks' \subseteq [token : 1..issued', eta : Nat]
      BY <3>3, <3>4, <3>5 DEF TypeOK
    <3>7. judged' \subseteq 1..issued' /\ socket' \in [Sockets -> SocketStates]
      BY <1>3, <3>1 DEF TypeOK, SocketStates, HandleClose
    <3> QED
      BY <1>3, <3>2, <3>6, <3>7 DEF TypeOK, HandleClose, attemptVars
  <2>2. CASE outcome # "IN_PROGRESS"
    BY <1>3, <2>2 DEF TypeOK, SocketStates, HandleClose, cacheVars, attemptVars
  <2> QED
    BY <2>1, <2>2
<1>4. ASSUME NEW t \in tasks, CheckToken(t) PROVE TypeOK'
  BY <1>4 DEF TypeOK, CheckToken, cacheVars, attemptVars
<1>5. ASSUME NEW k \in judged, Terminate(k) PROVE TypeOK'
  BY <1>5 DEF TypeOK, Terminate, cacheVars, attemptVars
<1>6. CASE EndOtherwise
  BY <1>6 DEF TypeOK, EndOtherwise, cacheVars
<1>7. CASE Tick
  BY <1>7, DelayAssumption DEF TypeOK, Tick, cacheVars, attemptVars
<1>8. CASE UNCHANGED vars
  BY <1>8 DEF TypeOK, vars, cacheVars, attemptVars
<1> QED
  BY <1>1, <1>2, <1>3, <1>4, <1>5, <1>6, <1>7, <1>8 DEF Next

\* Type correctness.
THEOREM Typing == Spec => []TypeOK
BY TypeInit, TypeStep, PTL DEF Spec

-------------------------------------------------------------------------------
(* A condemned attempt had its full grace period *)

\* The entry holds the newest token, whose task is due a grace period after
\* the entry was written.
TokenInv ==
    /\ token \in {NoToken, issued}
    /\ \A t \in tasks : t.token = issued => t.eta = setAt + Grace

LEMMA TokenStep == TypeOK /\ TokenInv /\ [Next]_vars => TokenInv'
<1> SUFFICES ASSUME TypeOK, TokenInv, [Next]_vars PROVE TokenInv'
  OBVIOUS
<1>1. ASSUME NEW s \in Sockets, NEW sent \in BrokerOutcomes, HandleClose(s, sent)
      PROVE  TokenInv'
  <2>1. CASE outcome = "IN_PROGRESS"
    <3>1. issued' = issued + 1 /\ token' = issued + 1 /\ setAt' = now
      BY <1>1, <2>1 DEF HandleClose, WrittenAt
    <3>2. tasks' \subseteq tasks \cup {[token |-> issued + 1, eta |-> now + Grace]}
      BY <1>1, <2>1 DEF HandleClose
    <3>3. \A t \in tasks : t.token # issued + 1
      BY DEF TypeOK
    <3> QED
      BY <3>1, <3>2, <3>3 DEF TokenInv
  <2>2. CASE outcome # "IN_PROGRESS"
    BY <1>1, <2>2 DEF TokenInv, HandleClose, cacheVars
  <2> QED
    BY <2>1, <2>2
<1>2. ASSUME NEW s \in Sockets, Accept(s) \/ Refuse(s) \/ ClearToken(s) \/ Lose(s)
      PROVE  TokenInv'
  BY <1>2 DEF TokenInv, Accept, Refuse, Connects, ClearToken, Cleared, Lose, cacheVars
<1>3. ASSUME NEW t \in tasks, CheckToken(t) PROVE TokenInv'
  BY <1>3 DEF TokenInv, CheckToken, cacheVars
<1>4. ASSUME NEW k \in judged, Terminate(k) PROVE TokenInv'
  BY <1>4 DEF TokenInv, Terminate, cacheVars
<1>5. CASE EndOtherwise \/ Tick \/ UNCHANGED vars
  BY <1>5 DEF TokenInv, EndOtherwise, Tick, vars, cacheVars
<1> QED
  BY <1>1, <1>2, <1>3, <1>4, <1>5 DEF Next

\* Only the task's first half condemns.
LEMMA JudgedFrame ==
    ASSUME [Next]_vars
    PROVE  (\E t \in tasks : CheckToken(t)) \/ judged' \subseteq judged
BY DEF Next, vars, Accept, Refuse, Connects, ClearToken, Lose, HandleClose, Terminate, EndOtherwise, Tick

\* A close that is less than a grace period old condemns nobody.
THEOREM GraceGiven == Spec => FullGrace
<1>1. Init => TokenInv
  BY DEF Init, TokenInv
<1>2. TypeOK /\ TokenInv /\ [Next]_vars =>
        [\A k \in judged' \ judged : k = issued /\ now >= setAt + Grace]_vars
  <2> SUFFICES ASSUME TypeOK, TokenInv, [Next]_vars, NEW k \in judged' \ judged
               PROVE  k = issued /\ now >= setAt + Grace
    OBVIOUS
  <2>1. PICK t \in tasks : CheckToken(t)
    BY JudgedFrame
  <2>2. k = t.token /\ token = k /\ t.eta <= now
    BY <2>1 DEF CheckToken, Valid
  <2>3. k # NoToken
    BY <2>2 DEF TypeOK, NoToken
  <2> QED
    BY <2>2, <2>3 DEF TokenInv
<1> QED
  BY <1>1, <1>2, TypeInit, TypeStep, TokenStep, PTL DEF Spec, FullGrace

-------------------------------------------------------------------------------
(* Until connections overlap, nobody is condemned while connected *)

\* One connection at a time is under way, and an entry means none is in use.
LoneInv ==
    ~overlapped =>
        /\ \A r, s \in Sockets :
              /\ socket[r] \notin {"IDLE", "CLOSED"}
              /\ socket[s] \notin {"IDLE", "CLOSED"}
              => r = s
        /\ token # NoToken => \A s \in Sockets : socket[s] \notin {"OPEN", "LOST"}

LEMMA LoneStep == TypeOK /\ LoneInv /\ [Next]_vars => LoneInv'
<1> SUFFICES ASSUME TypeOK, LoneInv, [Next]_vars PROVE LoneInv'
  OBVIOUS
<1>1. ASSUME NEW s \in Sockets, Accept(s) \/ Refuse(s) PROVE LoneInv'
  BY <1>1 DEF TypeOK, LoneInv, Accept, Refuse, Connects, cacheVars
<1>2. ASSUME NEW s \in Sockets, ClearToken(s) PROVE LoneInv'
  BY <1>2 DEF TypeOK, LoneInv, ClearToken, Cleared
<1>3. ASSUME NEW s \in Sockets, Lose(s) PROVE LoneInv'
  BY <1>3 DEF TypeOK, LoneInv, Lose, cacheVars
<1>4. ASSUME NEW s \in Sockets, NEW sent \in BrokerOutcomes, HandleClose(s, sent)
      PROVE  LoneInv'
  BY <1>4 DEF TypeOK, LoneInv, HandleClose, cacheVars
<1>5. ASSUME NEW t \in tasks, CheckToken(t) PROVE LoneInv'
  BY <1>5 DEF LoneInv, CheckToken, cacheVars
<1>6. ASSUME NEW k \in judged, Terminate(k) PROVE LoneInv'
  BY <1>6 DEF LoneInv, Terminate, cacheVars
<1>7. CASE EndOtherwise \/ Tick \/ UNCHANGED vars
  BY <1>7 DEF LoneInv, EndOtherwise, Tick, vars, cacheVars
<1> QED
  BY <1>1, <1>2, <1>3, <1>4, <1>5, <1>6, <1>7 DEF Next

\* With orderly closes, those of refused connections included, an attempt is
\* condemned only while nobody is connected.
THEOREM OfflineOnly == Spec => CondemnedOffline
<1>1. Init => LoneInv
  BY DEF Init, LoneInv
<1>2. TypeOK /\ LoneInv /\ [Next]_vars =>
        [judged' \ judged # {} /\ ~overlapped =>
          \A s \in Sockets : socket[s] # "OPEN"]_vars
  <2> SUFFICES ASSUME TypeOK, LoneInv, [Next]_vars, judged' \ judged # {}, ~overlapped
               PROVE  \A s \in Sockets : socket[s] # "OPEN"
    OBVIOUS
  <2>1. PICK t \in tasks : CheckToken(t)
    BY JudgedFrame
  <2>2. token = t.token /\ token # NoToken
    BY <2>1 DEF TypeOK, CheckToken, Valid, NoToken
  <2> QED
    BY <2>2 DEF LoneInv
<1> QED
  BY <1>1, <1>2, TypeInit, TypeStep, LoneStep, PTL DEF Spec, CondemnedOffline

================================================================================
