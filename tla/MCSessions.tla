------------------------------ MODULE MCSessions --------------------------------
(* Sessions for TLC. *)
EXTENDS Sessions, TLC

Symmetry == Permutations(Requests)

-----------------------------------------------------------------------------
(* What the repository says and the code does not keep.  No run names these: a   *)
(* configuration that does makes TLC show the behaviour of the finding.          *)

\* session_policy.py: "Enforces server-authoritative idle expiration across Admin,
\* Proctor, and Student accounts".
IdleOpensNothing ==
    [][\A u \in sockets' \ sockets : \E k \in Of(u) : Authenticated(k) /\ ~Expired(k)]_vars

\* middleware.py: "Update last_activity on actual user requests".  A late answer takes
\* the update back, an answer of 500 never stores it, and the session of somebody at
\* work ends.
BusyStays ==
    [][\A k \in open \ open' :
           Authenticated(k) /\ UNCHANGED account /\ (\A r \in Requests : Is(r, "free"))
               => now - used[k] >= Timeout]_vars

================================================================================
