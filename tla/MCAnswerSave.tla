----------------------------- MODULE MCAnswerSave ------------------------------
(* AnswerSave for TLC, and what the repository says of it. *)
EXTENDS AnswerSave, TLC

VARIABLE side   \* which side of the system a behaviour is about

Symmetry == Permutations(Requests) \cup Permutations(Workers)

\* The server's side: one question, two evaluations.  Requests that overlap there
\* and a page that strays are explored one at a time; the page does not load its
\* state in place, and no poll goes on after the one that ended the waiting.
ServerStep ==
    /\ timer' \in Coding \cup {Nothing}
    /\ ~(overlapped' /\ strayed') /\ detail' = NoDetail
    /\ ~executing' => polled' = {}

\* The page's side: two questions, one evaluation, and a page that does not stray
\* while the attempt is open.
PageStep ==
    /\ \A v, w \in Evaluating' : v = w
    /\ ~strayed' /\ open'

SidesInit == Init /\ side \in {"server", "page"}
SidesNext == /\ Next
             /\ IF side = "server" THEN ServerStep ELSE PageStep
             /\ UNCHANGED side
SidesSpec == SidesInit /\ [][SidesNext]_<<vars, side>>

-------------------------------------------------------------------------------
(* What the repository says and the code does not keep.  No run names these: *)
(* a configuration that does makes TLC show the behaviour of the finding.    *)

\* No request is lost, none overlaps another or an evaluation at the server, and
\* the page is not loaded again while one is under way.
Reliable ==
    /\ ~overlapped'
    /\ \A r \in Requests :
          /\ ~Lose(r)
          /\ request'[r] # Idle => request'[r].awaited

ReliableSpec == SidesInit /\ [][Next /\ Reliable /\ UNCHANGED side]_<<vars, side>>

\* With nothing scheduled and nothing under way the label reads Saved.  Under
\* ReliableSpec a late reply turns the page's counter back; under SidesSpec, where
\* no late reply reaches a page, the end of an evaluation takes the row's
\* revision past the page's counter, so that the next edit is dropped as stale.
SavedIsSaved == open /\ Quiet => answer = screen
================================================================================
