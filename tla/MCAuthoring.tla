------------------------------ MODULE MCAuthoring ------------------------------
(* Model values for TLC. *)
EXTENDS Authoring, TLC
CONSTANTS q1, q2, s1, w1, w2
Symmetry == Permutations(Questions) \cup Permutations(Admins)

-------------------------------------------------------------------------------
(* What the repository says and the code does not keep.  No run names these: *)
(* a configuration that does makes TLC show the behaviour of the finding.    *)

\* What Assessment.save promises: a published assessment does not become a draft again.
NeverReverted == [][exam.status = "PUBLISHED" => exam'.status # "DRAFT"]_vars

\* What publish_assessment asks for: the points of the questions that students get are the total.
SnapshotComplete == snapshot.taken => SumFunction(snapshot.list) = snapshot.total

\* What publish_version asks for: a published version passes the validation.
PublishedIsSound == \A q \in Questions : version[q] = "PUBLISHED" => q \in sound
================================================================================
