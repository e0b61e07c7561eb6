------------------------------ MODULE MCRetention ------------------------------
(* Model values for TLC. *)
EXTENDS Retention, TLC
CONSTANTS a1, h1, j1, f1, w1, w2
Symmetry == Permutations(Workers)

-------------------------------------------------------------------------------
(* What the repository says and the code does not keep.  No run names these: *)
(* a configuration that does makes TLC show the behaviour of the finding.    *)

Made(j) == export[j].status \notin {"NONE", "REQUESTED"}

\* phase9-architecture.md: what is requested after the scrub is a partial archive.
PartialAfterScrub ==
    \A j \in Exports :
        Made(j) /\ export[j].on \in Attempts /\ export[j].archive = "FULL" => export[j].full

\* models.py: an archive of this type is the "Full Pre-Purge Student Telemetry".
FullHoldsDetails ==
    \A j \in Exports :
        Made(j) /\ export[j].on = Student /\ export[j].archive = "FULL" => export[j].full
================================================================================
