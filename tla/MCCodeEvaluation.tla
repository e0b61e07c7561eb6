--------------------------- MODULE MCCodeEvaluation ----------------------------
(* CodeEvaluation for TLC: every test case is worth a point. *)
EXTENDS CodeEvaluation, TLC

Symmetry == Permutations(Clients) \cup Permutations(Workers) \cup Permutations(SubmitKeys)

OnePerCase == [cases \in SUBSET (1..CaseCount) |-> Cardinality(cases)]

-------------------------------------------------------------------------------
(* What the repository says and the code does not keep.  No run names these: *)
(* a configuration that does makes TLC show the behaviour of the finding.    *)

\* An execution that fails is retried, and in the end fails closed: a submission
\* being processed is never left to nobody.
NeverStuck == \A j \in Existing : status[j] = "PROCESSING" => Held(j)
================================================================================
