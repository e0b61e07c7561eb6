------------------------- MODULE MCResultFinalization -------------------------
(* ResultFinalization for TLC. *)
EXTENDS ResultFinalization, TLC

================================================================================
