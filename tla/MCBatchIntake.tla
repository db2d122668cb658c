----------------------------- MODULE MCBatchIntake -----------------------------
(* Model-checking instances of BatchIntake. *)
EXTENDS BatchIntake
=============================================================================
