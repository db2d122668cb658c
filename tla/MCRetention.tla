------------------------------ MODULE MCRetention ------------------------------
(* Model-checking instances of Retention. *)
EXTENDS Retention
=============================================================================
