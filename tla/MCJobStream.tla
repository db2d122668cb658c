----------------------------- MODULE MCJobStream -----------------------------
(* A model-checking instance of JobStream: two items, a page that loses  *)
(* its connection and asks for the ledger again.                         *)
EXTENDS JobStream
=============================================================================
