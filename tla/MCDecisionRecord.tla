--------------------------- MODULE MCDecisionRecord ---------------------------
(* Model-checking instances of DecisionRecord. *)
EXTENDS DecisionRecord, TLC

(* Requests of one kind are interchangeable. *)
RequestSymmetry == Permutations(Deciders) \cup Permutations(Auditors)
=============================================================================
