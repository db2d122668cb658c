----------------------------- MODULE MCAuditChain -----------------------------
(* Model-checking instances of AuditChain. *)
EXTENDS AuditChain, FiniteSets

(* A digest here is the list of the rows it covers, so no two chains share one. Lists no *)
(* longer than the number of calls are all a chain of theirs can reach.                  *)
MCDigests == UNION {[1 .. n -> Calls] : n \in 0 .. Cardinality(Calls)}

MCGenesis == <<>>

MCDigest(digest, row) ==
  IF Len(digest) < Cardinality(Calls) THEN Append(digest, row) ELSE digest
=============================================================================
