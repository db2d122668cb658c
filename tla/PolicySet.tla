------------------------------- MODULE PolicySet -------------------------------
(***************************************************************************)
(* The contract a policy set must satisfy before a worker starts with it   *)
(* (src/src/domain/policy.ts, users.ts): the whole set is accepted or the  *)
(* whole set is refused.                                                   *)
(*                                                                         *)
(* A set is [version, approvedBy, regulations, documents, rules], rules a  *)
(* sequence.  A rule is [id, requirement, regulation, kind, status,        *)
(* provenance, approval], with its windows and product types as data.  An  *)
(* absent or blank value is None.                                          *)
(***************************************************************************)
EXTENDS Integers, Sequences, FiniteSets

CONSTANTS
  None,
  Roles     \* the register: person -> the roles held, in its domain only who is registered

CHECK_KINDS == {"field-present", "format-matches", "value-in-set", "numeric-consistency",
                "statutory-text", "numeric-bound"}

userMay(name, role) == name \in DOMAIN Roles /\ role \in Roles[name]

(* An approval names somebody entitled to give it, who is not the proposer. *)
ApprovalAccepted(rule) ==
  rule.approval # None =>
    /\ userMay(rule.approval, "policy-approver")
    /\ rule.provenance # None => rule.provenance.proposedBy # rule.approval

(* A rule drawn from a document names it and quotes it; one a model drew names the person   *)
(* who puts it forward and the model, and is a draft until a person has approved it.        *)
ProvenanceAccepted(rule, documents) ==
  LET p == rule.provenance
  IN p # None =>
       /\ p.sourceDocument \in documents /\ p.quote # None
       /\ p.extractedBy \in {"human", "model"}
       /\ p.extractedBy = "model" =>
            /\ userMay(p.proposedBy, "policy-author") /\ p.model # None
            /\ rule.status = "active" => rule.approval # None

validateProvenance(rule, documents) ==
  ApprovalAccepted(rule) /\ ProvenanceAccepted(rule, documents)

validatePolicySet(set) ==
  /\ set.version \in Nat \ {0}
  /\ set.approvedBy # None
  /\ \A i \in DOMAIN set.rules :
       LET rule == set.rules[i]
       IN /\ rule.id # None
          /\ \A j \in DOMAIN set.rules : set.rules[j].id = rule.id => i = j
          /\ rule.requirement # None
          /\ rule.regulation \in set.regulations
          /\ rule.kind \in CHECK_KINDS
          /\ validateProvenance(rule, set.documents)
          /\ rule.status \in {"draft", "active", "superseded"}
=============================================================================
