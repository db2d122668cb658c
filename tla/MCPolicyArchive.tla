---------------------------- MODULE MCPolicyArchive ----------------------------
(* One rule that a model drafts and people enact, replace, put back or leave out. *)
EXTENDS PolicyArchive, TLC

MCRoles == [ana |-> {"policy-author"}, ben |-> {"policy-approver"}]

Quoted(by, approver, status, dates) ==
  [id |-> "r1", requirement |-> "text", regulation |-> "reg", kind |-> "field-present",
   status |-> status, dates |-> dates, approval |-> approver,
   provenance |-> [sourceDocument |-> "doc", quote |-> "words", extractedBy |-> "model",
                   proposedBy |-> by, model |-> "gemma"]]

Plain == [id |-> "r2", requirement |-> "text", regulation |-> "reg", kind |-> "numeric-bound",
          status |-> "active", dates |-> {1, 2}, approval |-> None, provenance |-> None]

File(rules) == [version |-> 1, approvedBy |-> "ben", regulations |-> {"reg"},
                documents |-> {"doc"}, rules |-> rules]

Draft == File(<<Quoted("ana", None, "draft", {1})>>)
Enacted == File(<<Quoted("ana", "ben", "active", {1})>>)
Replaced == File(<<Quoted("ana", "ben", "active", {2}), Plain>>)
Unsigned == File(<<Quoted("ana", None, "active", {1})>>)
SelfSigned == File(<<Quoted("ben", "ben", "active", {1})>>)

Requests == Permutations(Deploys)

MCFiles == {Draft, Enacted, Replaced, Unsigned, SelfSigned}
=============================================================================
