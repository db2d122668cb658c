------------------------------- MODULE Retention -------------------------------
(***************************************************************************)
(* The sweep that deletes staged content when its review window has closed *)
(* (src/src/batch/retention.ts), run by the nightly schedule and by POST   *)
(* /retention/sweep (src/src/index.ts), against the writers of Staging.    *)
(***************************************************************************)
EXTENDS Staging

CONSTANTS
  Sweepers,      \* the schedule and an operator
  PURGE_BATCH,   \* submissions one sweep handles
  Stuck          \* submissions whose crop the bucket will not delete

ASSUME RetentionAssumption ==
  /\ PURGE_BATCH \in Nat \ {0}
  /\ Stuck \subseteq Submissions

VARIABLES
  sweep,      \* each sweep: its step, the candidates still to delete, those fully deleted
  recorded    \* submissions counted by a content.purged event

vars == <<stagingVars, sweep, recorded>>

Idle == [step |-> "idle", todo |-> {}, gone |-> {}]

(* Mutant: only submissions that were finished are looked for. *)
Candidates_Finished == {s \in due : row[s].state \in {"COMPLETED", "FAILED"} /\ ~row[s].purged}

Candidates == {s \in due : row[s].state # "NONE" /\ ~row[s].purged}

(* findPurgeCandidates: a page in no order. *)
Find(w) ==
  /\ sweep[w].step = "idle"
  /\ \E page \in SUBSET Candidates :
       /\ page # {}
       /\ Cardinality(page) =
            IF Cardinality(Candidates) < PURGE_BATCH THEN Cardinality(Candidates) ELSE PURGE_BATCH
       /\ sweep' = [sweep EXCEPT ![w] = [step |-> "delete", todo |-> page, gone |-> {}]]
  /\ UNCHANGED <<stagingVars, recorded>>

(* purgeContent, one candidate: the PDF if a key is stored, then the crop. A delete that    *)
(* fails leaves the candidate uncounted and the rest of the page to go on.                  *)
Delete(w) ==
  /\ sweep[w].step = "delete"
  /\ \E s \in sweep[w].todo :
       LET keyed == IF row[s].key THEN {pdf(s)} ELSE {}
           done == s \notin Stuck
           todo == sweep[w].todo \ {s}
           gone == IF done THEN sweep[w].gone \cup {s} ELSE sweep[w].gone
       IN /\ bucket' = bucket \ (keyed \cup IF done THEN {crop(s)} ELSE {})
          /\ sweep' = [sweep EXCEPT ![w] =
               IF todo # {} THEN [step |-> "delete", todo |-> todo, gone |-> gone]
               ELSE IF gone = {} THEN Idle
               ELSE [step |-> "mark", todo |-> {}, gone |-> gone]]
  /\ UNCHANGED <<row, judged, due, place, faults, recorded>>

(* Mutant: every candidate is marked, whether its objects were deleted or not. *)
MarkPurged_Candidates(w) ==
  row' = [s \in Submissions |->
            IF s \in Candidates THEN [row[s] EXCEPT !.purged = TRUE, !.key = FALSE] ELSE row[s]]

MarkPurged(w) ==
  row' = [s \in Submissions |->
            IF s \in sweep[w].gone THEN [row[s] EXCEPT !.purged = TRUE, !.key = FALSE] ELSE row[s]]

(* The UPDATEs, in one batch, then the event. A call that throws ends the sweep, and a      *)
(* sweep may be lost between two calls.                                                     *)
Mark(w) ==
  /\ sweep[w].step = "mark"
  /\ \/ MarkPurged(w) /\ sweep' = [sweep EXCEPT ![w].step = "record"] /\ UNCHANGED faults
     \/ /\ faults < MaxFaults /\ faults' = faults + 1
        /\ MarkPurged(w) \/ UNCHANGED row
        /\ sweep' = [sweep EXCEPT ![w] = Idle]
  /\ UNCHANGED <<bucket, judged, due, place, recorded>>

Record(w) ==
  /\ sweep[w].step = "record"
  /\ sweep' = [sweep EXCEPT ![w] = Idle]
  /\ \/ recorded' = recorded \cup sweep[w].gone /\ UNCHANGED faults
     \/ /\ faults < MaxFaults /\ faults' = faults + 1
        /\ recorded' \in {recorded, recorded \cup sweep[w].gone}
  /\ UNCHANGED <<bucket, row, judged, due, place>>

LoseSweep(w) ==
  /\ sweep[w].step # "idle"
  /\ faults < MaxFaults /\ faults' = faults + 1
  /\ sweep' = [sweep EXCEPT ![w] = Idle]
  /\ UNCHANGED <<bucket, row, judged, due, place, recorded>>

Init == StagingInit /\ sweep = [w \in Sweepers |-> Idle] /\ recorded = {}

Step(w) == Find(w) \/ Delete(w) \/ Mark(w) \/ Record(w)

Next ==
  \/ \E s \in Submissions :
       /\ Writer(s) \/ Age(s)
       /\ UNCHANGED <<sweep, recorded>>
  \/ \E w \in Sweepers : Step(w) \/ LoseSweep(w)

(* The schedule fires every night, and the runtime runs what it has not lost. *)
Fairness ==
  /\ \A w \in Sweepers : WF_vars(Step(w))
  /\ \A s \in Submissions : WF_vars(Writer(s) /\ UNCHANGED <<sweep, recorded>>)

Spec == Init /\ [][Next]_vars
FairSpec == Spec /\ Fairness

-----------------------------------------------------------------------------
(* Properties. *)

(* A row that says its content is gone is right: the PDF is gone for good, and the crop     *)
(* too, unless a worker still held the PDF it had read when the window closed (the order of *)
(* runPurge: objects first, the record second).                                             *)
PurgedMeansGone ==
  \A s \in Submissions :
    row[s].purged =>
      /\ pdf(s) \notin bucket
      /\ crop(s) \in bucket => s \in Batch /\ s \in due

(* An object of a single review, or a staged PDF, that no row leads the sweep to belongs to *)
(* a request that failed: nothing a finished request stored escapes the policy (D32).       *)
UnlistedOnlyByFailure ==
  \A s \in Submissions :
    LET objects == bucket \cap (IF s \in Batch THEN {pdf(s)} ELSE {pdf(s), crop(s)})
        listed == row[s].state # "NONE" /\ ~row[s].purged /\ (pdf(s) \in bucket => row[s].key)
    IN objects # {} /\ place[s] = "over" => listed

(* A review the person saw as a result has its verdict: a COMPLETED row without one belongs *)
(* to a request that answered a failure or is still running (the order of the INSERTs and   *)
(* persistResult in POST /review).                                                          *)
ShownReviewsJudged ==
  \A s \in Single : place[s] = "over" => s \in judged /\ row[s].state = "COMPLETED"

(* Content whose window has closed goes, whatever order the pages come in: fewer stuck      *)
(* submissions than a page holds cannot keep the others from being purged (purgeContent:    *)
(* "one unreachable object must not stop the rest of the sweep").                           *)
DueIsPurged ==
  Cardinality(Stuck) < PURGE_BATCH =>
    \A s \in Submissions \ Stuck :
      (s \in due /\ row[s].state # "NONE") ~> row[s].purged
=============================================================================
