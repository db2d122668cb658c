-------------------------------- MODULE Staging --------------------------------
(***************************************************************************)
(* Who puts content into the STAGING bucket, and which D1 row accounts for *)
(* it: startBatch stages a PDF before it inserts the submission (src/src/  *)
(* batch/intake.ts), the item worker stores the label crop when it has     *)
(* read the PDF (src/src/batch/pipeline.ts), and POST /review stores both  *)
(* before it asks the model anything and inserts its rows at the end       *)
(* (src/src/index.ts).  Only the calls that touch the bucket or the rows   *)
(* are steps here; BatchIntake and ItemWorker tell the rest.               *)
(***************************************************************************)
EXTENDS Integers, FiniteSets

CONSTANTS
  Batch, Single,   \* submissions of a batch, and submissions checked alone
  MaxFaults        \* bound: store calls that throw, and sweeps that are lost

Submissions == Batch \cup Single

ASSUME StagingAssumption == Batch \cap Single = {} /\ MaxFaults \in Nat

VARIABLES
  bucket,   \* the R2 objects that exist
  row,      \* D1 submission: its state, whether content_key is set, whether it is purged
  judged,   \* submissions with a stored verdict
  due,      \* submissions whose job started before the cutoff
  place,    \* what is done next for each submission
  faults    \* how much of the bound is used up

stagingVars == <<bucket, row, judged, due, place, faults>>

pdf(s) == <<s, "pdf">>
crop(s) == <<s, "crop">>
NoRow == [state |-> "NONE", key |-> FALSE, purged |-> FALSE]

(* "failed" is a request that answered a failure; "over" is done, or given up by the queue. *)
Places == {"stage", "insert", "read", "crop", "persist",
           "putCrop", "putPdf", "ask", "append", "failed", "over"}

Move(s, p) == place' = [place EXCEPT ![s] = p]

(* A call returns, throws having done nothing, or throws having done it. What a throw leads *)
(* to: a worker's message is delivered again, a request answers a failure.                  *)
OnThrow(s) ==
  Move(s, IF s \in Batch /\ place[s] \in {"read", "crop", "persist"} THEN "read" ELSE "failed")

Calls(s, effect, nothing, next) ==
  \/ effect /\ Move(s, next) /\ UNCHANGED faults
  \/ /\ faults < MaxFaults
     /\ faults' = faults + 1
     /\ effect \/ nothing
     /\ OnThrow(s)

Puts(s, object, next) ==
  /\ Calls(s, bucket' = bucket \cup {object}, UNCHANGED bucket, next)
  /\ UNCHANGED <<row, judged, due>>

Inserts(s, state, keyed, next) ==
  /\ Calls(s, row' = [row EXCEPT ![s] = [state |-> state, key |-> keyed, purged |-> FALSE]],
           UNCHANGED row, next)
  /\ UNCHANGED <<bucket, judged, due>>

-----------------------------------------------------------------------------
(* A submission of a batch. *)

StagePdf(s) == s \in Batch /\ place[s] = "stage" /\ Puts(s, pdf(s), "insert")

InsertQueued(s) == s \in Batch /\ place[s] = "insert" /\ Inserts(s, "QUEUED", TRUE, "read")

(* The worker reads the staged PDF; one that is no longer there fails the item. *)
ReadPdf(s) ==
  /\ s \in Batch /\ place[s] = "read"
  /\ IF pdf(s) \in bucket
     THEN Move(s, "crop") /\ UNCHANGED <<row, faults>>
     ELSE Calls(s, row' = [row EXCEPT ![s].state = "FAILED"], UNCHANGED row, "over")
  /\ UNCHANGED <<bucket, judged, due>>

StoreCrop(s) == s \in Batch /\ place[s] = "crop" /\ Puts(s, crop(s), "persist")

(* persistResult: the verdict and the state of the submission, in one batch. *)
Persist(s) ==
  /\ place[s] = "persist"
  /\ Calls(s, /\ judged' = judged \cup {s}
              /\ row' = [row EXCEPT ![s].state = "COMPLETED"],
           UNCHANGED <<judged, row>>, IF s \in Batch THEN "over" ELSE "append")
  /\ UNCHANGED <<bucket, due>>

-----------------------------------------------------------------------------
(* POST /review: crop, PDF if one was filed, model, job and submission, verdict, history. *)

PutCrop(s) ==
  /\ s \in Single /\ place[s] = "putCrop"
  /\ \E next \in {"putPdf", "ask"} : Puts(s, crop(s), next)

PutPdf(s) == place[s] = "putPdf" /\ Puts(s, pdf(s), "ask")

(* reviewOne: a provider that does not answer ends the request. *)
AskModel(s) ==
  /\ place[s] = "ask"
  /\ Move(s, "insert") \/ Move(s, "failed")
  /\ UNCHANGED <<bucket, row, judged, due, faults>>

(* Mutant: the row of a single review does not name its PDF. *)
InsertCompleted_NoKey(s) ==
  s \in Single /\ place[s] = "insert" /\ Inserts(s, "COMPLETED", FALSE, "persist")

(* Mutant: the person is answered before the verdict is stored. *)
InsertCompleted_ThenAnswer(s) ==
  s \in Single /\ place[s] = "insert" /\ Inserts(s, "COMPLETED", pdf(s) \in bucket, "append")

(* The INSERT of the job and that of its submission; the job alone leads to nothing. *)
InsertCompleted(s) ==
  s \in Single /\ place[s] = "insert" /\ Inserts(s, "COMPLETED", pdf(s) \in bucket, "persist")

AppendVerdict(s) ==
  /\ place[s] = "append"
  /\ Calls(s, UNCHANGED row, UNCHANGED row, "over")
  /\ UNCHANGED <<bucket, row, judged, due>>

-----------------------------------------------------------------------------
(* Time passes: the job's start falls behind the cutoff. A request does not last a day;     *)
(* a message may be worked on that late.                                                    *)
Age(s) ==
  /\ s \notin due
  /\ place[s] # "stage" /\ (s \in Single => place[s] \in {"failed", "over"})
  /\ due' = due \cup {s}
  /\ UNCHANGED <<bucket, row, judged, place, faults>>

StagingInit ==
  /\ bucket = {} /\ judged = {} /\ due = {} /\ faults = 0
  /\ row = [s \in Submissions |-> NoRow]
  /\ place = [s \in Submissions |-> IF s \in Batch THEN "stage" ELSE "putCrop"]

Writer(s) ==
  \/ StagePdf(s) \/ InsertQueued(s) \/ ReadPdf(s) \/ StoreCrop(s) \/ Persist(s)
  \/ PutCrop(s) \/ PutPdf(s) \/ AskModel(s) \/ InsertCompleted(s)
  \/ AppendVerdict(s)

=============================================================================
