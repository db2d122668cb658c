------------------------------ MODULE BatchIntake ------------------------------
(***************************************************************************)
(* POST /batch and POST /batch/reset (src/src/index.ts), startBatch and    *)
(* its undoing (src/src/batch/intake.ts), and the reading of the current   *)
(* job both rest on (src/src/batch/current.ts).  Several people press the  *)
(* buttons; each press is a request of its own.  Every press that starts a *)
(* job creates one, so a job is named by its press.                        *)
(*                                                                         *)
(* One action is one call to something outside the request: a D1 statement *)
(* or batch, an object stored, a coordinator call, a message sent.  What a *)
(* consumer does with a message is told in full by ItemWorker; here it is  *)
(* the check for an aborted job and the two writes that settle an item.    *)
(***************************************************************************)
EXTENDS Integers, FiniteSets

CONSTANTS
  Presses,     \* requests to POST /batch
  Size,        \* submissions in the bundled corpus
  Readable,    \* the sets of files that may turn out readable and acceptable
  Caps,        \* the values MAX_BATCH_ITEMS may have; 0 is unusable
  None,        \* no job
  MaxFaults,   \* bound: calls that throw, and requests that end without an answer
  MaxResets    \* bound: presses of reset

Items == 1..Size

ASSUME IntakeAssumption ==
  /\ Size \in Nat
  /\ Readable \subseteq SUBSET Items
  /\ Caps \subseteq Nat
  /\ {MaxFaults, MaxResets} \subseteq Nat
  /\ None \notin Presses

VARIABLES
  job, created,      \* D1 job.state and job.created_at, by the press that started it
  submission,        \* D1 submission.state
  ledger, aborted,   \* each job's coordinator: rows and abort mark
  message,           \* the work queue: each submission's message
  pc, current, accepted, at,   \* each request's place and locals
  answer,            \* what the person who pressed was told
  resetting,         \* the reset handler: what it does next, and for which job
  clock,             \* the last instant stamped
  early,             \* history: jobs a reset settled before their submissions were written
  unseen,            \* history: starts a request could not have seen when it looked
  spent              \* how much of each bound is used up

stores == <<job, created, submission, ledger, aborted, message>>
history == <<early, unseen>>
vars == <<stores, pc, current, accepted, at, answer, resetting, clock, history, spent>>

Put(f, p, i, v) == [f EXCEPT ![p][i] = v]

(* The steps of a request; a start that is still at one of Starting has no submissions for  *)
(* another request to see.                                                                  *)
Starting == {"insertJob", "open", "insertSubmissions"}
Steps == {"idle", "over", "counts", "prepare", "settleRejected", "append", "send",
          "undoSubmissions", "undoJob", "undoLedger"} \cup Starting

Go(p, step) == pc' = [pc EXCEPT ![p] = step]
Answer(p, a) ==
  /\ Go(p, "over")
  /\ answer' = [answer EXCEPT ![p] = a]

(* Mutant: the sends are not in a try block. *)
Throw_Uncaught(p) == Answer(p, "unavailable")

(* The catch around startBatch's sends undoes the job; the undoing swallows its own faults; *)
(* everywhere else the route answers that the check could not be started.                   *)
Throw(p) ==
  IF pc[p] = "send" THEN Go(p, "undoSubmissions") /\ UNCHANGED answer
  ELSE Answer(p, "unavailable")

(* A call returns, throws having done nothing, or throws having done it. *)
Calls(p, effect, next) ==
  \/ effect /\ next /\ UNCHANGED spent
  \/ /\ spent.throws + spent.losses < MaxFaults
     /\ spent' = [spent EXCEPT !.throws = @ + 1]
     /\ effect \/ UNCHANGED stores
     /\ Throw(p)
     /\ UNCHANGED <<current, accepted, at>>

(* A call whose only effect is on the variable v of the stores. *)
NoOther(p) == UNCHANGED <<clock, history, resetting>>
Onward(p, step) == Go(p, step) /\ UNCHANGED <<answer, current, accepted, at>>

-----------------------------------------------------------------------------
(* Reading the current job: two statements, then joining or starting. *)

Jobs == {p \in Presses : job[p] # "NONE"}

(* loadCurrentJob's first statement: ORDER BY created_at DESC LIMIT 1. *)
NewestJob ==
  IF Jobs = {} THEN None
  ELSE CHOOSE j \in Jobs : \A k \in Jobs : created[k] <= created[j]

(* Mutant: a job some of whose items are finished no longer counts as running. *)
isRunning_Untouched(j) == \A i \in Items : submission[j][i] = "QUEUED"

(* isRunning, over the counts of the second statement. *)
isRunning(j) == \E i \in Items : submission[j][i] = "QUEUED"

(* The button is pressed, and the request reads the newest job. *)
AskNewest(p) ==
  /\ pc[p] = "idle"
  /\ Calls(p, UNCHANGED stores,
           /\ current' = [current EXCEPT ![p] = NewestJob]
           /\ Go(p, IF Jobs = {} THEN "prepare" ELSE "counts")
           /\ UNCHANGED <<answer, accepted, at>>)
  /\ unseen' = [unseen EXCEPT ![p] =
       {q \in Presses \ {p} : pc[q] \in Starting \cup {"prepare"}}]
  /\ UNCHANGED <<clock, resetting, early>>

AskCounts(p) ==
  /\ pc[p] = "counts"
  /\ Calls(p, UNCHANGED stores,
           /\ IF isRunning(current[p]) THEN Answer(p, "joined")
              ELSE Go(p, "prepare") /\ UNCHANGED answer
           /\ UNCHANGED <<current, accepted, at>>)
  /\ NoOther(p)

-----------------------------------------------------------------------------
(* startBatch. *)

(* checkBatchSize: an unusable cap is not "no cap", and the boundary is permitted. *)
checkBatchSize(count, max) == max > 0 /\ count > 0 /\ count <= max

(* The cap, the job's stamp, and the reading and checking of every file: the readable ones *)
(* are accepted. Nothing is written yet.                                                   *)
Prepare(p) ==
  /\ pc[p] = "prepare"
  /\ \E cap \in Caps, ok \in Readable :
       IF checkBatchSize(Size, cap)
       THEN /\ accepted' = [accepted EXCEPT ![p] = ok]
            /\ clock' = clock + 1
            /\ created' = [created EXCEPT ![p] = clock + 1]
            /\ current' = [current EXCEPT ![p] = p]
            /\ unseen' = [q \in Presses |->
                 IF q # p /\ pc[q] \in {"counts", "prepare"} THEN unseen[q] \cup {p}
                 ELSE unseen[q]]
            /\ Go(p, "insertJob")
            /\ UNCHANGED answer
       ELSE /\ Answer(p, "refused")
            /\ UNCHANGED <<accepted, clock, created, current, unseen>>
  /\ UNCHANGED <<job, submission, ledger, aborted, message, at, resetting, early, spent>>

InsertJob(p) ==
  /\ pc[p] = "insertJob"
  /\ Calls(p, /\ job' = [job EXCEPT ![p] = "PROCESSING"]
              /\ UNCHANGED <<created, submission, ledger, aborted, message>>,
           Onward(p, "open"))
  /\ NoOther(p)

(* The coordinator's open: every row QUEUED, whether or not the job is aborted already. *)
Open(p) ==
  /\ pc[p] = "open"
  /\ Calls(p, /\ ledger' = [ledger EXCEPT ![p] = [i \in Items |-> "QUEUED"]]
              /\ UNCHANGED <<job, created, submission, aborted, message>>,
           Onward(p, "insertSubmissions"))
  /\ NoOther(p)

(* Mutant: the loop stops one item early. *)
Step_Short(p, last) ==
  IF at[p] < Size - 1
  THEN at' = [at EXCEPT ![p] = @ + 1] /\ UNCHANGED <<pc, answer, current, accepted>>
  ELSE /\ at' = [at EXCEPT ![p] = 1]
       /\ last
       /\ UNCHANGED <<current, accepted>>

(* One item of a loop over the corpus, or its end. *)
Step(p, last) ==
  IF at[p] < Size
  THEN at' = [at EXCEPT ![p] = @ + 1] /\ UNCHANGED <<pc, answer, current, accepted>>
  ELSE /\ at' = [at EXCEPT ![p] = 1]
       /\ last
       /\ UNCHANGED <<current, accepted>>

(* STAGING.put of each accepted file, then every submission in one batch. No other request  *)
(* reads what is staged, so the puts are part of this step; Retention tells what becomes of *)
(* them.                                                                                    *)
InsertSubmissions(p) ==
  /\ pc[p] = "insertSubmissions"
  /\ Calls(p, /\ submission' = [submission EXCEPT ![p] =
                   [i \in Items |-> IF i \in accepted[p] THEN "QUEUED" ELSE "REJECTED"]]
              /\ UNCHANGED <<job, created, ledger, aborted, message>>,
           Onward(p, "settleRejected"))
  /\ NoOther(p)

(* recordFailure of each rejected item; a settled row stays as it is. *)
SettleRejected(p) ==
  /\ pc[p] = "settleRejected"
  /\ IF at[p] \in accepted[p]
     THEN Step(p, Go(p, "append") /\ UNCHANGED answer) /\ UNCHANGED <<stores, spent>>
     ELSE Calls(p, /\ ledger' = Put(ledger, p, at[p], "FAILED")
                   /\ UNCHANGED <<job, created, submission, aborted, message>>,
                Step(p, Go(p, "append") /\ UNCHANGED answer))
  /\ NoOther(p)

(* The two appends to the history, model.fingerprinted and job.opened, either of which may  *)
(* throw. The probe of the reader before them swallows its faults; these do not.            *)
Append(p) ==
  /\ pc[p] = "append"
  /\ Calls(p, UNCHANGED stores, Onward(p, "send"))
  /\ NoOther(p)

Send(p) ==
  /\ pc[p] = "send"
  /\ IF at[p] \in accepted[p]
     THEN Calls(p, /\ message' = Put(message, p, at[p], "ready")
                   /\ UNCHANGED <<job, created, submission, ledger, aborted>>,
                Step(p, Answer(p, "started")))
     ELSE Step(p, Answer(p, "started")) /\ UNCHANGED <<stores, spent>>
  /\ NoOther(p)

-----------------------------------------------------------------------------
(* Settling a job in the two stores: abandonPartialJob and the reset handler. *)

SettleSubmissions(j) ==
  submission' = [submission EXCEPT ![j] =
    [i \in Items |-> IF @[i] = "QUEUED" THEN "FAILED" ELSE @[i]]]

(* Mutant: abort leaves the rows it finds waiting. *)
AbortJob_MarkOnly(j) == aborted' = [aborted EXCEPT ![j] = TRUE] /\ UNCHANGED ledger

AbortJob(j) ==
  /\ aborted' = [aborted EXCEPT ![j] = TRUE]
  /\ ledger' = [ledger EXCEPT ![j] = [i \in Items |-> IF @[i] = "QUEUED" THEN "FAILED" ELSE @[i]]]

(* abandonPartialJob: the submissions, the job row, the coordinator. *)
Undo(p) ==
  /\ \/ /\ pc[p] = "undoSubmissions"
        /\ Calls(p, SettleSubmissions(p) /\ UNCHANGED <<job, created, ledger, aborted, message>>,
                 Onward(p, "undoJob"))
     \/ /\ pc[p] = "undoJob"
        /\ Calls(p, /\ job' = [job EXCEPT ![p] = "CANCELLED"]
                    /\ UNCHANGED <<created, submission, ledger, aborted, message>>,
                 Onward(p, "undoLedger"))
     \/ /\ pc[p] = "undoLedger"
        /\ Calls(p, AbortJob(p) /\ UNCHANGED <<job, created, submission, message>>,
                 Answer(p, "unavailable") /\ UNCHANGED <<current, accepted, at>>)
  /\ NoOther(p)

(* A request may be lost between two calls: nothing else runs on its behalf. *)
Lose(p) ==
  /\ pc[p] \notin {"idle", "over"}
  /\ spent.throws + spent.losses < MaxFaults
  /\ spent' = [spent EXCEPT !.losses = @ + 1]
  /\ Go(p, "over")
  /\ UNCHANGED <<stores, current, accepted, at, answer>> /\ NoOther(p)

(* POST /batch/reset: the current job's submissions, then its coordinator. A call that     *)
(* throws, before or after its effect, ends the request.                                   *)
requestVars == <<pc, current, accepted, at, answer>>

PressReset ==
  /\ resetting.step = "idle"
  /\ spent.resets < MaxResets
  /\ NewestJob # None
  /\ resetting' = [step |-> "record", job |-> NewestJob]
  /\ spent' = [spent EXCEPT !.resets = @ + 1]
  /\ UNCHANGED <<stores, requestVars, clock, history>>

ResetEnds == resetting' = [step |-> "idle", job |-> None]
ResetThrows ==
  /\ spent.throws + spent.losses < MaxFaults
  /\ spent' = [spent EXCEPT !.throws = @ + 1]
  /\ ResetEnds

ResetRecord ==
  /\ resetting.step = "record"
  /\ \/ /\ SettleSubmissions(resetting.job)
        /\ early' = IF \E i \in Items : submission[resetting.job][i] = "NONE"
                    THEN early \cup {resetting.job} ELSE early
        /\ \/ resetting' = [resetting EXCEPT !.step = "abort"] /\ UNCHANGED spent
           \/ ResetThrows
     \/ UNCHANGED <<submission, early>> /\ ResetThrows
  /\ UNCHANGED <<job, created, ledger, aborted, message, requestVars, clock, unseen>>

ResetLedger ==
  /\ resetting.step = "abort"
  /\ \/ AbortJob(resetting.job) /\ ((ResetEnds /\ UNCHANGED spent) \/ ResetThrows)
     \/ UNCHANGED <<ledger, aborted>> /\ ResetThrows
  /\ UNCHANGED <<job, created, submission, message, requestVars, clock, history>>

-----------------------------------------------------------------------------
(* The consumer of a message: processItem's two checks, then its writes to D1 and to the    *)
(* ledger, as one step. What may come between them is ItemWorker's subject.                 *)

Consume(p, i) ==
  /\ message[p][i] = "ready"
  /\ message' = Put(message, p, i, "gone")
  /\ IF aborted[p] \/ submission[p][i] \in {"COMPLETED", "REJECTED"}
     THEN UNCHANGED <<submission, ledger>>
     ELSE /\ submission' = Put(submission, p, i, "COMPLETED")
          /\ ledger' = Put(ledger, p, i,
                          IF ledger[p][i] = "QUEUED" THEN "COMPLETED" ELSE ledger[p][i])
  /\ UNCHANGED <<job, created, aborted, requestVars, resetting, clock, history, spent>>

-----------------------------------------------------------------------------
PerItem(v) == [p \in Presses |-> [i \in Items |-> v]]

Init ==
  /\ job = [p \in Presses |-> "NONE"]
  /\ created = [p \in Presses |-> 0]
  /\ submission = PerItem("NONE")
  /\ ledger = PerItem("ABSENT")
  /\ aborted = [p \in Presses |-> FALSE]
  /\ message = PerItem("unsent")
  /\ pc = [p \in Presses |-> "idle"]
  /\ current = [p \in Presses |-> None]
  /\ accepted = [p \in Presses |-> {}]
  /\ at = [p \in Presses |-> 1]
  /\ answer = [p \in Presses |-> "none"]
  /\ resetting = [step |-> "idle", job |-> None]
  /\ clock = 0
  /\ early = {}
  /\ unseen = [p \in Presses |-> {}]
  /\ spent = [throws |-> 0, losses |-> 0, resets |-> 0]

Request(p) ==
  \/ AskCounts(p) \/ Prepare(p) \/ InsertJob(p) \/ Open(p) \/ InsertSubmissions(p)
  \/ SettleRejected(p) \/ Append(p) \/ Send(p) \/ Undo(p)

Next ==
  \/ \E p \in Presses : AskNewest(p) \/ Request(p) \/ Lose(p)
  \/ \E p \in Presses, i \in Items : Consume(p, i)
  \/ PressReset \/ ResetRecord \/ ResetLedger

(* The runtime runs a request it has not lost, and the queue delivers what it holds. *)
Fairness ==
  /\ \A p \in Presses : WF_vars(Request(p))
  /\ \A p \in Presses, i \in Items : WF_vars(Consume(p, i))

Spec == Init /\ [][Next]_vars
FairSpec == Spec /\ Fairness

-----------------------------------------------------------------------------
(* Properties. *)

Waiting(p) == \E i \in Items : submission[p][i] = "QUEUED"

(* Nobody acts for the job any more: its request is over, no message of it is left, and no  *)
(* reset is under way on it.                                                                *)
Quiet(p) ==
  /\ pc[p] = "over"
  /\ \A i \in Items : message[p][i] \in {"unsent", "gone"}
  /\ resetting.job # p

(* A job of which anything was sent ends: one call that throws, at any step of the start or *)
(* of a reset, leaves no submission of it waiting for a message that will never come        *)
(* (the comment above the sends in startBatch, abandonPartialJob, the reset route).         *)
SentJobsEnd ==
  \A p \in Presses :
    /\ Quiet(p) /\ p \notin early
    /\ spent.throws <= 1 /\ spent.losses = 0
    /\ \E i \in Items : message[p][i] # "unsent"
    => ~Waiting(p)

(* An aborted job has no survivor in either store, whoever aborted it and whatever failed,  *)
(* unless a reset found its job row before its submissions were written (the reset route    *)
(* and abandonPartialJob settle the submissions before they abort).                         *)
AbortedHasNoSurvivors ==
  \A p \in Presses :
    aborted[p] /\ p \notin early =>
      ~Waiting(p) /\ \A i \in Items : ledger[p][i] # "QUEUED"

(* The button converges on one job: two jobs are at work at once only if some request could *)
(* not have seen another start when it looked ("two people pressing the button must         *)
(* converge on one ledger", the route of POST /batch).                                      *)
TwoJobsOnlyByOverlap ==
  (\E p, q \in Presses : p # q /\ Waiting(p) /\ Waiting(q)) =>
    \E p, q \in Presses : q \in unseen[p] /\ created[p] > 0 /\ created[q] > 0

(* Whoever was told that a check is under way, started or joined, sees it end, unless a     *)
(* call threw, a request was lost, or a reset came before the submissions were written.     *)
AnsweredJobEnds ==
  \A p \in Presses :
    answer[p] \in {"started", "joined"} ~>
      \/ \A j \in Presses : current[p] = j => ~Waiting(j)
      \/ spent.throws > 0 \/ spent.losses > 0 \/ current[p] \in early

=============================================================================
