------------------------------ MODULE ItemWorker ------------------------------
(***************************************************************************)
(* One batch job from the moment its messages are queued: the work queue,  *)
(* the item workers that consume it (processItem in                        *)
(* src/src/batch/pipeline.ts and the queue handler in src/src/index.ts),   *)
(* the durable record they write (D1), the coordinator's ledger they       *)
(* report to, and a person pressing reset.                                 *)
(*                                                                         *)
(* One action is one call to something outside the worker: a D1 statement  *)
(* or atomic batch, an object-store or coordinator call, a browser launch, *)
(* a pair of model calls.  Between two of them any other worker may run.   *)
(***************************************************************************)
EXTENDS JobCoordinator

CONSTANTS
  Workers,        \* concurrent invocations of the queue handler
  MAX_ATTEMPTS,   \* backoff.ts: attempts before an item is recorded as failed
  MaxRetries,     \* wrangler.jsonc: redeliveries before the dead-letter queue
  Deployments,    \* the configurations a delivery may meet
  Readings,       \* the results the browser and the model may give
  MaxFaults,      \* bound: store or coordinator calls that throw
  MaxCrashes,     \* bound: invocations lost
  MaxExpiries,    \* bound: messages redelivered while their invocation runs
  MaxResets       \* bound: presses of the reset button

Faults == {"refused", "rate-limited", "quota-exhausted", "permanent", "transient"}

ASSUME WorkerAssumption ==
  /\ MAX_ATTEMPTS \in Nat \ {0}
  /\ MaxRetries \in Nat
  /\ MAX_ATTEMPTS <= MaxRetries
  /\ Deployments \subseteq {"configured", "misconfigured", "unbound"}
  /\ Readings \subseteq Faults \cup {"read"}
  /\ {MaxFaults, MaxCrashes, MaxExpiries, MaxResets} \subseteq Nat
  /\ None \notin Workers /\ None \notin Items /\ None \notin Faults

VARIABLES
  submission,  \* D1 submission.state
  verdicts,    \* D1: verdict rows of each submission; none ever names a successor
  chained,     \* D1: verdict.recorded events of each submission
  message,     \* the queue's view of each item's message
  pc, item, attempt, fault, launches,   \* each worker's place and locals
  resetting,   \* what the reset handler does next
  spent        \* how much of each bound is used up

durable == <<submission, verdicts, chained>>
locals == <<item, attempt, fault, launches>>
workerVars == <<pc, locals>>
vars == <<coordVars, durable, message, workerVars, resetting, spent>>

SubmissionStates == {"QUEUED", "COMPLETED", "FAILED", "REJECTED"}

(* The steps of an invocation. "ack" and "retry" are the queue handler's last word on it. *)
Steps == {"idle", "provider", "misconfigured", "recordMisconfigured", "abandoned",
          "settled", "start", "stage", "rasterise", "extract", "crop", "persist", "audit",
          "record", "failItem", "failJob", "auditAbandoned", "abort", "defer", "fail",
          "auditFailed", "recordFailure", "ack", "retry"}

(* The try block of processItem: a fault here is classified and handled. *)
Guarded == {"stage", "rasterise", "extract", "crop", "persist", "audit", "record"}

-----------------------------------------------------------------------------
(* Moving a worker. *)

Go(w, step) == pc' = [pc EXCEPT ![w] = step] /\ UNCHANGED locals

(* The catch block: where a fault of kind f sends the item. *)
CatchStep(w, f) ==
  CASE f = "quota-exhausted" -> "failItem"
    [] f = "transient" /\ attempt[w] < MAX_ATTEMPTS -> "defer"
    [] OTHER -> "fail"

Catch(w, f) ==
  /\ pc' = [pc EXCEPT ![w] = CatchStep(w, f)]
  /\ fault' = [fault EXCEPT ![w] = f]
  /\ UNCHANGED <<item, attempt, launches>>

(* The queue handler's catch: redeliver within the budget, then acknowledge. *)
Uncaught(w) == Go(w, IF attempt[w] >= MAX_ATTEMPTS THEN "ack" ELSE "retry")

(* A thrown store or coordinator error. In the try block the provider classifies it by the *)
(* words of its message, so it may pass for any fault of the model; a refusal is a class   *)
(* of its own (errors.ts).                                                                 *)
Throw(w) ==
  IF pc[w] \in Guarded THEN \E f \in Faults \ {"refused"} : Catch(w, f) ELSE Uncaught(w)

(* What the call at the worker's step does to the stores is effect. It may return, throw *)
(* having done nothing, or throw having done it: a reply can be lost after a commit.     *)
Calls(w, effect, nothing, next) ==
  /\ \/ effect /\ Go(w, next) /\ UNCHANGED spent
     \/ /\ spent.faults < MaxFaults
        /\ spent' = [spent EXCEPT !.faults = @ + 1]
        /\ effect \/ nothing
        /\ Throw(w)
  /\ UNCHANGED <<message, resetting>>

(* A call that only reads. *)
Asks(w, next) == Calls(w, UNCHANGED <<coordVars, durable>>, UNCHANGED <<coordVars, durable>>, next)

(* A call on D1, and a call on the coordinator. *)
Writes(w, effect, next) ==
  Calls(w, effect, UNCHANGED durable, next) /\ UNCHANGED coordVars
Tells(w, effect, next) ==
  Calls(w, effect, UNCHANGED coordVars, next) /\ UNCHANGED durable

(* A step inside the worker, or a service call whose answer decides where it goes. *)
Within == UNCHANGED <<coordVars, durable, message, resetting, spent>>

SetState(i, state) ==
  /\ submission' = [submission EXCEPT ![i] = state]
  /\ UNCHANGED <<verdicts, chained>>

(* UPDATE submission ... WHERE job_id = ? AND state IN ('QUEUED', 'RUNNING') *)
FailPending ==
  /\ submission' = [i \in Items |-> IF submission[i] = "QUEUED" THEN "FAILED" ELSE submission[i]]
  /\ UNCHANGED <<verdicts, chained>>

-----------------------------------------------------------------------------
(* The queue: one message an item, delivered at least once, one invocation at a time. *)

(* Mutant: dead-lettered one delivery early. *)
Returned_Early(m) ==
  [m EXCEPT !.status = IF m.attempts >= MaxRetries THEN "dead" ELSE "ready", !.holder = None]

(* A message that is not acknowledged goes back, or to the dead-letter queue. *)
Returned(m) ==
  [m EXCEPT !.status = IF m.attempts > MaxRetries THEN "dead" ELSE "ready", !.holder = None]

Release(w, outcome) ==
  /\ message' = [message EXCEPT ![item[w]] = IF @.holder = w THEN outcome ELSE @]
  /\ pc' = [pc EXCEPT ![w] = "idle"]
  /\ item' = [item EXCEPT ![w] = None]
  /\ attempt' = [attempt EXCEPT ![w] = 0]
  /\ fault' = [fault EXCEPT ![w] = None]
  /\ launches' = [launches EXCEPT ![w] = 0]
  /\ UNCHANGED <<coordVars, durable, resetting>>

(* max_batch_size and max_concurrency are 1; message.attempts counts from 1. *)
Deliver(w, i) ==
  /\ pc[w] = "idle"
  /\ message[i].status = "ready"
  /\ \A j \in Items : message[j].status # "held"
  /\ message' = [message EXCEPT ![i] = [status |-> "held", attempts |-> @.attempts + 1, holder |-> w]]
  /\ pc' = [pc EXCEPT ![w] = "provider"]
  /\ item' = [item EXCEPT ![w] = i]
  /\ attempt' = [attempt EXCEPT ![w] = message'[i].attempts]
  /\ UNCHANGED <<coordVars, durable, fault, launches, resetting, spent>>

Ack(w) ==
  /\ pc[w] = "ack"
  /\ Release(w, [message[item[w]] EXCEPT !.status = "gone", !.holder = None])
  /\ UNCHANGED spent

Retry(w) ==
  /\ pc[w] = "retry"
  /\ Release(w, Returned(message[item[w]]))
  /\ UNCHANGED spent

(* The invocation is lost (eviction, deploy, CPU limit); the message comes back. *)
Crash(w) ==
  /\ pc[w] # "idle"
  /\ spent.crashes < MaxCrashes
  /\ spent' = [spent EXCEPT !.crashes = @ + 1]
  /\ Release(w, Returned(message[item[w]]))

(* The acknowledgement window closes on an invocation that is still running. *)
Expire(w) ==
  /\ pc[w] # "idle"
  /\ message[item[w]].holder = w
  /\ spent.expiries < MaxExpiries
  /\ spent' = [spent EXCEPT !.expiries = @ + 1]
  /\ message' = [message EXCEPT ![item[w]] = Returned(@)]
  /\ UNCHANGED <<coordVars, durable, workerVars, resetting>>

-----------------------------------------------------------------------------
(* processItem, up to its try block. *)

(* A missing binding returns at once; createProvider may throw. *)
BuildProvider(w) ==
  /\ pc[w] = "provider"
  /\ \/ "unbound" \in Deployments /\ Go(w, "ack")
     \/ "misconfigured" \in Deployments /\ Go(w, "misconfigured")
     \/ "configured" \in Deployments /\ Go(w, "abandoned")
  /\ Within

FailMisconfigured(w) ==
  /\ pc[w] = "misconfigured"
  /\ Writes(w, SetState(item[w], "FAILED"), "recordMisconfigured")

RecordMisconfigured(w) ==
  /\ pc[w] = "recordMisconfigured"
  /\ \E cause \in Causes : Tells(w, RecordFailure(item[w], cause), "ack")

CheckAbandoned(w) ==
  /\ pc[w] = "abandoned"
  /\ Asks(w, IF aborted # None THEN "ack" ELSE "settled")

(* Mutant: a completed submission is judged again. *)
isAlreadySettled_RejectedOnly(state) == state = "REJECTED"

isAlreadySettled(state) == state \in {"COMPLETED", "REJECTED"}

CheckSettled(w) ==
  /\ pc[w] = "settled"
  /\ Asks(w, IF isAlreadySettled(submission[item[w]]) THEN "ack" ELSE "start")

Start(w) ==
  /\ pc[w] = "start"
  /\ Tells(w, StartItem(item[w]), "stage")

-----------------------------------------------------------------------------
(* The try block. *)

(* The staged PDF; a missing one is a deterministic refusal. *)
ReadStaged(w) ==
  /\ pc[w] = "stage"
  /\ \/ Asks(w, "rasterise")
     \/ "refused" \in Readings /\ Catch(w, "refused") /\ Within

(* Mutant: the count of launches starts over instead of ending the wait. *)
Rasterise_Unbounded(w) ==
  /\ pc[w] = "rasterise"
  /\ \/ Go(w, "extract")
     \/ \E f \in Readings \cap {"refused", "transient"} : Catch(w, f)
     \/ /\ "rate-limited" \in Readings
        /\ launches' = [launches EXCEPT ![w] = (@ + 1) % MAX_ATTEMPTS]
        /\ UNCHANGED <<pc, item, attempt, fault>>
  /\ Within

(* Shipped rasters need no browser. A launch refused on rate is waited out in place, up to *)
(* MAX_ATTEMPTS launches (withRateLimitRetry); any other failure is rethrown at once.      *)
Rasterise(w) ==
  /\ pc[w] = "rasterise"
  /\ \/ Go(w, "extract")
     \/ \E f \in Readings \cap {"refused", "transient"} : Catch(w, f)
     \/ /\ "rate-limited" \in Readings
        /\ launches' = [launches EXCEPT ![w] = @ + 1]
        /\ IF launches'[w] < MAX_ATTEMPTS
             THEN UNCHANGED <<pc, item, attempt, fault>>
             ELSE /\ pc' = [pc EXCEPT ![w] = CatchStep(w, "rate-limited")]
                  /\ fault' = [fault EXCEPT ![w] = "rate-limited"]
                  /\ UNCHANGED <<item, attempt>>
  /\ Within

(* The rules in force and the two blind readings: no retry wraps the model calls. *)
Extract(w) ==
  /\ pc[w] = "extract"
  /\ \/ "read" \in Readings /\ Asks(w, "crop")
     \/ \E f \in Readings \ {"read", "refused"} : Catch(w, f) /\ Within

(* Mutant: the verdict is chained before it is stored. *)
StoreCrop_ThenAudit(w) ==
  /\ pc[w] = "crop"
  /\ Asks(w, "audit")

(* Mutant: the coordinator is told before the verdict is stored. *)
StoreCrop_ThenRecord(w) ==
  /\ pc[w] = "crop"
  /\ Asks(w, "record")

(* The label crop goes to the object store, which the durable record never lists. *)
StoreCrop(w) ==
  /\ pc[w] = "crop"
  /\ Asks(w, "persist")

(* persistResult: one atomic batch, with a verdict row under an id of its own. *)
Persist(w) ==
  /\ pc[w] = "persist"
  /\ Writes(w, /\ verdicts' = [verdicts EXCEPT ![item[w]] = @ + 1]
               /\ submission' = [submission EXCEPT ![item[w]] = "COMPLETED"]
               /\ UNCHANGED chained,
            "audit")

(* verdict.recorded; appendAudit may also give up after losing five races. *)
Audit(w) ==
  /\ pc[w] = "audit"
  /\ Writes(w, /\ \/ chained' = [chained EXCEPT ![item[w]] = @ + 1]
                  \/ UNCHANGED chained
               /\ UNCHANGED <<submission, verdicts>>,
            "record")

Record(w) ==
  /\ pc[w] = "record"
  /\ \E outcome \in Outcomes : Tells(w, RecordResult(item[w], outcome), "ack")

-----------------------------------------------------------------------------
(* The catch block. *)

(* Mutant: only the submission that met the fault is failed before the abort. *)
FailItem_Only(w) ==
  /\ pc[w] = "failItem"
  /\ Writes(w, SetState(item[w], "FAILED"), "auditAbandoned")

(* A spent allowance: this submission, then every pending one, then the job. *)
FailItem(w) ==
  /\ pc[w] = "failItem"
  /\ Writes(w, SetState(item[w], "FAILED"), "failJob")

FailJob(w) ==
  /\ pc[w] = "failJob"
  /\ Writes(w, FailPending, "auditAbandoned")

AuditAbandoned(w) ==
  /\ pc[w] = "auditAbandoned"
  /\ Asks(w, "abort")

AbandonJob(w) ==
  /\ pc[w] = "abort"
  /\ \E cause \in Causes : Tells(w, Abort(cause), "ack")

Defer(w) ==
  /\ pc[w] = "defer"
  /\ Tells(w, DeferItem(item[w]), "retry")

Fail(w) ==
  /\ pc[w] = "fail"
  /\ Writes(w, SetState(item[w], IF fault[w] = "refused" THEN "REJECTED" ELSE "FAILED"),
            "auditFailed")

(* Mutant: the coordinator is not told of the failure. *)
AuditFailed_ThenAck(w) ==
  /\ pc[w] = "auditFailed"
  /\ Asks(w, "ack")

AuditFailed(w) ==
  /\ pc[w] = "auditFailed"
  /\ Asks(w, "recordFailure")

RecordFailed(w) ==
  /\ pc[w] = "recordFailure"
  /\ \E cause \in Causes : Tells(w, RecordFailure(item[w], cause), "ack")

-----------------------------------------------------------------------------
(* POST /batch/reset: settle the durable record, then abort the ledger. Either call may *)
(* fail, and the request then ends there.                                               *)

Resets(effect, next) ==
  /\ \/ effect /\ resetting' = next /\ UNCHANGED spent
     \/ /\ spent.faults < MaxFaults
        /\ spent' = [spent EXCEPT !.faults = @ + 1]
        /\ effect \/ UNCHANGED <<coordVars, durable>>
        /\ resetting' = "idle"
  /\ UNCHANGED <<message, workerVars>>

PressReset ==
  /\ resetting = "idle"
  /\ spent.resets < MaxResets
  /\ resetting' = "record"
  /\ spent' = [spent EXCEPT !.resets = @ + 1]
  /\ UNCHANGED <<coordVars, durable, message, workerVars>>

ResetRecord ==
  /\ resetting = "record"
  /\ Resets(FailPending /\ UNCHANGED coordVars, "abort")

ResetLedger ==
  /\ resetting = "abort"
  /\ \E cause \in Causes : Resets(Abort(cause) /\ UNCHANGED durable, "idle")

-----------------------------------------------------------------------------
(* startBatch has opened the job, written its submissions and sent their messages. *)
Init ==
  /\ aborted = None
  /\ ledger = [i \in Items |-> NewRow]
  /\ attached = {}
  /\ inbox = [s \in Subscribers |-> <<>>]
  /\ submission = [i \in Items |-> "QUEUED"]
  /\ verdicts = [i \in Items |-> 0]
  /\ chained = [i \in Items |-> 0]
  /\ message = [i \in Items |-> [status |-> "ready", attempts |-> 0, holder |-> None]]
  /\ pc = [w \in Workers |-> "idle"]
  /\ item = [w \in Workers |-> None]
  /\ attempt = [w \in Workers |-> 0]
  /\ fault = [w \in Workers |-> None]
  /\ launches = [w \in Workers |-> 0]
  /\ resetting = "idle"
  /\ spent = [faults |-> 0, crashes |-> 0, expiries |-> 0, resets |-> 0]

(* An invocation, once it has a message. *)
Invocation(w) ==
  \/ BuildProvider(w) \/ FailMisconfigured(w) \/ RecordMisconfigured(w)
  \/ CheckAbandoned(w) \/ CheckSettled(w) \/ Start(w)
  \/ ReadStaged(w) \/ Rasterise(w) \/ Extract(w) \/ StoreCrop(w)
  \/ Persist(w) \/ Audit(w) \/ Record(w)
  \/ FailItem(w) \/ FailJob(w) \/ AuditAbandoned(w) \/ AbandonJob(w)
  \/ Defer(w) \/ Fail(w) \/ AuditFailed(w) \/ RecordFailed(w)
  \/ Ack(w) \/ Retry(w)

Environment ==
  \/ \E w \in Workers : Crash(w) \/ Expire(w)
  \/ PressReset \/ ResetRecord \/ ResetLedger

Next ==
  \/ \E w \in Workers, i \in Items : Deliver(w, i)
  \/ \E w \in Workers : Invocation(w)
  \/ Environment

Fairness ==
  /\ \A w \in Workers : WF_vars(Invocation(w))
  /\ \A i \in Items : WF_vars(\E w \in Workers : Deliver(w, i))

Spec == Init /\ [][Next]_vars

FairSpec == Spec /\ Fairness

-----------------------------------------------------------------------------
(* Properties. *)

(* Every variable holds a value of its kind: the schema's states, and a step of the code   *)
(* for every invocation (migrations/0001_init.sql, pipeline.ts).                           *)
TypeOK ==
  /\ CoordTypeOK
  /\ submission \in [Items -> SubmissionStates]
  /\ verdicts \in [Items -> Nat]
  /\ chained \in [Items -> Nat]
  /\ message \in [Items -> [status : {"ready", "held", "gone", "dead"}, attempts : Nat,
                            holder : Workers \cup {None}]]
  /\ pc \in [Workers -> Steps]
  /\ item \in [Workers -> Items \cup {None}]
  /\ attempt \in [Workers -> Nat]
  /\ fault \in [Workers -> Faults \cup {None}]
  /\ launches \in [Workers -> Nat]
  /\ resetting \in {"idle", "record", "abort"}
  /\ spent \in [faults : Nat, crashes : Nat, expiries : Nat, resets : Nat]

(* The durable record settles first: no row of the ledger says an item is finished while   *)
(* its submission still counts as running for /batch/current, which would make every later *)
(* batch join a dead job (the order of the writes in processItem and in /batch/reset).     *)
DurableBeforeLedger ==
  \A i \in Items : ledger[i].state \in Settled => submission[i] # "QUEUED"

(* An item either store calls COMPLETED has a verdict to show (persistResult's one batch,  *)
(* recordResult only after it).                                                            *)
CompletedIsBacked ==
  \A i \in Items :
    ledger[i].state = "COMPLETED" \/ submission[i] = "COMPLETED" => verdicts[i] > 0

(* The history never claims a verdict that was not stored (the append follows the batch).  *)
ChainedVerdictsExist ==
  \A i \in Items : chained[i] <= verdicts[i]

(* Once the job is abandoned no row is left waiting, and no worker already past the abort  *)
(* check brings one back (abort, startItem, deferItem).                                    *)
AbortHasNoSurvivors ==
  aborted # None => \A i \in Items : ledger[i].state \notin Pending

(* The same message twice produces one result (isAlreadySettled; section 9 of the design). *)
OneVerdict ==
  \A i \in Items : verdicts[i] <= 1

(* What the settled check does achieve: no redelivery, reset, throwing call or number of   *)
(* lost invocations, on whatever step, gives a submission a second verdict by itself. It   *)
(* takes two invocations at once, or a throwing call and another loss (the first fails the *)
(* completed item, the second brings it back), or a completed item that meets a            *)
(* misconfigured deployment and loses a second one.                                        *)
OneVerdictUnlessOverlap ==
  /\ spent.expiries = 0
  /\ spent.faults = 0 \/ spent.faults + spent.crashes <= 1
  /\ "misconfigured" \in Deployments => spent.faults + spent.crashes <= 1
  => OneVerdict

(* A submission nobody has decided still has a message that will be delivered.             *)
NoSubmissionStranded ==
  \A i \in Items : submission[i] = "QUEUED" => message[i].status \in {"ready", "held"}

(* The queue's budget outlasts the worker's: as long as no more invocations are lost than  *)
(* there are redeliveries to spare, every undecided submission is still going to be        *)
(* delivered (MAX_ATTEMPTS "must not exceed max_retries", backoff.ts).                     *)
RedeliveriesSuffice ==
  /\ "unbound" \notin Deployments
  /\ spent.faults = 0
  /\ spent.crashes + spent.expiries <= (MaxRetries - MAX_ATTEMPTS) + 1
  => NoSubmissionStranded

(* Every item of the job reaches a stated outcome on the ledger (B5, progress.done). Only  *)
(* where a call or an invocation was lost may a row go on waiting, and then the item was   *)
(* decided durably (a call that throws after the verdict: the redelivery finds it settled  *)
(* and says nothing to the ledger), or its attempts are used up. A deployment without its  *)
(* bindings is not among those the runs of this property meet.                             *)
JobFinishes ==
  <>(\A i \in Items :
       \/ ledger[i].state \in Settled
       \/ /\ spent.faults + spent.crashes > 0
          /\ submission[i] # "QUEUED" \/ message[i].attempts >= MAX_ATTEMPTS)

(* Every message is eventually acknowledged or dead-lettered: no schedule keeps the queue  *)
(* busy for ever (the attempt budget of processItem and of the queue handler).             *)
QueueDrains == <>[](\A i \in Items : message[i].status \in {"gone", "dead"})
=============================================================================
